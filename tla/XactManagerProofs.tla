-------------------------- MODULE XactManagerProofs --------------------------
(***************************************************************************)
(* Proofs about XactManager for any nodes, any transactions and any number *)
(* of failures: its inductive invariant MInv, and from it that regions     *)
(* disagree, and a commit is of another transaction, only when an id was   *)
(* given twice, and that channels do not fill.                             *)
(*                                                                         *)
(* In this order: the operations on one transaction's state; steps seen    *)
(* through TaskAt and Around; types; ids, messages and tasks; that nothing *)
(* happens twice; that what is kept is true.                               *)
(***************************************************************************)
EXTENDS XactManagerInv, SequenceTheorems, FiniteSetTheorems, TLAPS

\* None is no value of any of the other types.
LEMMA NoneFacts == None \notin Node /\ None \notin Xact /\ None # Error /\ None \notin Id
  BY NoneIsNothing DEF Id

----------------------------------------------------------------------------
(* The operations on one transaction's state.                              *)

\* The states of a transaction are the same at all nodes.
LEMMA SameType ==
  ASSUME NEW n \in Node, NEW p \in Node
  PROVE  S(n)!XactType = S(p)!XactType /\ S(n)!Vote = S(p)!Vote
  BY DEF S!XactType, S!XactStatus, S!RollbackInfo, S!Vote

\* The votes a node makes or receives are votes.
LEMMA VoteOfType ==
  ASSUME NEW n \in Node, NEW p \in Node, NEW r \in {None, Error}
  PROVE  /\ S(n)!VoteOf(p, r) \in S(n)!Vote
         /\ S(n)!VoteOf(p, r).from = p /\ S(n)!VoteOf(p, r).reason = r
  BY DEF S!VoteOf, S!Vote

\* What add_vote does to a state x that vote v turns into y.
Counts(x, v, y) ==
  /\ y.kind = x.kind
  /\ y.status = x.status
       \/ (x.status = "Waiting" /\ y.status \in {"Committing", "Rollbacking"})
  /\ \A p \in y.voted : p \in x.voted \/ (p = v.from /\ v.reason = None)
  /\ y.status = "Rollbacking" => \/ x.status = "Rollbacking" /\ y.info = x.info
                                 \/ v.reason # None /\ y.info.reason = v.reason
  /\ y.status = "Committing" => x.status = "Committing" \/ y.voted = Node
  /\ x.voted \subseteq y.voted
  /\ x.status # "Waiting" => y.voted = x.voted
  /\ x.status = "Waiting" => v.from \in y.voted \/ y.status = "Rollbacking"

\* XactState::add_vote in these terms.
LEMMA AddVoteFacts ==
  ASSUME NEW n \in Node, NEW x \in S(n)!XactType, NEW v \in S(n)!Vote
  PROVE  LET y == S(n)!AddVote(x, v) IN
         y \in S(n)!XactType /\ y.votes = x.votes /\ Counts(x, v, y)
  <1>0. x.status \in S(n)!XactStatus /\ x.voted \subseteq Node /\ v.from \in Node
        /\ v.reason \in {None, Error}
    BY DEF S!XactType, S!Vote
  <1>1. CASE x.status # "Waiting"
    BY <1>0, <1>1 DEF S!AddVote, Counts
  <1>2. CASE x.status = "Waiting" /\ v.reason # None
    <2>1. S(n)!AddVote(x, v) = [x EXCEPT !.status = "Rollbacking",
                                         !.info = [by |-> v.from, reason |-> v.reason]]
      BY <1>0, <1>2 DEF S!AddVote
    <2>2. [by |-> v.from, reason |-> v.reason] \in S(n)!RollbackInfo
      BY <1>0 DEF S!RollbackInfo
    <2> DEFINE y == S(n)!AddVote(x, v)
    <2>3. /\ y \in S(n)!XactType /\ y.kind = x.kind /\ y.votes = x.votes /\ y.voted = x.voted
          /\ y.status = "Rollbacking" /\ y.info = [by |-> v.from, reason |-> v.reason]
      BY <1>2, <2>1, <2>2 DEF S!XactType, S!XactStatus
    <2> HIDE DEF y
    <2>4. Counts(x, v, y)
      BY <1>2, <2>3 DEF Counts
    <2>5. QED
      BY <2>3, <2>4 DEF y
  <1>3. CASE x.status = "Waiting" /\ v.reason = None /\ v.from \in x.voted
    BY <1>0, <1>3 DEF S!AddVote, Counts
  <1>4. CASE x.status = "Waiting" /\ v.reason = None /\ v.from \notin x.voted
    <2>1. S(n)!AddVote(x, v) =
            [x EXCEPT !.voted = @ \cup {v.from},
                      !.status = IF x.voted \cup {v.from} = Node THEN "Committing" ELSE @]
      BY <1>0, <1>4 DEF S!AddVote
    <2> DEFINE y == S(n)!AddVote(x, v)
    <2>2. /\ y.voted = x.voted \cup {v.from} /\ y.votes = x.votes /\ y.kind = x.kind
          /\ y.status = IF y.voted = Node THEN "Committing" ELSE "Waiting"
      BY <1>4, <2>1 DEF S!XactType
    <2>3. y \in S(n)!XactType
      <3>1. \A st \in S(n)!XactStatus : \A vd \in SUBSET Node :
              [x EXCEPT !.voted = vd, !.status = st] \in S(n)!XactType
        BY DEF S!XactType
      <3>2. x.voted \cup {v.from} \in SUBSET Node /\ "Committing" \in S(n)!XactStatus
        BY <1>0 DEF S!XactStatus
      <3>3. CASE x.voted \cup {v.from} = Node
        BY <2>1, <3>1, <3>2, <3>3
      <3>4. CASE x.voted \cup {v.from} # Node
        <4>1. y = [x EXCEPT !.voted = x.voted \cup {v.from}, !.status = x.status]
          BY <2>1, <3>4
        <4>2. QED
          BY <1>0, <3>1, <3>2, <4>1
      <3>5. QED
        BY <3>3, <3>4
    <2>4. QED
      BY <1>0, <1>4, <2>2, <2>3 DEF Counts
  <1>5. QED
    BY <1>1, <1>2, <1>3, <1>4

\* init_as_local and init_as_surrogate: the coordinator's vote is counted.
LEMMA InitFacts ==
  ASSUME NEW c \in Node, NEW n \in Node, NEW x \in S(n)!XactType
  PROVE  /\ S(c)!InitAsLocal(x) \in S(n)!XactType
         /\ S(c)!InitAsLocal(x).kind = "local"
         /\ S(c)!InitAsSurrogate(x) \in S(n)!XactType
         /\ S(c)!InitAsSurrogate(x).kind = "surrogate"
         /\ \A y \in {S(c)!InitAsLocal(x), S(c)!InitAsSurrogate(x)} :
              /\ y.votes = x.votes /\ y.status \in {"Waiting", "Committing"}
              /\ y.status = "Committing" => y.voted = Node
              /\ \A p \in y.voted : p \in x.voted \/ p = c
  <1>1. ASSUME NEW k \in {"local", "surrogate"}
        PROVE  LET z == S(c)!Initialized(x, k)
                   y == S(c)!AddVote(z, S(c)!YesVote(c)) IN
               /\ y \in S(n)!XactType /\ y.kind = k
               /\ y.votes = x.votes /\ y.status \in {"Waiting", "Committing"}
               /\ y.status = "Committing" => y.voted = Node
               /\ \A p \in y.voted : p \in x.voted \/ p = c
    <2> DEFINE z == S(c)!Initialized(x, k)
               v == S(c)!YesVote(c)
               y == S(c)!AddVote(z, v)
    <2>1. /\ z \in S(c)!XactType /\ z.kind = k /\ z.votes = x.votes /\ z.voted = x.voted
          /\ z.status = "Waiting"
      <3>1. x \in S(c)!XactType
        BY SameType
      <3>2. QED
        BY <3>1 DEF S!Initialized, S!XactType, S!XactStatus
    <2>2. v \in S(c)!Vote /\ v.from = c /\ v.reason = None
      BY VoteOfType DEF S!YesVote
    <2>3. y \in S(c)!XactType /\ y.votes = z.votes /\ Counts(z, v, y)
      BY <2>1, <2>2, AddVoteFacts
    <2> HIDE DEF y, z, v
    <2>4. y \in S(n)!XactType
      BY <2>3, SameType
    <2>5. QED
      BY <2>1, <2>2, <2>3, <2>4 DEF Counts, y, z, v
  <1>2. QED
    BY <1>1 DEF S!InitAsLocal, S!InitAsSurrogate

\* One iteration of initialize's loop counts the first of the early votes.
LEMMA AddExistingFacts ==
  ASSUME NEW n \in Node, NEW x \in S(n)!XactType, x.votes # <<>>
  PROVE  LET y == S(n)!AddExistingVote(x) IN
         /\ y \in S(n)!XactType /\ y.votes = Tail(x.votes)
         /\ Head(x.votes) \in S(n)!Vote /\ Head(x.votes) = x.votes[1]
         /\ Counts(x, Head(x.votes), y)
  <1>1. x.votes \in Seq(S(n)!Vote) /\ Head(x.votes) \in S(n)!Vote
        /\ Tail(x.votes) \in Seq(S(n)!Vote) /\ Head(x.votes) = x.votes[1]
    BY DEF S!XactType
  <1> DEFINE z == S(n)!AddVote(x, Head(x.votes))
  <1>2. z \in S(n)!XactType /\ Counts(x, Head(x.votes), z)
    BY <1>1, AddVoteFacts
  <1> DEFINE y == S(n)!AddExistingVote(x)
  <1>3. y = [z EXCEPT !.votes = Tail(x.votes)]
    BY DEF S!AddExistingVote
  <1> HIDE DEF z, y
  <1>4. /\ y \in S(n)!XactType /\ y.votes = Tail(x.votes)
        /\ y.kind = z.kind /\ y.status = z.status /\ y.voted = z.voted /\ y.info = z.info
    BY <1>1, <1>2, <1>3 DEF S!XactType
  <1>5. QED
    BY <1>1, <1>2, <1>4 DEF Counts, y

\* Votes that came early are kept, and the own vote is put before them.
LEMMA KeepFacts ==
  ASSUME NEW n \in Node, NEW x \in S(n)!XactType, NEW v \in S(n)!Vote
  PROVE  /\ S(n)!KeepVote(x, v) \in S(n)!XactType /\ OwnFirst(x, v) \in S(n)!XactType
         /\ OwnFirst(x, v).votes # <<>> /\ Head(OwnFirst(x, v).votes) = v
         /\ \A y \in {S(n)!KeepVote(x, v), OwnFirst(x, v)} :
              /\ y.kind = x.kind /\ y.status = x.status /\ y.voted = x.voted /\ y.info = x.info
              /\ \A k \in 1..Len(y.votes) :
                   y.votes[k] = v \/ \E j \in 1..Len(x.votes) : y.votes[k] = x.votes[j]
  <1>1. x.votes \in Seq(S(n)!Vote)
    BY DEF S!XactType
  <1> DEFINE ap == Append(x.votes, v)
  <1>2. /\ ap \in Seq(S(n)!Vote)
        /\ \A k \in 1..Len(ap) : ap[k] = v \/ \E j \in 1..Len(x.votes) : ap[k] = x.votes[j]
    BY <1>1
  <1> HIDE DEF ap
  <1> DEFINE w == <<v>> \o x.votes
  <1>3. w \in Seq(S(n)!Vote) /\ Len(w) = 1 + Len(x.votes) /\ w[1] = v
        /\ \A k \in 2..Len(w) : w[k] = x.votes[k - 1]
    BY <1>1
  <1>4. Len(x.votes) \in Nat
    BY <1>1
  <1> HIDE DEF w
  <1>5. /\ w # <<>> /\ Head(w) = v
        /\ \A k \in 1..Len(w) : w[k] = v \/ \E j \in 1..Len(x.votes) : w[k] = x.votes[j]
    BY <1>1, <1>3, <1>4
  <1>6. /\ S(n)!KeepVote(x, v) = [x EXCEPT !.votes = ap]
        /\ OwnFirst(x, v) = [x EXCEPT !.votes = w]
    BY DEF S!KeepVote, OwnFirst, w, ap
  <1>7. \A z \in Seq(S(n)!Vote) : LET y == [x EXCEPT !.votes = z] IN
          /\ y \in S(n)!XactType /\ y.votes = z
          /\ y.kind = x.kind /\ y.status = x.status /\ y.voted = x.voted /\ y.info = x.info
    BY DEF S!XactType
  <1> DEFINE kept == S(n)!KeepVote(x, v)
             own == OwnFirst(x, v)
  <1>8. /\ kept \in S(n)!XactType /\ kept.votes = ap
        /\ kept.kind = x.kind /\ kept.status = x.status /\ kept.voted = x.voted
        /\ kept.info = x.info
    BY <1>2, <1>6, <1>7
  <1>9. /\ own \in S(n)!XactType /\ own.votes = w
        /\ own.kind = x.kind /\ own.status = x.status /\ own.voted = x.voted
        /\ own.info = x.info
    BY <1>3, <1>6, <1>7
  <1>10. QED
    <2> HIDE DEF kept, own
    <2>1. /\ \A k \in 1..Len(kept.votes) :
               kept.votes[k] = v \/ \E j \in 1..Len(x.votes) : kept.votes[k] = x.votes[j]
          /\ \A k \in 1..Len(own.votes) :
               own.votes[k] = v \/ \E j \in 1..Len(x.votes) : own.votes[k] = x.votes[j]
      BY <1>2, <1>5, <1>8, <1>9
    <2>2. own.votes # <<>> /\ Head(own.votes) = v
      BY <1>5, <1>9
    <2>3. QED
      BY <1>8, <1>9, <2>1, <2>2 DEF kept, own

\* try_finish only ends the status.
LEMMA FinishedFacts ==
  ASSUME NEW n \in Node, NEW x \in S(n)!XactType
  PROVE  LET y == S(n)!Finished(x) IN
         /\ y \in S(n)!XactType
         /\ y.kind = x.kind /\ y.votes = x.votes /\ y.voted = x.voted
         /\ x.status = "Committing" => y.status = "Committed"
         /\ x.status = "Rollbacking" => y.status = "Rollbacked"
  <1>1. x.status \in S(n)!XactStatus
    BY DEF S!XactType
  <1> DEFINE st == IF x.status = "Committing" THEN "Committed"
                   ELSE IF x.status = "Rollbacking" THEN "Rollbacked" ELSE x.status
  <1>2. st \in S(n)!XactStatus /\ S(n)!Finished(x) = [x EXCEPT !.status = st]
    BY <1>1 DEF S!XactStatus, S!Finished
  <1>3. /\ x.status = "Committing" => st = "Committed"
        /\ x.status = "Rollbacking" => st = "Rollbacked"
    OBVIOUS
  <1> HIDE DEF st
  <1>4. QED
    BY <1>2, <1>3 DEF S!XactType

\* The state of a task that has just been created.
LEMMA UnknownFacts ==
  ASSUME NEW n \in Node
  PROVE  /\ S(n)!Unknown \in S(n)!XactType
         /\ S(n)!Unknown.kind = "unknown" /\ S(n)!Unknown.status = "Uninitialized"
         /\ S(n)!Unknown.votes = <<>> /\ S(n)!Unknown.voted = {}
         /\ NewTask(n) \in Task(n)
  <1>1. S(n)!Unknown \in S(n)!XactType
    BY DEF S!Unknown, S!XactType, S!XactStatus, S!RollbackInfo, S!NoInfo
  <1>2. QED
    BY <1>1 DEF S!Unknown, NewTask, Task

----------------------------------------------------------------------------
(* Steps seen through TaskAt and Around.                                   *)

\* A task that is not in the map counts as a new one.
LEMMA TaskAtType ==
  ASSUME TypeOK, NEW n \in Node, NEW i \in Id
  PROVE  /\ TaskAt(n, i) \in Task(n)
         /\ TaskAt(n, i).chan \in Seq(Msg) /\ TaskAt(n, i).xact \in S(n)!XactType
         /\ TaskAt(n, i).of \in Xact \cup {None}
  <1>1. TaskAt(n, i) \in Task(n)
    BY UnknownFacts DEF TypeOK, TaskAt
  <1>2. QED
    BY <1>1 DEF Task

\* The step leaves task t under id i at node n, and every other task as it was.
Touches(n, i, t) ==
  /\ TaskAt(n, i)' = t
  /\ \A p \in Node, j \in Id : p # n \/ j # i => TaskAt(p, j)' = TaskAt(p, j)

TasksType ==
  /\ DOMAIN tasks = Node
  /\ \A n \in Node : Ids(n) \subseteq Id /\ \A i \in Ids(n) : tasks[n][i] \in Task(n)

\* An entry of the map is written.
LEMMA SetTaskFacts ==
  ASSUME TypeOK, NEW n \in Node, NEW i \in Id, NEW t \in Task(n), SetTask(n, i, t)
  PROVE  /\ Touches(n, i, t) /\ TasksType'
         /\ \A p \in Node : Ids(p)' = IF p = n THEN Ids(n) \cup {i} ELSE Ids(p)
  <1>1. DOMAIN tasks = Node /\ tasks' = [tasks EXCEPT ![n] = With(tasks[n], i, t)]
    BY DEF TypeOK, SetTask
  <1>2. DOMAIN tasks' = Node /\ tasks'[n] = With(tasks[n], i, t)
        /\ \A p \in Node : p # n => tasks'[p] = tasks[p]
    BY <1>1
  <1>3. /\ DOMAIN tasks'[n] = Ids(n) \cup {i} /\ tasks'[n][i] = t
        /\ \A j \in Ids(n) : j # i => tasks'[n][j] = tasks[n][j]
    BY <1>2 DEF With, Ids
  <1>4. \A p \in Node : Ids(p)' = IF p = n THEN Ids(n) \cup {i} ELSE Ids(p)
    BY <1>2, <1>3 DEF Ids
  <1>5. TaskAt(n, i)' = t
    BY <1>3, <1>4 DEF TaskAt
  <1>6. \A p \in Node, j \in Id : p # n \/ j # i => TaskAt(p, j)' = TaskAt(p, j)
    BY <1>2, <1>3, <1>4 DEF TaskAt, NewTask
  <1>7. TasksType'
    <2>1. ASSUME NEW p \in Node, NEW j \in Ids(p)'
          PROVE  j \in Id /\ tasks'[p][j] \in Task(p)
      BY <1>2, <1>3, <1>4 DEF TypeOK
    <2>2. QED
      BY <1>2, <2>1 DEF TasksType, Task
  <1>8. QED
    BY <1>4, <1>5, <1>6, <1>7 DEF Touches

\* Nothing new is on its way.
NoNew == \A m \in Msg : Around(m)' => Around(m)

\* A channel from which at most the first message was taken, or that was dropped.
Shorter(s, r) == s = r \/ (r # <<>> /\ s = Tail(r)) \/ s = <<>>

\* Such a channel holds what was there before, and nothing twice.
LEMMA ShorterFacts ==
  ASSUME NEW r \in Seq(Msg), NEW s, Shorter(s, r)
  PROVE  /\ \A k \in 1..Len(s) : \E j \in 1..Len(r) : s[k] = r[j]
         /\ Distinct(r) => Distinct(s)
         /\ s \in Seq(Msg)
  <1>1. CASE s = r
    BY <1>1
  <1>2. CASE r # <<>> /\ s = Tail(r)
    <2>1. Len(s) = Len(r) - 1 /\ Len(r) \in Nat /\ s \in Seq(Msg)
          /\ \A k \in 1..Len(s) : s[k] = r[k + 1]
      BY <1>2
    <2>2. \A k \in 1..Len(s) : k + 1 \in 1..Len(r)
      BY <2>1
    <2>3. \A k \in 1..Len(s) : \E j \in 1..Len(r) : s[k] = r[j]
      BY <2>1, <2>2
    <2>4. Distinct(r) => Distinct(s)
      <3>1. SUFFICES ASSUME Distinct(r), NEW j \in 1..Len(s), NEW k \in 1..Len(s), SameCall(s[j], s[k])
                     PROVE  j = k
        BY DEF Distinct
      <3>2. SameCall(r[j + 1], r[k + 1])
        BY <2>1, <3>1
      <3>3. j + 1 = k + 1
        BY <2>2, <3>1, <3>2 DEF Distinct
      <3>4. QED
        BY <3>3
    <2>5. QED
      BY <2>1, <2>3, <2>4
  <1>3. CASE s = <<>>
    BY <1>3 DEF Distinct
  <1>4. QED
    BY <1>1, <1>2, <1>3 DEF Shorter

\* A step that only takes messages away.
LEMMA FewerMsgs ==
  ASSUME TypeOK, GoodMsgs, NoTwins, net' \subseteq net, idOf' = idOf,
         \A p \in Node, j \in Id : Shorter(TaskAt(p, j)'.chan, TaskAt(p, j).chan)
  PROVE  GoodMsgs' /\ NoTwins' /\ NoNew
  <1>1. ASSUME NEW p \in Node, NEW j \in Id
        PROVE  /\ \A k \in 1..Len(TaskAt(p, j)'.chan) :
                    \E l \in 1..Len(TaskAt(p, j).chan) : TaskAt(p, j)'.chan[k] = TaskAt(p, j).chan[l]
               /\ Distinct(TaskAt(p, j).chan) => Distinct(TaskAt(p, j)'.chan)
    <2>1. TaskAt(p, j).chan \in Seq(Msg)
      BY TaskAtType
    <2>2. Shorter(TaskAt(p, j)'.chan, TaskAt(p, j).chan)
      OBVIOUS
    <2>3. QED
      BY <2>1, <2>2, ShorterFacts
  <1>2. GoodMsgs'
    <2>1. \A m \in net' : GoodMsg(m) /\ m.type # "LocalXact"
      BY DEF GoodMsgs, GoodMsg
    <2>2. ASSUME NEW p \in Node, NEW j \in Id, NEW k \in 1..Len(TaskAt(p, j)'.chan)
          PROVE  LET m == TaskAt(p, j)'.chan[k] IN GoodMsg(m) /\ m.to = p /\ m.id = j
      BY <1>1, <2>2 DEF GoodMsgs, GoodMsg
    <2>3. QED
      BY <2>1, <2>2 DEF GoodMsgs, GoodMsg
  <1>3. NoTwins'
    <2>1. \A p \in Node, j \in Id : Distinct(TaskAt(p, j)'.chan)
      BY <1>1 DEF NoTwins
    <2>2. ASSUME NEW m \in net', NEW k \in 1..Len(TaskAt(m.to, m.id)'.chan)
          PROVE  ~SameCall(m, TaskAt(m.to, m.id)'.chan[k])
      <3>1. m \in net /\ m.to \in Node /\ m.id \in Id
        BY DEF TypeOK, Msg
      <3>2. QED
        BY <1>1, <2>2, <3>1 DEF NoTwins
    <2>3. QED
      BY <2>1, <2>2 DEF NoTwins, Distinct, SameCall
  <1>4. NoNew
    <2>1. ASSUME NEW m \in Msg, Around(m)' PROVE Around(m)
      <3>1. m.to \in Node /\ m.id \in Id
        BY DEF Msg
      <3>2. QED
        BY <1>1, <2>1, <3>1 DEF Around, InChan
    <2>2. QED
      BY <2>1 DEF NoNew
  <1>5. QED
    BY <1>2, <1>3, <1>4

----------------------------------------------------------------------------
(* What each operation does to the tasks, and that it keeps the types.     *)

\* Clients that wait may get an error, and nothing else.
ClientQuiet ==
  /\ client' \in [Xact -> {"idle", "waiting", "committed", "aborted", "error"}]
  /\ \A x \in Xact : client'[x] = client[x] \/ (client[x] = "waiting" /\ client'[x] = "error")

\* Dropping commit_tx changes a client at most from waiting to an error.
LEMMA DroppedFacts ==
  ASSUME TypeOK, NEW X, Dropped(X)
  PROVE  ClientQuiet
  BY DEF Dropped, ClientQuiet, TypeOK

\* A step that tells no client anything is quiet to the clients.
LEMMA SameClient ==
  ASSUME TypeOK, UNCHANGED client
  PROVE  ClientQuiet
  BY DEF ClientQuiet, TypeOK

\* The step changes one task, which is in the map, and leaves it with these fields.
Becomes(n, i, at, of, xact, chan) ==
  /\ \A p \in Node : Ids(p)' = Ids(p)
  /\ \A p \in Node, j \in Id : p # n \/ j # i => TaskAt(p, j)' = TaskAt(p, j)
  /\ TaskAt(n, i)' \in Task(n)
  /\ TaskAt(n, i)'.at = at /\ TaskAt(n, i)'.of = of
  /\ TaskAt(n, i)'.xact = xact /\ TaskAt(n, i)'.chan = chan

\* SetTask on an id of the map changes that task and nothing else.
LEMMA BecomesFacts ==
  ASSUME TypeOK, NEW n \in Node, NEW i \in Ids(n), NEW u \in Task(n), SetTask(n, i, u)
  PROVE  Becomes(n, i, u.at, u.of, u.xact, u.chan) /\ TasksType'
  <1>1. i \in Id
    BY DEF TypeOK
  <1>2. /\ Touches(n, i, u) /\ TasksType'
        /\ \A p \in Node : Ids(p)' = IF p = n THEN Ids(n) \cup {i} ELSE Ids(p)
    BY <1>1, SetTaskFacts
  <1>3. \A p \in Node : Ids(p)' = Ids(p)
    BY <1>2
  <1>4. QED
    BY <1>2, <1>3 DEF Becomes, Touches

\* A task of the map.
LEMMA TaskFacts ==
  ASSUME TypeOK, NEW n \in Node, NEW i \in Ids(n)
  PROVE  LET t == tasks[n][i] IN
         /\ TaskAt(n, i) = t /\ i \in Id /\ t \in Task(n)
         /\ t.chan \in Seq(Msg) /\ t.xact \in S(n)!XactType /\ t.of \in Xact \cup {None}
  <1>1. TaskAt(n, i) = tasks[n][i] /\ i \in Id /\ tasks[n][i] \in Task(n)
    BY DEF TypeOK, TaskAt
  <1>2. QED
    BY <1>1 DEF Task

\* The loop of a task ends.
LEMMA StoppedFacts ==
  ASSUME NEW n \in Node, NEW t \in Task(n)
  PROVE  LET u == Stopped(t) IN
         /\ u \in Task(n) /\ u.at = "stopped" /\ u.chan = <<>>
         /\ u.of = t.of /\ u.xact = t.xact
  <1>1. \A c \in Seq(Msg) : LET u == [t EXCEPT !.at = "stopped", !.chan = c] IN
          u \in Task(n) /\ u.at = "stopped" /\ u.chan = c /\ u.of = t.of /\ u.xact = t.xact
    BY DEF Task
  <1>2. <<>> \in Seq(Msg)
    OBVIOUS
  <1>3. QED
    BY <1>1, <1>2 DEF Stopped

\* An abandoned task keeps its transaction, and its channel is gone.
LEMMA AbandonFacts ==
  ASSUME TypeOK, NEW n \in Node, NEW i \in Ids(n), Abandon(n, i)
  PROVE  /\ Becomes(n, i, "stopped", tasks[n][i].of, tasks[n][i].xact, <<>>)
         /\ TasksType' /\ ClientQuiet
  <1> DEFINE u == Stopped(tasks[n][i])
  <1>1. tasks[n][i] \in Task(n)
    BY TaskFacts
  <1>2. /\ u \in Task(n) /\ SetTask(n, i, u) /\ u.at = "stopped" /\ u.chan = <<>>
        /\ u.of = tasks[n][i].of /\ u.xact = tasks[n][i].xact
    BY <1>1, StoppedFacts DEF Abandon
  <1> HIDE DEF u
  <1>3. Becomes(n, i, u.at, u.of, u.xact, u.chan) /\ TasksType'
    BY <1>2, BecomesFacts
  <1>4. ClientQuiet
    BY DroppedFacts DEF Abandon
  <1>5. QED
    BY <1>2, <1>3, <1>4

\* The other variables keep their types.
RestType ==
  /\ counter \in [Node -> Nat]
  /\ net \subseteq Msg
  /\ DOMAIN prepared = Node
  /\ \A n \in Node :
       DOMAIN prepared[n] \subseteq Id /\ \A i \in DOMAIN prepared[n] : prepared[n][i] \in Xact
  /\ executed \in [Node -> [Xact -> {"none", "ok", "error"}]]
  /\ outcome \in [Node -> [Xact -> {"none", "committed", "aborted"}]]
  /\ client \in [Xact -> {"idle", "waiting", "committed", "aborted", "error"}]
  /\ idOf \in [Xact -> Id \cup {None}]
  /\ restarted \subseteq Node
  /\ faults \in 0..MaxFaults

\* TypeOK is its part about the tasks and the rest.
LEMMA TypeParts ==
  /\ TypeOK <=> TasksType /\ RestType
  /\ TypeOK' <=> TasksType' /\ RestType'
  BY DEF TypeOK, TasksType, RestType

\* A message taken from the front of a channel.
LEMMA ReceivesFacts ==
  ASSUME TypeOK, NEW n \in Node, NEW i \in Ids(n), NEW type, Receives(n, i, type)
  PROVE  LET t == tasks[n][i] IN
         /\ t.at = "recv" /\ t.chan # <<>> /\ 1 \in 1..Len(t.chan)
         /\ Head(t.chan) = t.chan[1] /\ Head(t.chan) \in Msg /\ Head(t.chan).type = type
         /\ Tail(t.chan) \in Seq(Msg)
  <1>1. tasks[n][i].chan \in Seq(Msg)
    BY TaskFacts
  <1>2. tasks[n][i].at = "recv" /\ tasks[n][i].chan # <<>> /\ Head(tasks[n][i].chan).type = type
    BY DEF Receives
  <1>3. QED
    BY <1>1, <1>2

\* The actions that a task takes in one position, in terms of Becomes.
LEMMA HandleLocalXactFacts ==
  ASSUME TypeOK, NEW n \in Node, NEW i \in Ids(n), HandleLocalXact(n, i)
  PROVE  LET t == tasks[n][i] IN
         /\ TypeOK' /\ ClientQuiet
         /\ \/ /\ t.xact.kind = "unknown" /\ UNCHANGED client
               /\ Becomes(n, i, "existing", Head(t.chan).of, S(n)!InitAsLocal(t.xact), Tail(t.chan))
            \/ Becomes(n, i, "stopped", t.of, t.xact, <<>>)
  <1> DEFINE t == tasks[n][i]
             m == Head(t.chan)
             u == [t EXCEPT !.at = "existing", !.of = m.of, !.chan = Tail(@),
                            !.xact = S(n)!InitAsLocal(@)]
  <1>1. /\ t \in Task(n) /\ t.xact \in S(n)!XactType
        /\ m \in Msg /\ m.of \in Xact /\ Tail(t.chan) \in Seq(Msg)
    BY TaskFacts, ReceivesFacts DEF HandleLocalXact, Msg
  <1>2. CASE t.xact.kind = "unknown"
    <2>1. S(n)!InitAsLocal(t.xact) \in S(n)!XactType
      BY <1>1, InitFacts
    <2>2. /\ u \in Task(n) /\ u.at = "existing" /\ u.of = m.of /\ u.chan = Tail(t.chan)
          /\ u.xact = S(n)!InitAsLocal(t.xact)
      BY <1>1, <2>1 DEF Task
    <2>3. SetTask(n, i, u) /\ UNCHANGED client
      BY <1>2 DEF HandleLocalXact
    <2> HIDE DEF u
    <2>4. Becomes(n, i, u.at, u.of, u.xact, u.chan) /\ TasksType'
      BY <2>2, <2>3, BecomesFacts
    <2>5. RestType' /\ ClientQuiet
      BY <2>3, SameClient, TypeParts DEF HandleLocalXact, RestType
    <2>6. QED
      BY <1>2, <2>2, <2>3, <2>4, <2>5, TypeParts
  <1>3. CASE t.xact.kind # "unknown"
    <2> DEFINE v == Stopped(t)
    <2>1. SetTask(n, i, v) /\ ClientQuiet
      BY <1>3, DroppedFacts DEF HandleLocalXact
    <2>2. /\ v \in Task(n) /\ v.at = "stopped" /\ v.chan = <<>> /\ v.of = t.of /\ v.xact = t.xact
      BY <1>1, StoppedFacts
    <2> HIDE DEF v
    <2>3. Becomes(n, i, v.at, v.of, v.xact, v.chan) /\ TasksType'
      BY <2>1, <2>2, BecomesFacts
    <2>4. RestType'
      BY <2>1, TypeParts DEF HandleLocalXact, RestType, ClientQuiet
    <2>5. QED
      BY <2>1, <2>2, <2>3, <2>4, TypeParts
  <1>4. QED
    BY <1>2, <1>3

\* handle_prepare_msg starts the execution, or stops the task.
LEMMA HandlePrepareFacts ==
  ASSUME TypeOK, NEW n \in Node, NEW i \in Ids(n), HandlePrepare(n, i)
  PROVE  LET t == tasks[n][i]
             m == Head(t.chan) IN
         /\ TypeOK' /\ ClientQuiet
         /\ \/ /\ t.xact.kind = "unknown" /\ UNCHANGED client
               /\ Becomes(n, i, "execute", m.of, S(m.from)!InitAsSurrogate(t.xact), Tail(t.chan))
            \/ Becomes(n, i, "stopped", t.of, t.xact, <<>>)
  <1> DEFINE t == tasks[n][i]
             m == Head(t.chan)
             y == S(m.from)!InitAsSurrogate(t.xact)
             u == [t EXCEPT !.at = "execute", !.of = m.of, !.chan = Tail(@),
                            !.xact = S(m.from)!InitAsSurrogate(@)]
  <1>1. /\ t \in Task(n) /\ t.xact \in S(n)!XactType
        /\ m \in Msg /\ m.of \in Xact /\ m.from \in Node /\ Tail(t.chan) \in Seq(Msg)
    BY TaskFacts, ReceivesFacts DEF HandlePrepare, Msg
  <1>2. CASE t.xact.kind = "unknown"
    <2>1. y \in S(n)!XactType
      BY <1>1, InitFacts
    <2>2. /\ u \in Task(n) /\ u.at = "execute" /\ u.of = m.of /\ u.chan = Tail(t.chan)
          /\ u.xact = y
      BY <1>1, <2>1 DEF Task
    <2>3. SetTask(n, i, u) /\ UNCHANGED client
      BY <1>2 DEF HandlePrepare
    <2> HIDE DEF u
    <2>4. Becomes(n, i, u.at, u.of, u.xact, u.chan) /\ TasksType'
      BY <2>2, <2>3, BecomesFacts
    <2>5. RestType' /\ ClientQuiet
      BY <2>3, SameClient, TypeParts DEF HandlePrepare, RestType
    <2>6. QED
      BY <1>2, <2>2, <2>3, <2>4, <2>5, TypeParts
  <1>3. CASE t.xact.kind # "unknown"
    <2>1. Abandon(n, i)
      BY <1>3 DEF HandlePrepare
    <2>2. Becomes(n, i, "stopped", t.of, t.xact, <<>>) /\ TasksType' /\ ClientQuiet
      BY <2>1, AbandonFacts
    <2>3. RestType'
      BY <2>2, TypeParts DEF HandlePrepare, RestType, ClientQuiet
    <2>4. QED
      BY <2>2, <2>3, TypeParts
  <1>4. QED
    BY <1>2, <1>3

\* The execution of a transaction, which the task has in t.of.
LEMMA ExecuteFacts ==
  ASSUME TypeOK, NEW n \in Node, NEW i \in Ids(n), Execute(n, i), tasks[n][i].of \in Xact
  PROVE  LET t == tasks[n][i] IN
         /\ TypeOK' /\ t.at = "execute"
         /\ \E r \in {None, Error} :
              /\ Becomes(n, i, "existing", t.of, OwnFirst(t.xact, OwnVote(n, r)), t.chan)
              /\ executed' = [executed EXCEPT ![n][t.of] = IF r = None THEN "ok" ELSE "error"]
              /\ outcome' = IF r = None THEN outcome ELSE [outcome EXCEPT ![n][t.of] = "aborted"]
              /\ r # None => prepared' = prepared
              /\ r = None => /\ prepared' = [prepared EXCEPT ![n] = With(@, i, t.of)]
                             /\ i \notin DOMAIN prepared[n]
  <1> DEFINE t == tasks[n][i]
  <1>1. PICK r \in {None, Error} :
          /\ r = None => i \notin DOMAIN prepared[n]
          /\ prepared' = IF r = None THEN [prepared EXCEPT ![n] = With(@, i, t.of)] ELSE prepared
          /\ executed' = [executed EXCEPT ![n][t.of] = IF r = None THEN "ok" ELSE "error"]
          /\ outcome' = IF r = None THEN outcome ELSE [outcome EXCEPT ![n][t.of] = "aborted"]
          /\ SetTask(n, i, [t EXCEPT !.at = "existing", !.xact = OwnFirst(@, OwnVote(n, r))])
    BY DEF Execute
  <1> DEFINE y == OwnFirst(t.xact, OwnVote(n, r))
             u == [t EXCEPT !.at = "existing", !.xact = OwnFirst(@, OwnVote(n, r))]
  <1>2. t \in Task(n) /\ t.xact \in S(n)!XactType /\ i \in Id
    BY TaskFacts
  <1>3. y \in S(n)!XactType
    BY <1>2, VoteOfType, KeepFacts DEF OwnVote
  <1>4. u \in Task(n) /\ u.at = "existing" /\ u.of = t.of /\ u.chan = t.chan /\ u.xact = y
    BY <1>2, <1>3 DEF Task
  <1>5. SetTask(n, i, u)
    BY <1>1
  <1>6. Becomes(n, i, u.at, u.of, u.xact, u.chan) /\ TasksType'
    <2> HIDE DEF u
    <2> QED BY <1>4, <1>5, BecomesFacts
  <1>7. RestType'
    <2>1. executed' \in [Node -> [Xact -> {"none", "ok", "error"}]]
      BY <1>1 DEF TypeOK
    <2>2. outcome' \in [Node -> [Xact -> {"none", "committed", "aborted"}]]
      BY <1>1 DEF TypeOK
    <2>3. /\ DOMAIN prepared' = Node
          /\ \A p \in Node : /\ DOMAIN prepared'[p] \subseteq Id
                             /\ \A j \in DOMAIN prepared'[p] : prepared'[p][j] \in Xact
      <3>1. CASE r # None
        BY <1>1, <3>1 DEF TypeOK
      <3>2. CASE r = None
        <4>1. /\ DOMAIN prepared' = Node /\ prepared'[n] = With(prepared[n], i, t.of)
              /\ \A p \in Node : p # n => prepared'[p] = prepared[p]
          BY <1>1, <3>2 DEF TypeOK
        <4>2. /\ DOMAIN With(prepared[n], i, t.of) = DOMAIN prepared[n] \cup {i}
              /\ \A j \in DOMAIN prepared[n] \cup {i} :
                   With(prepared[n], i, t.of)[j] = IF j = i THEN t.of ELSE prepared[n][j]
          BY DEF With
        <4>3. QED
          BY <1>2, <4>1, <4>2 DEF TypeOK
      <3>3. QED
        BY <3>1, <3>2
    <2>4. QED
      BY <2>1, <2>2, <2>3 DEF Execute, TypeOK, RestType
  <1>8. /\ r # None => prepared' = prepared
        /\ r = None => prepared' = [prepared EXCEPT ![n] = With(@, i, t.of)]
    BY <1>1
  <1>9. t.at = "execute"
    BY DEF Execute
  <1>10. QED
    <2> HIDE DEF u, y
    <2>1. Becomes(n, i, "existing", t.of, y, t.chan)
      BY <1>4, <1>6
    <2>2. QED
      BY <1>1, <1>6, <1>7, <1>8, <1>9, <2>1, TypeParts DEF y

\* One iteration of initialize's loop counts a vote, or stops the task.
LEMMA AddExistingFacts1 ==
  ASSUME TypeOK, NEW n \in Node, NEW i \in Ids(n), AddExisting(n, i)
  PROVE  LET t == tasks[n][i] IN
         /\ TypeOK' /\ ClientQuiet
         /\ t.at = "existing" /\ t.xact.votes # <<>>
         /\ \/ /\ S(n)!MayAddVote(t.xact)
               /\ Becomes(n, i, "existing", t.of, S(n)!AddExistingVote(t.xact), t.chan)
            \/ Becomes(n, i, "stopped", t.of, t.xact, <<>>)
  <1> DEFINE t == tasks[n][i]
             y == S(n)!AddExistingVote(t.xact)
             u == [t EXCEPT !.xact = S(n)!AddExistingVote(@)]
  <1>1. t \in Task(n) /\ t.xact \in S(n)!XactType
    BY TaskFacts
  <1>2. t.at = "existing" /\ t.xact.votes # <<>>
    BY DEF AddExisting
  <1>3. CASE S(n)!MayAddVote(t.xact)
    <2>1. y \in S(n)!XactType
      BY <1>1, <1>2, AddExistingFacts
    <2>2. u \in Task(n) /\ u.at = t.at /\ u.of = t.of /\ u.chan = t.chan /\ u.xact = y
      BY <1>1, <2>1 DEF Task
    <2>3. SetTask(n, i, u) /\ UNCHANGED client
      BY <1>3 DEF AddExisting
    <2> HIDE DEF u, y
    <2>4. Becomes(n, i, u.at, u.of, u.xact, u.chan) /\ TasksType'
      BY <2>2, <2>3, BecomesFacts
    <2>5. RestType' /\ ClientQuiet
      BY <2>3, SameClient, TypeParts DEF AddExisting, RestType
    <2>6. Becomes(n, i, "existing", t.of, y, t.chan)
      BY <1>2, <2>2, <2>4
    <2>7. QED
      BY <1>2, <1>3, <2>4, <2>5, <2>6, TypeParts DEF y
  <1>4. CASE ~S(n)!MayAddVote(t.xact)
    <2>1. Abandon(n, i)
      BY <1>4 DEF AddExisting
    <2>2. Becomes(n, i, "stopped", t.of, t.xact, <<>>) /\ TasksType' /\ ClientQuiet
      BY <2>1, AbandonFacts
    <2>3. RestType'
      BY <2>2, TypeParts DEF AddExisting, RestType, ClientQuiet
    <2>4. QED
      BY <1>2, <2>2, <2>3, TypeParts
  <1>5. QED
    BY <1>3, <1>4

\* The calls with the transaction are made, or the assertion fails.
LEMMA SendPrepareFacts ==
  ASSUME TypeOK, NEW n \in Node, NEW i \in Ids(n), SendPrepare(n, i), tasks[n][i].of \in Xact
  PROVE  LET t == tasks[n][i] IN
         /\ TypeOK' /\ ClientQuiet
         /\ t.at = "existing" /\ t.xact.kind = "local"
         /\ \/ /\ Becomes(n, i, "send", t.of, t.xact, t.chan)
               /\ net' = net \cup {Message("Prepare", i, t.of, n, p, None) : p \in Others(n)}
            \/ Becomes(n, i, "stopped", t.of, t.xact, <<>>) /\ net' = net
  <1> DEFINE t == tasks[n][i]
             u == [t EXCEPT !.at = "send"]
  <1>1. t \in Task(n) /\ t.xact \in S(n)!XactType /\ i \in Id
    BY TaskFacts
  <1>2. t.at = "existing" /\ t.xact.kind = "local"
    BY DEF SendPrepare, Initialized
  <1>3. CASE t.xact.status = "Waiting"
    <2>1. u \in Task(n) /\ u.at = "send" /\ u.of = t.of /\ u.chan = t.chan /\ u.xact = t.xact
      BY <1>1 DEF Task
    <2>2. /\ SetTask(n, i, u) /\ UNCHANGED client
          /\ net' = net \cup {Message("Prepare", i, t.of, n, p, None) : p \in Others(n)}
      BY <1>3 DEF SendPrepare
    <2> HIDE DEF u
    <2>3. Becomes(n, i, u.at, u.of, u.xact, u.chan) /\ TasksType'
      BY <2>1, <2>2, BecomesFacts
    <2>4. \A p \in Others(n) : Message("Prepare", i, t.of, n, p, None) \in Msg
      BY <1>1 DEF Message, Msg, Others
    <2>5. net' \subseteq Msg
      BY <2>2, <2>4 DEF TypeOK
    <2>6. RestType' /\ ClientQuiet
      BY <2>2, <2>5, SameClient, TypeParts DEF SendPrepare, RestType
    <2>7. Becomes(n, i, "send", t.of, t.xact, t.chan)
      BY <2>1, <2>3
    <2>8. QED
      BY <1>2, <2>2, <2>3, <2>6, <2>7, TypeParts
  <1>4. CASE t.xact.status # "Waiting"
    <2>1. Abandon(n, i) /\ net' = net
      BY <1>4 DEF SendPrepare
    <2>2. Becomes(n, i, "stopped", t.of, t.xact, <<>>) /\ TasksType' /\ ClientQuiet
      BY <2>1, AbandonFacts
    <2>3. RestType'
      BY <2>1, <2>2, TypeParts DEF SendPrepare, RestType, ClientQuiet
    <2>4. QED
      BY <1>2, <2>1, <2>2, <2>3, TypeParts
  <1>5. QED
    BY <1>3, <1>4

\* The vote is sent.
LEMMA SendVoteFacts ==
  ASSUME TypeOK, NEW n \in Node, NEW i \in Ids(n), SendVote(n, i), tasks[n][i].of \in Xact
  PROVE  LET t == tasks[n][i] IN
         /\ TypeOK' /\ UNCHANGED client
         /\ t.at = "existing" /\ t.xact.kind = "surrogate" /\ t.xact.votes = <<>>
         /\ Becomes(n, i, "send", t.of, t.xact, t.chan)
         /\ net' = net \cup {Message("Vote", i, t.of, n, p, S(n)!RollbackReason(t.xact))
                               : p \in Others(n)}
         /\ S(n)!RollbackReason(t.xact) \in {None, Error}
  <1> DEFINE t == tasks[n][i]
             u == [t EXCEPT !.at = "send"]
             r == S(n)!RollbackReason(t.xact)
  <1>1. t \in Task(n) /\ t.xact \in S(n)!XactType /\ i \in Id
    BY TaskFacts
  <1>2. t.at = "existing" /\ t.xact.kind = "surrogate" /\ t.xact.votes = <<>>
    BY DEF SendVote, Initialized
  <1>3. u \in Task(n) /\ u.at = "send" /\ u.of = t.of /\ u.chan = t.chan /\ u.xact = t.xact
    BY <1>1 DEF Task
  <1>4. r \in {None, Error}
    BY <1>1 DEF S!RollbackReason, S!XactType, S!RollbackInfo
  <1> HIDE DEF r
  <1>5. /\ SetTask(n, i, u) /\ UNCHANGED client
        /\ net' = net \cup {Message("Vote", i, t.of, n, p, r) : p \in Others(n)}
    BY DEF SendVote, r
  <1> HIDE DEF u
  <1>6. Becomes(n, i, u.at, u.of, u.xact, u.chan) /\ TasksType'
    BY <1>3, <1>5, BecomesFacts
  <1>7. \A p \in Others(n) : Message("Vote", i, t.of, n, p, r) \in Msg
    BY <1>1, <1>4 DEF Message, Msg, Others
  <1>8. net' \subseteq Msg
    BY <1>5, <1>7 DEF TypeOK
  <1>9. RestType'
    BY <1>5, <1>8, TypeParts DEF SendVote, RestType
  <1>10. Becomes(n, i, "send", t.of, t.xact, t.chan)
    BY <1>3, <1>6
  <1>11. QED
    BY <1>2, <1>4, <1>5, <1>6, <1>9, <1>10, TypeParts DEF r

\* The calls have returned.
LEMMA SentFacts ==
  ASSUME TypeOK, NEW n \in Node, NEW i \in Ids(n), Sent(n, i)
  PROVE  LET t == tasks[n][i] IN
         /\ TypeOK' /\ UNCHANGED client /\ t.at = "send"
         /\ \/ Becomes(n, i, "recv", t.of, t.xact, t.chan)
            \/ /\ Becomes(n, i, "finish", t.of, t.xact, t.chan)
               /\ t.xact.status \in {"Committing", "Rollbacking"}
  <1> DEFINE t == tasks[n][i]
             a == IF t.xact.kind = "local" \/ Undecided(t.xact) THEN "recv" ELSE "finish"
             u == [t EXCEPT !.at = a]
  <1>1. t \in Task(n) /\ t.xact \in S(n)!XactType /\ i \in Id
    BY TaskFacts
  <1>2. a \in {"recv", "finish"}
        /\ (a = "finish" => t.xact.status \in {"Committing", "Rollbacking"})
    BY DEF Undecided
  <1>3. SetTask(n, i, u) /\ UNCHANGED client /\ t.at = "send"
    BY DEF Sent
  <1> HIDE DEF a
  <1>4. u \in Task(n) /\ u.at = a /\ u.of = t.of /\ u.chan = t.chan /\ u.xact = t.xact
    BY <1>1, <1>2 DEF Task
  <1> HIDE DEF u
  <1>5. Becomes(n, i, u.at, u.of, u.xact, u.chan) /\ TasksType'
    BY <1>3, <1>4, BecomesFacts
  <1>6. RestType'
    BY <1>3, TypeParts DEF Sent, RestType
  <1>7. Becomes(n, i, a, t.of, t.xact, t.chan)
    BY <1>4, <1>5
  <1>8. QED
    BY <1>2, <1>3, <1>5, <1>6, <1>7, TypeParts

\* A vote is kept or counted.
LEMMA HandleVoteFacts ==
  ASSUME TypeOK, NEW n \in Node, NEW i \in Ids(n), HandleVote(n, i)
  PROVE  LET t == tasks[n][i]
             v == S(n)!VoteOf(Head(t.chan).from, Head(t.chan).reason)
             y == IF t.xact.kind = "unknown" THEN S(n)!KeepVote(t.xact, v)
                                             ELSE S(n)!AddVote(t.xact, v) IN
         /\ TypeOK' /\ ClientQuiet
         /\ \/ Becomes(n, i, "recv", t.of, y, Tail(t.chan))
            \/ /\ Becomes(n, i, "finish", t.of, y, Tail(t.chan))
               /\ y.status \in {"Committing", "Rollbacking"}
            \/ Becomes(n, i, "stopped", t.of, t.xact, <<>>)
  <1> DEFINE t == tasks[n][i]
             v == S(n)!VoteOf(Head(t.chan).from, Head(t.chan).reason)
             y == IF t.xact.kind = "unknown" THEN S(n)!KeepVote(t.xact, v)
                                             ELSE S(n)!AddVote(t.xact, v)
             a == IF Undecided(y) THEN "recv" ELSE "finish"
             u == [t EXCEPT !.at = IF Undecided(y) THEN "recv" ELSE "finish",
                            !.xact = y, !.chan = Tail(@)]
  <1>1. /\ t \in Task(n) /\ t.xact \in S(n)!XactType /\ i \in Id
        /\ Head(t.chan) \in Msg /\ Tail(t.chan) \in Seq(Msg)
    BY TaskFacts, ReceivesFacts DEF HandleVote
  <1>2. v \in S(n)!Vote
    BY <1>1, VoteOfType DEF Msg
  <1> HIDE DEF v
  <1>3. y \in S(n)!XactType
    BY <1>1, <1>2, KeepFacts, AddVoteFacts
  <1>4. CASE S(n)!MayAddVote(t.xact)
    <2>1. a \in {"recv", "finish"}
          /\ (a = "finish" => y.status \in {"Committing", "Rollbacking"})
      BY DEF Undecided
    <2>2. SetTask(n, i, u) /\ UNCHANGED client
      BY <1>4 DEF HandleVote, v
    <2>3. u = [t EXCEPT !.at = a, !.xact = y, !.chan = Tail(@)]
      OBVIOUS
    <2> HIDE DEF y, u, a
    <2>4. u \in Task(n) /\ u.at = a /\ u.of = t.of /\ u.chan = Tail(t.chan) /\ u.xact = y
      BY <1>1, <1>3, <2>1, <2>3 DEF Task
    <2>5. Becomes(n, i, u.at, u.of, u.xact, u.chan) /\ TasksType'
      BY <2>2, <2>4, BecomesFacts
    <2>6. RestType' /\ ClientQuiet
      BY <2>2, SameClient, TypeParts DEF HandleVote, RestType
    <2>7. Becomes(n, i, a, t.of, y, Tail(t.chan))
      BY <2>4, <2>5
    <2>8. QED
      BY <2>1, <2>5, <2>6, <2>7, TypeParts DEF y, v
  <1>5. CASE ~S(n)!MayAddVote(t.xact)
    <2>1. Abandon(n, i)
      BY <1>5 DEF HandleVote
    <2>2. Becomes(n, i, "stopped", t.of, t.xact, <<>>) /\ TasksType' /\ ClientQuiet
      BY <2>1, AbandonFacts
    <2>3. RestType'
      BY <2>2, TypeParts DEF HandleVote, RestType, ClientQuiet
    <2>4. QED
      BY <2>2, <2>3, TypeParts
  <1>6. QED
    BY <1>4, <1>5

\* The client is told the decision.
LEMMA FinishLocalFacts ==
  ASSUME TypeOK, NEW n \in Node, NEW i \in Ids(n), FinishLocal(n, i), tasks[n][i].of \in Xact
  PROVE  LET t == tasks[n][i] IN
         /\ TypeOK' /\ t.at = "finish" /\ t.xact.kind = "local"
         /\ Becomes(n, i, "stopped", t.of, S(n)!Finished(t.xact), <<>>)
         /\ \A x \in Xact : \/ client'[x] = client[x]
                            \/ x = t.of /\ client[x] = "waiting" /\ client'[x] = Decision(t)
  <1> DEFINE t == tasks[n][i]
             y == S(n)!Finished(t.xact)
             w == [t EXCEPT !.xact = S(n)!Finished(@)]
             u == Stopped(w)
  <1>1. t \in Task(n) /\ t.xact \in S(n)!XactType
    BY TaskFacts
  <1>2. y \in S(n)!XactType
    BY <1>1, FinishedFacts
  <1>3. w \in Task(n) /\ w.of = t.of /\ w.xact = y
    BY <1>1, <1>2 DEF Task
  <1>4. /\ SetTask(n, i, u) /\ t.at = "finish" /\ t.xact.kind = "local"
        /\ client' = [client EXCEPT ![t.of] = IF @ = "waiting" THEN Decision(t) ELSE @]
    BY DEF FinishLocal
  <1> HIDE DEF w, y
  <1>5. u \in Task(n) /\ u.at = "stopped" /\ u.of = t.of /\ u.chan = <<>> /\ u.xact = y
    BY <1>3, StoppedFacts
  <1> HIDE DEF u
  <1>6. Becomes(n, i, u.at, u.of, u.xact, u.chan) /\ TasksType'
    BY <1>4, <1>5, BecomesFacts
  <1>7. Decision(t) \in {"committed", "aborted"}
    BY DEF Decision
  <1>8. client \in [Xact -> {"idle", "waiting", "committed", "aborted", "error"}]
    BY DEF TypeOK
  <1>9. /\ client' \in [Xact -> {"idle", "waiting", "committed", "aborted", "error"}]
        /\ \A x \in Xact : \/ client'[x] = client[x]
                           \/ x = t.of /\ client[x] = "waiting" /\ client'[x] = Decision(t)
    <2> DEFINE d == Decision(t)
    <2> HIDE DEF d
    <2>1. client' = [client EXCEPT ![t.of] = IF @ = "waiting" THEN d ELSE @]
          /\ d \in {"committed", "aborted"}
      BY <1>4, <1>7 DEF d
    <2>2. QED
      BY <1>8, <2>1 DEF d
  <1>10. RestType'
    BY <1>9, TypeParts DEF FinishLocal, RestType
  <1>11. Becomes(n, i, "stopped", t.of, y, <<>>)
    BY <1>5, <1>6
  <1>12. QED
    BY <1>4, <1>6, <1>9, <1>10, <1>11, TypeParts DEF y

\* What is prepared under the id ends, if anything is.
LEMMA FinishSurrogateFacts ==
  ASSUME TypeOK, NEW n \in Node, NEW i \in Ids(n), FinishSurrogate(n, i)
  PROVE  LET t == tasks[n][i] IN
         /\ TypeOK' /\ t.at = "finish"
         /\ \/ /\ Becomes(n, i, "stopped", t.of, S(n)!Finished(t.xact), <<>>)
               /\ i \in DOMAIN prepared[n]
               /\ outcome' = [outcome EXCEPT ![n][prepared[n][i]] = Decision(t)]
               /\ prepared' = [prepared EXCEPT ![n] = Without(@, i)]
            \/ /\ Becomes(n, i, "stopped", t.of, t.xact, <<>>)
               /\ UNCHANGED <<prepared, outcome>>
  <1> DEFINE t == tasks[n][i]
             y == S(n)!Finished(t.xact)
             w == [t EXCEPT !.xact = S(n)!Finished(@)]
             u == Stopped(w)
  <1>1. t \in Task(n) /\ t.xact \in S(n)!XactType
    BY TaskFacts
  <1>2. y \in S(n)!XactType
    BY <1>1, FinishedFacts
  <1>3. w \in Task(n) /\ w.of = t.of /\ w.xact = y
    BY <1>1, <1>2 DEF Task
  <1>4. t.at = "finish"
    BY DEF FinishSurrogate
  <1>5. CASE i \in DOMAIN prepared[n]
    <2>1. /\ SetTask(n, i, u)
          /\ outcome' = [outcome EXCEPT ![n][prepared[n][i]] = Decision(t)]
          /\ prepared' = [prepared EXCEPT ![n] = Without(@, i)]
      BY <1>5 DEF FinishSurrogate
    <2> HIDE DEF w, y
    <2>2. u \in Task(n) /\ u.at = "stopped" /\ u.of = t.of /\ u.chan = <<>> /\ u.xact = y
      BY <1>3, StoppedFacts
    <2> HIDE DEF u
    <2>3. Becomes(n, i, u.at, u.of, u.xact, u.chan) /\ TasksType'
      BY <2>1, <2>2, BecomesFacts
    <2>4. Decision(t) \in {"committed", "aborted"}
      BY DEF Decision
    <2>5. outcome' \in [Node -> [Xact -> {"none", "committed", "aborted"}]]
      <3> DEFINE d == Decision(t)
      <3> HIDE DEF d
      <3>1. d \in {"committed", "aborted"} /\ outcome' = [outcome EXCEPT ![n][prepared[n][i]] = d]
        BY <2>1, <2>4 DEF d
      <3>2. QED
        BY <3>1 DEF TypeOK
    <2>6. /\ DOMAIN prepared' = Node
          /\ \A p \in Node : /\ DOMAIN prepared'[p] \subseteq Id
                             /\ \A j \in DOMAIN prepared'[p] : prepared'[p][j] \in Xact
      BY <2>1 DEF TypeOK, Without
    <2>7. RestType'
      BY <2>5, <2>6, TypeParts DEF FinishSurrogate, RestType
    <2>8. Becomes(n, i, "stopped", t.of, y, <<>>)
      BY <2>2, <2>3
    <2>9. QED
      BY <1>4, <1>5, <2>1, <2>3, <2>7, <2>8, TypeParts DEF y
  <1>6. CASE i \notin DOMAIN prepared[n]
    <2> DEFINE v == Stopped(t)
    <2>1. SetTask(n, i, v) /\ UNCHANGED <<prepared, outcome>>
      BY <1>6 DEF FinishSurrogate
    <2>2. v \in Task(n) /\ v.at = "stopped" /\ v.of = t.of /\ v.chan = <<>> /\ v.xact = t.xact
      BY <1>1, StoppedFacts
    <2> HIDE DEF v
    <2>3. Becomes(n, i, v.at, v.of, v.xact, v.chan) /\ TasksType'
      BY <2>1, <2>2, BecomesFacts
    <2>4. RestType'
      BY <2>1, TypeParts DEF FinishSurrogate, RestType
    <2>5. QED
      BY <1>4, <2>1, <2>2, <2>3, <2>4, TypeParts
  <1>7. QED
    BY <1>5, <1>6

\* One failure more.
LEMMA FaultFacts ==
  ASSUME TypeOK, Fault
  PROVE  faults' \in 0..MaxFaults
  BY FaultsAssumption DEF TypeOK, Fault

\* A call fails.
LEMMA RpcErrorFacts ==
  ASSUME TypeOK, NEW n \in Node, NEW i \in Ids(n), RpcError(n, i)
  PROVE  LET t == tasks[n][i] IN
         /\ TypeOK' /\ ClientQuiet /\ net' \subseteq net
         /\ Becomes(n, i, "stopped", t.of, t.xact, <<>>)
  <1>1. Abandon(n, i) /\ net' \subseteq net /\ Fault
    BY DEF RpcError
  <1>2. /\ Becomes(n, i, "stopped", tasks[n][i].of, tasks[n][i].xact, <<>>)
        /\ TasksType' /\ ClientQuiet
    BY <1>1, AbandonFacts
  <1>3. RestType'
    BY <1>1, <1>2, FaultFacts, TypeParts DEF RpcError, RestType, ClientQuiet
  <1>4. QED
    BY <1>1, <1>2, <1>3, TypeParts

\* A server is restarted: all its tasks are as good as new.
LEMMA CrashRestartFacts ==
  ASSUME TypeOK, NEW n \in Node, CrashRestart(n)
  PROVE  /\ TypeOK' /\ ClientQuiet /\ net' \subseteq net
         /\ Ids(n)' = {} /\ \A p \in Node : p # n => Ids(p)' = Ids(p)
         /\ \A j \in Id : TaskAt(n, j)' = NewTask(n)
         /\ \A p \in Node, j \in Id : p # n => TaskAt(p, j)' = TaskAt(p, j)
  <1>1. /\ DOMAIN tasks' = Node /\ tasks'[n] = <<>>
        /\ \A p \in Node : p # n => tasks'[p] = tasks[p]
    BY DEF CrashRestart, TypeOK
  <1>2. DOMAIN <<>> = {}
    OBVIOUS
  <1>3. Ids(n)' = {} /\ \A p \in Node : p # n => Ids(p)' = Ids(p)
    BY <1>1, <1>2 DEF Ids
  <1>4. \A j \in Id : TaskAt(n, j)' = NewTask(n)
    BY <1>3 DEF TaskAt, NewTask
  <1>5. \A p \in Node, j \in Id : p # n => TaskAt(p, j)' = TaskAt(p, j)
    BY <1>1, <1>3 DEF TaskAt, NewTask
  <1>6. TasksType'
    <2>1. ASSUME NEW p \in Node, NEW j \in Ids(p)'
          PROVE  j \in Id /\ tasks'[p][j] \in Task(p)
      BY <1>1, <1>3 DEF TypeOK
    <2>2. QED
      BY <1>1, <2>1 DEF TasksType, Task
  <1>7. ClientQuiet /\ net' \subseteq net
    BY DroppedFacts DEF CrashRestart
  <1>8. counter' \in [Node -> Nat]
    BY DEF CrashRestart, TypeOK
  <1>9. restarted' \subseteq Node
    BY DEF CrashRestart, TypeOK
  <1>10. faults' \in 0..MaxFaults
    BY FaultFacts DEF CrashRestart
  <1>11. RestType'
    BY <1>7, <1>8, <1>9, <1>10, TypeParts DEF CrashRestart, RestType, ClientQuiet
  <1>12. QED
    BY <1>3, <1>4, <1>5, <1>6, <1>7, <1>11, TypeParts

\* Node n gets message m: its task is as before, with one more message or stopped.
Gets(n, m) ==
  /\ \A p \in Node : Ids(p)' = IF p = n THEN Ids(n) \cup {m.id} ELSE Ids(p)
  /\ \A p \in Node, j \in Id : p # n \/ j # m.id => TaskAt(p, j)' = TaskAt(p, j)
  /\ TaskAt(n, m.id)' \in Task(n)
  /\ TaskAt(n, m.id)'.at = TaskAt(n, m.id).at /\ TaskAt(n, m.id)'.of = TaskAt(n, m.id).of
  /\ TaskAt(n, m.id)'.xact = TaskAt(n, m.id).xact
  /\ TaskAt(n, m.id)'.chan \in {TaskAt(n, m.id).chan, Append(TaskAt(n, m.id).chan, m)}

\* process_message gives the message to the task of its id and to no other.
LEMMA DispatchFacts ==
  ASSUME TypeOK, NEW n \in Node, NEW m \in Msg, Dispatch(n, m)
  PROVE  Gets(n, m) /\ TasksType'
  <1> DEFINE t == TaskAt(n, m.id)
             u == IF t.at = "stopped" THEN t ELSE [t EXCEPT !.chan = Append(@, m)]
  <1>1. m.id \in Id
    BY DEF Msg
  <1>2. t \in Task(n) /\ t.chan \in Seq(Msg)
    BY <1>1, TaskAtType
  <1>3. Append(t.chan, m) \in Seq(Msg)
    BY <1>2
  <1>4. SetTask(n, m.id, u)
    BY DEF Dispatch, TaskAt
  <1> HIDE DEF t
  <1>5. /\ u \in Task(n) /\ u.at = t.at /\ u.of = t.of /\ u.xact = t.xact
        /\ u.chan \in {t.chan, Append(t.chan, m)}
    <2>1. CASE t.at = "stopped"
      BY <1>2, <2>1
    <2>2. CASE t.at # "stopped"
      <3>1. \A c \in Seq(Msg) : LET v == [t EXCEPT !.chan = c] IN
              v \in Task(n) /\ v.at = t.at /\ v.of = t.of /\ v.xact = t.xact /\ v.chan = c
        BY <1>2 DEF Task
      <3>2. u = [t EXCEPT !.chan = Append(t.chan, m)]
        BY <2>2
      <3>3. QED
        BY <1>3, <3>1, <3>2
    <2>3. QED
      BY <2>1, <2>2
  <1> HIDE DEF u
  <1>6. /\ Touches(n, m.id, u) /\ TasksType'
        /\ \A p \in Node : Ids(p)' = IF p = n THEN Ids(n) \cup {m.id} ELSE Ids(p)
    BY <1>1, <1>4, <1>5, SetTaskFacts
  <1>7. QED
    BY <1>5, <1>6 DEF Gets, Touches, t

\* A call reaches its server.
LEMMA DeliverFacts ==
  ASSUME TypeOK, NEW m \in net, Deliver(m)
  PROVE  TypeOK' /\ Gets(m.to, m) /\ m \in Msg /\ m.to \in Node /\ m.id \in Id
  <1>1. m \in Msg /\ m.to \in Node /\ m.id \in Id
    BY DEF TypeOK, Msg
  <1>2. Gets(m.to, m) /\ TasksType'
    BY <1>1, DispatchFacts DEF Deliver
  <1>3. RestType'
    BY TypeParts DEF Deliver, RestType
  <1>4. QED
    BY <1>1, <1>2, <1>3, TypeParts

\* A transaction x is numbered: its id is i, and m its LocalXact message.
Numbers(n, x, i, m) ==
  /\ i = <<counter[n] + 1, n>> /\ i \in Id /\ i[1] = counter[n] + 1 /\ i[2] = n /\ i # None
  /\ m \in Msg /\ m.type = "LocalXact" /\ m.id = i /\ m.of = x /\ m.from = n /\ m.to = n
  /\ Gets(n, m)
  /\ counter' = [counter EXCEPT ![n] = @ + 1] /\ idOf' = [idOf EXCEPT ![x] = i]
  /\ client[x] = "idle" /\ client'[x] \in {"waiting", "error"}
  /\ \A y \in Xact : y # x => client'[y] = client[y]
  /\ UNCHANGED <<net, prepared, executed, outcome, restarted>>

\* A submitted transaction is numbered with the next value of the counter.
LEMMA SubmitFacts ==
  ASSUME TypeOK, NEW n \in Node, NEW x \in Xact, Submit(n, x)
  PROVE  TypeOK' /\ \E i \in Id : \E m \in Msg : Numbers(n, x, i, m)
  <1>1. /\ counter[n] + 1 \in Nat /\ <<counter[n] + 1, n>> \in Id
        /\ <<counter[n] + 1, n>>[1] = counter[n] + 1 /\ <<counter[n] + 1, n>>[2] = n
    BY DEF TypeOK, Id
  <1>2. PICK i \in Id : i = <<counter[n] + 1, n>> /\ i[1] = counter[n] + 1 /\ i[2] = n
    BY <1>1
  <1>3. Message("LocalXact", i, x, n, n, None) \in Msg
    BY DEF Message, Msg
  <1>4. PICK m \in Msg : m = Message("LocalXact", i, x, n, n, None)
    BY <1>3
  <1>5. m.type = "LocalXact" /\ m.id = i /\ m.of = x /\ m.from = n /\ m.to = n
    BY <1>4 DEF Message
  <1>6. /\ client[x] = "idle"
        /\ counter' = [counter EXCEPT ![n] = @ + 1] /\ idOf' = [idOf EXCEPT ![x] = i]
        /\ Dispatch(n, m)
        /\ \E c \in {"waiting", "error"} : client' = [client EXCEPT ![x] = c]
    <2>1. XactId(counter[n] + 1, n) = i
      BY <1>2 DEF XactId
    <2>2. QED
      BY <1>4, <2>1 DEF Submit
  <1>7. Gets(n, m) /\ TasksType'
    BY <1>6, DispatchFacts
  <1>8. /\ client' \in [Xact -> {"idle", "waiting", "committed", "aborted", "error"}]
        /\ client'[x] \in {"waiting", "error"}
        /\ \A y \in Xact : y # x => client'[y] = client[y]
    BY <1>6 DEF TypeOK
  <1>9. counter' \in [Node -> Nat] /\ idOf' \in [Xact -> Id \cup {None}]
    BY <1>1, <1>2, <1>6 DEF TypeOK
  <1>10. RestType'
    BY <1>8, <1>9, TypeParts DEF Submit, RestType
  <1>11. Numbers(n, x, i, m)
    BY <1>2, <1>5, <1>6, <1>7, <1>8, NoneFacts DEF Numbers, Submit
  <1>12. QED
    BY <1>7, <1>10, <1>11, TypeParts

----------------------------------------------------------------------------
(* Messages.                                                               *)

\* What is in a channel is around.
LEMMA InChanAround ==
  ASSUME TypeOK, GoodMsgs, NEW n \in Node, NEW i \in Id, NEW k \in 1..Len(TaskAt(n, i).chan)
  PROVE  LET m == TaskAt(n, i).chan[k] IN
         m \in Msg /\ Around(m) /\ GoodMsg(m) /\ m.to = n /\ m.id = i
  <1>1. TaskAt(n, i).chan \in Seq(Msg)
    BY TaskAtType
  <1>2. TaskAt(n, i).chan[k] \in Msg
    BY <1>1
  <1>3. LET m == TaskAt(n, i).chan[k] IN GoodMsg(m) /\ m.to = n /\ m.id = i
    BY DEF GoodMsgs
  <1>4. QED
    BY <1>2, <1>3 DEF Around, InChan

\* A message that is around is well-formed.
LEMMA AroundGood ==
  ASSUME TypeOK, GoodMsgs, NEW m \in Msg, Around(m)
  PROVE  GoodMsg(m) /\ m.to \in Node /\ m.id \in Id /\ m.from \in Node /\ m.of \in Submitted
  <1>1. m.to \in Node /\ m.id \in Id /\ m.from \in Node /\ m.of \in Xact
    BY DEF Msg
  <1>2. GoodMsg(m)
    BY <1>1 DEF GoodMsgs, Around, InChan
  <1>3. QED
    BY <1>1, <1>2, NoneFacts DEF GoodMsg, Submitted

\* A task's step that sends nothing.
LEMMA BecomesFewer ==
  ASSUME TypeOK, GoodMsgs, NoTwins, net' \subseteq net, idOf' = idOf,
         NEW n \in Node, NEW i \in Id, NEW a, NEW o, NEW y, NEW c,
         Becomes(n, i, a, o, y, c), Shorter(c, TaskAt(n, i).chan)
  PROVE  GoodMsgs' /\ NoTwins' /\ NoNew
  <1>1. \A p \in Node, j \in Id : Shorter(TaskAt(p, j)'.chan, TaskAt(p, j).chan)
    <2>1. SUFFICES ASSUME NEW p \in Node, NEW j \in Id
                   PROVE  Shorter(TaskAt(p, j)'.chan, TaskAt(p, j).chan)
      OBVIOUS
    <2>2. CASE p = n /\ j = i
      BY <2>2 DEF Becomes
    <2>3. CASE p # n \/ j # i
      BY <2>3 DEF Becomes, Shorter
    <2>4. QED
      BY <2>2, <2>3
  <1>2. QED
    BY <1>1, FewerMsgs

\* A restart sends nothing.
LEMMA CrashRestartFewer ==
  ASSUME TypeOK, GoodMsgs, NoTwins, NEW n \in Node, CrashRestart(n)
  PROVE  GoodMsgs' /\ NoTwins' /\ NoNew
  <1>1. \A p \in Node, j \in Id : Shorter(TaskAt(p, j)'.chan, TaskAt(p, j).chan)
    BY CrashRestartFacts DEF Shorter, NewTask
  <1>2. net' \subseteq net /\ idOf' = idOf
    BY DEF CrashRestart
  <1>3. QED
    BY <1>1, <1>2, FewerMsgs

\* What a channel holds after a message was put in.
LEMMA AppendFacts ==
  ASSUME NEW s \in Seq(Msg), NEW m \in Msg, NEW r \in {s, Append(s, m)}
  PROVE  /\ \A k \in 1..Len(r) : r[k] = m \/ \E j \in 1..Len(s) : r[k] = s[j]
         /\ Distinct(s) /\ (\A j \in 1..Len(s) : ~SameCall(m, s[j])) => Distinct(r)
  <1>1. CASE r = s
    BY <1>1
  <1>2. CASE r = Append(s, m)
    <2>1. /\ Len(s) \in Nat /\ Len(r) = Len(s) + 1 /\ r[Len(s) + 1] = m
          /\ \A k \in 1..Len(s) : r[k] = s[k]
      BY <1>2
    <2>2. \A k \in 1..Len(r) : k \in 1..Len(s) \/ k = Len(s) + 1
      BY <2>1
    <2>3. ASSUME Distinct(s), \A j \in 1..Len(s) : ~SameCall(m, s[j]),
                 NEW j \in 1..Len(r), NEW k \in 1..Len(r), SameCall(r[j], r[k])
          PROVE  j = k
      BY <2>1, <2>2, <2>3 DEF Distinct, SameCall
    <2>4. Distinct(s) /\ (\A j \in 1..Len(s) : ~SameCall(m, s[j])) => Distinct(r)
      BY <2>3 DEF Distinct
    <2>5. QED
      BY <2>1, <2>2, <2>4
  <1>3. QED
    BY <1>1, <1>2

\* A message that was on its way is in a channel, or dropped.
LEMMA DeliverMsgs ==
  ASSUME TypeOK, GoodMsgs, NoTwins, NEW m \in net, Deliver(m)
  PROVE  GoodMsgs' /\ NoTwins' /\ NoNew
  <1>0. Gets(m.to, m) /\ m \in Msg /\ m.to \in Node /\ m.id \in Id
    BY DeliverFacts
  <1>1. net' = net \ {m} /\ idOf' = idOf /\ Around(m) /\ GoodMsg(m)
    BY DEF Deliver, Around, GoodMsgs
  <1>2. ASSUME NEW p \in Node, NEW j \in Id
        PROVE  /\ TaskAt(p, j).chan \in Seq(Msg)
               /\ \/ TaskAt(p, j)'.chan = TaskAt(p, j).chan
                  \/ /\ p = m.to /\ j = m.id
                     /\ TaskAt(p, j)'.chan \in {TaskAt(p, j).chan, Append(TaskAt(p, j).chan, m)}
    BY <1>0, TaskAtType DEF Gets
  <1>3. ASSUME NEW p \in Node, NEW j \in Id
        PROVE  /\ \A k \in 1..Len(TaskAt(p, j)'.chan) :
                    \/ TaskAt(p, j)'.chan[k] = m /\ p = m.to /\ j = m.id
                    \/ \E l \in 1..Len(TaskAt(p, j).chan) : TaskAt(p, j)'.chan[k] = TaskAt(p, j).chan[l]
               /\ Distinct(TaskAt(p, j)'.chan)
    <2>1. CASE TaskAt(p, j)'.chan = TaskAt(p, j).chan
      BY <2>1 DEF NoTwins
    <2>2. CASE /\ p = m.to /\ j = m.id
               /\ TaskAt(p, j)'.chan \in {TaskAt(p, j).chan, Append(TaskAt(p, j).chan, m)}
      <3>1. Distinct(TaskAt(p, j).chan)
            /\ \A k \in 1..Len(TaskAt(p, j).chan) : ~SameCall(m, TaskAt(p, j).chan[k])
        BY <2>2 DEF NoTwins
      <3>2. TaskAt(p, j).chan \in Seq(Msg)
        BY <1>2
      <3> DEFINE s == TaskAt(p, j).chan
                 r == TaskAt(p, j)'.chan
      <3>3. s \in Seq(Msg) /\ r \in {s, Append(s, m)}
        BY <2>2, <3>2
      <3>4. Distinct(s) /\ \A k \in 1..Len(s) : ~SameCall(m, s[k])
        BY <3>1
      <3> HIDE DEF s, r
      <3>5. (\A k \in 1..Len(r) : r[k] = m \/ \E l \in 1..Len(s) : r[k] = s[l]) /\ Distinct(r)
        BY <1>0, <3>3, <3>4, AppendFacts
      <3>6. QED
        BY <2>2, <3>5 DEF s, r
    <2>3. QED
      BY <1>2, <2>1, <2>2
  <1>4. NoNew
    <2>1. ASSUME NEW a \in Msg, Around(a)' PROVE Around(a)
      <3>1. a.to \in Node /\ a.id \in Id
        BY DEF Msg
      <3>2. QED
        BY <1>1, <1>3, <2>1, <3>1 DEF Around, InChan
    <2>2. QED
      BY <2>1 DEF NoNew
  <1>5. GoodMsgs'
    <2>1. \A a \in net' : GoodMsg(a) /\ a.type # "LocalXact"
      BY <1>1 DEF GoodMsgs
    <2>2. ASSUME NEW p \in Node, NEW j \in Id, NEW k \in 1..Len(TaskAt(p, j)'.chan)
          PROVE  LET a == TaskAt(p, j)'.chan[k] IN GoodMsg(a) /\ a.to = p /\ a.id = j
      BY <1>1, <1>3, <2>2 DEF GoodMsgs
    <2>3. QED
      BY <1>1, <2>1, <2>2 DEF GoodMsgs, GoodMsg
  <1>6. NoTwins'
    <2>1. ASSUME NEW a \in net', NEW k \in 1..Len(TaskAt(a.to, a.id)'.chan),
                 SameCall(a, TaskAt(a.to, a.id)'.chan[k])
          PROVE  FALSE
      <3>1. a \in net /\ a # m /\ a.to \in Node /\ a.id \in Id
        BY <1>1 DEF TypeOK, Msg
      <3>2. ~ \E l \in 1..Len(TaskAt(a.to, a.id).chan) :
                TaskAt(a.to, a.id)'.chan[k] = TaskAt(a.to, a.id).chan[l]
        BY <2>1, <3>1 DEF NoTwins
      <3>3. TaskAt(a.to, a.id)'.chan[k] = m /\ a.to = m.to
        BY <1>3, <2>1, <3>1, <3>2
      <3>4. QED
        BY <2>1, <3>1, <3>3 DEF NoTwins
    <2>2. \A a, b \in net' : SameCall(a, b) /\ a.to = b.to => a = b
      BY <1>1 DEF NoTwins
    <2>3. QED
      BY <1>3, <2>1, <2>2 DEF NoTwins, Distinct, SameCall
  <1>7. QED
    BY <1>4, <1>5, <1>6

\* A transaction that is submitted was unknown, and the others keep their ids.
LEMMA SubmitIds ==
  ASSUME TypeOK, IdleIsUnknown, NEW n \in Node, NEW x \in Xact, NEW i \in Id, NEW m \in Msg,
         Numbers(n, x, i, m)
  PROVE  /\ x \notin Submitted /\ idOf[x] = None /\ idOf'[x] = i
         /\ \A y \in Xact : y # x => idOf'[y] = idOf[y]
         /\ Submitted' = Submitted \cup {x}
         /\ \A y \in Submitted : y # x /\ idOf'[y] = idOf[y] /\ Home(y)' = Home(y)
         /\ Home(x)' = n
  <1>1. client[x] = "idle" /\ idOf' = [idOf EXCEPT ![x] = i] /\ i # None /\ i[2] = n
    BY DEF Numbers
  <1>2. x \notin Submitted
    BY <1>1 DEF IdleIsUnknown
  <1>3. idOf \in [Xact -> Id \cup {None}]
    BY DEF TypeOK
  <1>4. idOf'[x] = i /\ idOf[x] = None
        /\ \A y \in Xact : y # x => idOf'[y] = idOf[y]
    BY <1>1, <1>2, <1>3 DEF Submitted
  <1>5. Submitted' = Submitted \cup {x}
    BY <1>1, <1>4 DEF Submitted
  <1>6. \A y \in Submitted : y # x /\ idOf'[y] = idOf[y] /\ Home(y)' = Home(y)
    BY <1>2, <1>4 DEF Submitted, Home
  <1>7. QED
    BY <1>1, <1>2, <1>4, <1>5, <1>6 DEF Home

\* Its LocalXact message is the only new one.
LEMMA SubmitMsgs ==
  ASSUME TypeOK, IdleIsUnknown, GoodMsgs, NoTwins, NEW n \in Node, NEW x \in Xact,
         NEW i \in Id, NEW m \in Msg, Numbers(n, x, i, m)
  PROVE  /\ GoodMsgs' /\ NoTwins'
         /\ \A a \in Msg : Around(a)' => Around(a) \/ a = m
  <1>0. /\ m \in Msg /\ m.type = "LocalXact" /\ m.id = i /\ m.of = x /\ m.from = n /\ m.to = n
        /\ i \in Id /\ i[2] = n /\ Gets(n, m)
    BY DEF Numbers
  <1>1. /\ x \notin Submitted /\ idOf'[x] = i /\ \A y \in Submitted : idOf'[y] = idOf[y]
        /\ net' = net
    <2>1. net' = net
      BY DEF Numbers
    <2>2. QED
      BY <2>1, SubmitIds
  <1>2. ASSUME NEW p \in Node, NEW j \in Id
        PROVE  /\ TaskAt(p, j).chan \in Seq(Msg)
               /\ \/ TaskAt(p, j)'.chan = TaskAt(p, j).chan
                  \/ /\ p = n /\ j = i
                     /\ TaskAt(p, j)'.chan \in {TaskAt(p, j).chan, Append(TaskAt(p, j).chan, m)}
    BY <1>0, TaskAtType DEF Gets
  <1>3. ASSUME NEW p \in Node, NEW j \in Id
        PROVE  /\ \A k \in 1..Len(TaskAt(p, j)'.chan) :
                    \/ TaskAt(p, j)'.chan[k] = m /\ p = n /\ j = i
                    \/ \E l \in 1..Len(TaskAt(p, j).chan) : TaskAt(p, j)'.chan[k] = TaskAt(p, j).chan[l]
               /\ Distinct(TaskAt(p, j)'.chan)
    <2>1. CASE TaskAt(p, j)'.chan = TaskAt(p, j).chan
      BY <2>1 DEF NoTwins
    <2>2. CASE /\ p = n /\ j = i
               /\ TaskAt(p, j)'.chan \in {TaskAt(p, j).chan, Append(TaskAt(p, j).chan, m)}
      <3> DEFINE s == TaskAt(p, j).chan
                 r == TaskAt(p, j)'.chan
      <3>1. s \in Seq(Msg) /\ r \in {s, Append(s, m)} /\ Distinct(s)
        BY <1>2, <2>2 DEF NoTwins
      <3>2. \A k \in 1..Len(s) : ~SameCall(m, s[k])
        <4>1. \A k \in 1..Len(s) : s[k].of \in Submitted
          BY InChanAround, AroundGood
        <4>2. QED
          BY <1>0, <1>1, <4>1 DEF SameCall
      <3> HIDE DEF s, r
      <3>3. (\A k \in 1..Len(r) : r[k] = m \/ \E l \in 1..Len(s) : r[k] = s[l]) /\ Distinct(r)
        BY <1>0, <3>1, <3>2, AppendFacts
      <3>4. QED
        BY <2>2, <3>3 DEF s, r
    <2>3. QED
      BY <1>2, <2>1, <2>2
  <1>4. \A a \in Msg : Around(a)' => Around(a) \/ a = m
    <2>1. ASSUME NEW a \in Msg, Around(a)' PROVE Around(a) \/ a = m
      <3>1. a.to \in Node /\ a.id \in Id
        BY DEF Msg
      <3>2. CASE a \in net'
        BY <1>1, <3>2 DEF Around
      <3>3. CASE InChan(a, a.to, a.id)'
        <4>1. PICK k \in 1..Len(TaskAt(a.to, a.id)'.chan) : TaskAt(a.to, a.id)'.chan[k] = a
          BY <3>3 DEF InChan
        <4>2. a = m \/ \E l \in 1..Len(TaskAt(a.to, a.id).chan) : a = TaskAt(a.to, a.id).chan[l]
          BY <1>3, <3>1, <4>1
        <4>3. QED
          BY <4>2 DEF Around, InChan
      <3>4. QED
        BY <2>1, <3>2, <3>3 DEF Around
    <2>2. QED
      BY <2>1
  <1>5. GoodMsgs'
    <2>0. \A a \in Msg : GoodMsg(a) /\ Around(a) => GoodMsg(a)'
      BY <1>1, AroundGood DEF GoodMsg
    <2>1. \A a \in net' : GoodMsg(a)' /\ a.type # "LocalXact"
      BY <1>1, <2>0 DEF GoodMsgs, TypeOK, Around
    <2>2. GoodMsg(m)'
      <3>1. idOf'[m.of] = m.id
        BY <1>0, <1>1
      <3>2. QED
        BY <1>0, <3>1 DEF GoodMsg
    <2>3. ASSUME NEW p \in Node, NEW j \in Id
          PROVE  \A k \in 1..Len(TaskAt(p, j)'.chan) :
                   \E a \in Msg : /\ a = TaskAt(p, j)'.chan[k]
                                  /\ GoodMsg(a)' /\ a.to = p /\ a.id = j
      <3>1. \A k \in 1..Len(TaskAt(p, j).chan) :
              \E a \in Msg : a = TaskAt(p, j).chan[k] /\ GoodMsg(a)' /\ a.to = p /\ a.id = j
        BY <2>0, InChanAround
      <3>2. QED
        BY <1>0, <1>3, <2>2, <3>1
    <2>4. QED
      BY <2>1, <2>3 DEF GoodMsgs, GoodMsg
  <1>6. NoTwins'
    <2>1. ASSUME NEW a \in net', NEW k \in 1..Len(TaskAt(a.to, a.id)'.chan),
                 SameCall(a, TaskAt(a.to, a.id)'.chan[k])
          PROVE  FALSE
      <3>1. a \in net /\ a.to \in Node /\ a.id \in Id /\ a.type # "LocalXact"
        BY <1>1 DEF TypeOK, Msg, GoodMsgs
      <3>2. ~ \E l \in 1..Len(TaskAt(a.to, a.id).chan) :
                TaskAt(a.to, a.id)'.chan[k] = TaskAt(a.to, a.id).chan[l]
        BY <2>1, <3>1 DEF NoTwins
      <3>3. TaskAt(a.to, a.id)'.chan[k] = m
        BY <1>3, <2>1, <3>1, <3>2
      <3>4. QED
        BY <1>0, <2>1, <3>1, <3>3 DEF SameCall
    <2>2. \A a, b \in net' : SameCall(a, b) /\ a.to = b.to => a = b
      BY <1>1 DEF NoTwins
    <2>3. QED
      BY <1>3, <2>1, <2>2 DEF NoTwins, Distinct, SameCall
  <1>7. QED
    BY <1>4, <1>5, <1>6

\* The calls of one task: no call of the same type was around.
LEMMA SendMsgs ==
  ASSUME TypeOK, GoodMsgs, NoTwins, idOf' = idOf,
         NEW n \in Node, NEW i \in Id, NEW x \in Xact, NEW type \in {"Prepare", "Vote"},
         NEW r \in {None, Error},
         net' = net \cup {Message(type, i, x, n, p, r) : p \in Others(n)},
         \A p \in Node, j \in Id : TaskAt(p, j)'.chan = TaskAt(p, j).chan,
         \A p \in Others(n) : GoodMsg(Message(type, i, x, n, p, r)),
         \A m \in Msg : Around(m) /\ m.of = x /\ m.from = n => m.type # type
  PROVE  /\ GoodMsgs' /\ NoTwins'
         /\ \A m \in Msg : Around(m)' =>
              \/ Around(m)
              \/ /\ m.type = type /\ m.id = i /\ m.of = x /\ m.from = n /\ m.reason = r
                 /\ m.to # n
  <1>1. \A p \in Others(n) : LET m == Message(type, i, x, n, p, r) IN
          /\ m \in Msg /\ m.type = type /\ m.id = i /\ m.of = x /\ m.from = n /\ m.reason = r
          /\ m.to = p /\ p # n /\ p \in Node
    BY DEF Message, Msg, Others
  <1>2. ASSUME NEW m \in net', m \notin net
        PROVE  /\ m \in Msg /\ m.type = type /\ m.id = i /\ m.of = x /\ m.from = n /\ m.reason = r
               /\ m.to # n /\ m.to \in Node /\ GoodMsg(m) /\ m = Message(type, i, x, n, m.to, r)
    BY <1>1, <1>2
  <1>3. ASSUME NEW m \in Msg, Around(m)'
        PROVE  \/ Around(m)
               \/ /\ m.type = type /\ m.id = i /\ m.of = x /\ m.from = n /\ m.reason = r
                  /\ m.to # n
    <2>1. m.to \in Node /\ m.id \in Id
      BY DEF Msg
    <2>2. CASE m \in net' /\ m \notin net
      BY <1>2, <2>2
    <2>3. CASE m \in net \/ m \notin net'
      BY <1>3, <2>1, <2>3 DEF Around, InChan
    <2>4. QED
      BY <2>2, <2>3
  <1>4. GoodMsgs'
    <2>1. \A m \in net' : GoodMsg(m) /\ m.type # "LocalXact"
      BY <1>2 DEF GoodMsgs
    <2>2. QED
      BY <2>1 DEF GoodMsgs, GoodMsg
  <1>5. NoTwins'
    <2>1. ASSUME NEW a \in net', NEW k \in 1..Len(TaskAt(a.to, a.id)'.chan)
          PROVE  ~SameCall(a, TaskAt(a.to, a.id)'.chan[k])
      <3>1. CASE a \in net
        <4>1. a.to \in Node /\ a.id \in Id
          BY <3>1 DEF TypeOK, Msg
        <4>2. QED
          BY <2>1, <3>1, <4>1 DEF NoTwins
      <3>2. CASE a \notin net
        <4>1. a.to \in Node /\ a.id \in Id /\ a.type = type /\ a.of = x /\ a.from = n
          BY <1>2, <3>2 DEF Msg
        <4>2. k \in 1..Len(TaskAt(a.to, a.id).chan)
          BY <2>1, <4>1
        <4>3. TaskAt(a.to, a.id).chan[k] \in Msg /\ Around(TaskAt(a.to, a.id).chan[k])
          BY <4>1, <4>2, InChanAround
        <4>4. QED
          BY <4>1, <4>3 DEF SameCall
      <3>3. QED
        BY <3>1, <3>2
    <2>2. ASSUME NEW a \in net', NEW b \in net', SameCall(a, b), a.to = b.to
          PROVE  a = b
      <3>1. CASE a \in net /\ b \in net
        BY <2>2, <3>1 DEF NoTwins
      <3>2. CASE a \notin net /\ b \notin net
        BY <1>2, <2>2, <3>2
      <3>3. CASE a \in net /\ b \notin net
        <4>1. a \in Msg /\ Around(a)
          BY <3>3 DEF TypeOK, Around
        <4>2. QED
          BY <1>2, <2>2, <3>3, <4>1 DEF SameCall
      <3>4. CASE a \notin net /\ b \in net
        <4>1. b \in Msg /\ Around(b)
          BY <3>4 DEF TypeOK, Around
        <4>2. QED
          BY <1>2, <2>2, <3>4, <4>1 DEF SameCall
      <3>5. QED
        BY <3>1, <3>2, <3>3, <3>4
    <2>3. \A p \in Node, j \in Id : Distinct(TaskAt(p, j)'.chan)
      BY DEF NoTwins
    <2>4. QED
      BY <2>1, <2>2, <2>3 DEF NoTwins, Distinct, SameCall
  <1>6. QED
    BY <1>3, <1>4, <1>5

----------------------------------------------------------------------------
(* Tasks.                                                                  *)

\* It is enough to look at the task that a step changes.
LEMMA BecomesGood ==
  ASSUME TypeOK, GoodTasks, NEW n \in Node, NEW i \in Id, NEW a, NEW o, NEW y, NEW c,
         Becomes(n, i, a, o, y, c), idOf' = idOf, GoodTask(n, i, TaskAt(n, i)')
  PROVE  GoodTasks'
  <1>1. Submitted' = Submitted
    BY DEF Submitted
  <1>2. \A p \in Node : \A j \in Ids(p)' : \E x \in Submitted' : idOf'[x] = j
    BY <1>1 DEF GoodTasks, Becomes
  <1>3. ASSUME NEW p \in Node, NEW j \in Id
        PROVE  GoodTask(p, j, TaskAt(p, j)')
    <2>1. CASE p = n /\ j = i
      BY <2>1
    <2>2. CASE p # n \/ j # i
      BY <2>2 DEF Becomes, GoodTasks
    <2>3. QED
      BY <2>1, <2>2
  <1>4. QED
    BY <1>1, <1>2, <1>3 DEF GoodTasks, GoodTask, GoodXact

\* A task whose loop ends.
LEMMA StopGood ==
  ASSUME NEW n, NEW i, NEW t, NEW u, GoodTask(n, i, t),
         u.at \in {"stopped", "send", "recv"}, u.of = t.of, u.xact = t.xact,
         t.xact.kind # "unknown" \/ u.at # "send"
  PROVE  GoodTask(n, i, u)
  BY DEF GoodTask, GoodXact

\* Each operation leaves its task well-formed.
LEMMA HandleLocalXactGood ==
  ASSUME TypeOK, GoodMsgs, GoodTasks, NEW n \in Node, NEW i \in Ids(n), HandleLocalXact(n, i)
  PROVE  GoodTasks'
  <1> DEFINE t == TaskAt(n, i)
             m == Head(t.chan)
             u == TaskAt(n, i)'
  <1>1. t = tasks[n][i] /\ i \in Id /\ t.xact \in S(n)!XactType /\ idOf' = idOf
    BY TaskFacts DEF HandleLocalXact
  <1>2. GoodTask(n, i, t)
    BY <1>1 DEF GoodTasks
  <1>3. 1 \in 1..Len(t.chan) /\ m = t.chan[1] /\ m.type = "LocalXact"
    BY <1>1, ReceivesFacts DEF HandleLocalXact
  <1>4. m \in Msg /\ Around(m) /\ GoodMsg(m) /\ m.to = n /\ m.id = i
    BY <1>1, <1>3, InChanAround
  <1>5. m.of \in Submitted /\ idOf[m.of] = i /\ n = i[2]
    BY <1>3, <1>4, AroundGood DEF GoodMsg
  <1> HIDE DEF m
  <1>6. CASE /\ t.xact.kind = "unknown"
             /\ Becomes(n, i, "existing", m.of, S(n)!InitAsLocal(t.xact), Tail(t.chan))
    <2> DEFINE y == S(n)!InitAsLocal(t.xact)
    <2>1. /\ y.kind = "local" /\ y.status \in {"Waiting", "Committing"}
          /\ y.status = "Committing" => y.voted = Node
      BY <1>1, InitFacts
    <2>2. u.at = "existing" /\ u.of = m.of /\ u.xact = y
      BY <1>6 DEF Becomes
    <2> HIDE DEF y, u
    <2>3. GoodTask(n, i, u)
      BY <1>5, <2>1, <2>2 DEF GoodTask, GoodXact
    <2>4. QED
      BY <1>1, <1>6, <2>3, BecomesGood DEF u
  <1>7. CASE Becomes(n, i, "stopped", t.of, t.xact, <<>>)
    <2>1. u.at = "stopped" /\ u.of = t.of /\ u.xact = t.xact
      BY <1>7 DEF Becomes
    <2>2. GoodTask(n, i, u)
      BY <1>2, <2>1, StopGood
    <2>3. QED
      BY <1>1, <1>7, <2>2, BecomesGood
  <1>8. QED
    BY <1>1, <1>6, <1>7, HandleLocalXactFacts DEF m

\* handle_prepare_msg leaves every task with a transaction of its id.
LEMMA HandlePrepareGood ==
  ASSUME TypeOK, GoodMsgs, GoodTasks, NEW n \in Node, NEW i \in Ids(n), HandlePrepare(n, i)
  PROVE  GoodTasks'
  <1> DEFINE t == TaskAt(n, i)
             m == Head(t.chan)
             u == TaskAt(n, i)'
  <1>1. t = tasks[n][i] /\ i \in Id /\ t.xact \in S(n)!XactType /\ idOf' = idOf
    BY TaskFacts DEF HandlePrepare
  <1>2. GoodTask(n, i, t)
    BY <1>1 DEF GoodTasks
  <1>3. 1 \in 1..Len(t.chan) /\ m = t.chan[1] /\ m.type = "Prepare"
    BY <1>1, ReceivesFacts DEF HandlePrepare
  <1>4. m \in Msg /\ Around(m) /\ GoodMsg(m) /\ m.to = n /\ m.id = i
    BY <1>1, <1>3, InChanAround
  <1>5. m.of \in Submitted /\ idOf[m.of] = i /\ n # i[2] /\ m.from \in Node
    BY <1>3, <1>4, AroundGood DEF GoodMsg
  <1> HIDE DEF m
  <1>6. CASE /\ t.xact.kind = "unknown"
             /\ Becomes(n, i, "execute", m.of, S(m.from)!InitAsSurrogate(t.xact), Tail(t.chan))
    <2> DEFINE y == S(m.from)!InitAsSurrogate(t.xact)
    <2>1. /\ y.kind = "surrogate" /\ y.status \in {"Waiting", "Committing"}
          /\ y.status = "Committing" => y.voted = Node
      BY <1>1, <1>5, InitFacts
    <2>2. u.at = "execute" /\ u.of = m.of /\ u.xact = y
      BY <1>6 DEF Becomes
    <2> HIDE DEF y, u
    <2>3. GoodTask(n, i, u)
      BY <1>5, <2>1, <2>2 DEF GoodTask, GoodXact
    <2>4. QED
      BY <1>1, <1>6, <2>3, BecomesGood DEF u
  <1>7. CASE Becomes(n, i, "stopped", t.of, t.xact, <<>>)
    <2>1. u.at = "stopped" /\ u.of = t.of /\ u.xact = t.xact
      BY <1>7 DEF Becomes
    <2>2. GoodTask(n, i, u)
      BY <1>2, <2>1, StopGood
    <2>3. QED
      BY <1>1, <1>7, <2>2, BecomesGood
  <1>8. QED
    BY <1>1, <1>6, <1>7, HandlePrepareFacts DEF m

\* A task that works on a transaction knows which.
LEMMA OfFacts ==
  ASSUME TypeOK, GoodTasks, NEW n \in Node, NEW i \in Ids(n),
         tasks[n][i].at = "execute" \/ tasks[n][i].xact.kind # "unknown"
  PROVE  LET t == tasks[n][i] IN
         /\ t = TaskAt(n, i) /\ i \in Id /\ GoodTask(n, i, t)
         /\ t.of \in Xact /\ t.of \in Submitted /\ idOf[t.of] = i /\ t.of # None
         /\ t.xact.kind # "unknown" /\ t.xact.kind \in {"local", "surrogate"}
  <1>1. /\ tasks[n][i] = TaskAt(n, i) /\ i \in Id /\ tasks[n][i].xact \in S(n)!XactType
    BY TaskFacts
  <1>2. GoodTask(n, i, tasks[n][i])
    BY <1>1 DEF GoodTasks
  <1>3. tasks[n][i].xact.kind \in {"unknown", "local", "surrogate"}
    BY <1>1 DEF S!XactType
  <1>4. QED
    BY <1>1, <1>2, <1>3, NoneFacts DEF GoodTask, GoodXact, Submitted

\* So does the execution, which puts the own vote first.
LEMMA ExecuteGood ==
  ASSUME TypeOK, GoodTasks, NEW n \in Node, NEW i \in Ids(n), Execute(n, i)
  PROVE  GoodTasks'
  <1> DEFINE t == TaskAt(n, i)
             u == TaskAt(n, i)'
  <1>1. /\ t = tasks[n][i] /\ i \in Id /\ t.xact \in S(n)!XactType /\ idOf' = idOf
        /\ t.at = "execute"
    BY TaskFacts DEF Execute
  <1>2. GoodTask(n, i, t) /\ t.of \in Xact /\ t.xact.kind = "surrogate"
    BY <1>1, OfFacts DEF GoodTask, GoodXact
  <1>3. PICK r \in {None, Error} :
          Becomes(n, i, "existing", t.of, OwnFirst(t.xact, OwnVote(n, r)), t.chan)
    BY <1>1, <1>2, ExecuteFacts
  <1> DEFINE v == OwnVote(n, r)
             y == OwnFirst(t.xact, v)
  <1>4. v \in S(n)!Vote /\ v.from = n
    BY VoteOfType DEF OwnVote
  <1> HIDE DEF v
  <1>5. /\ y.votes # <<>> /\ Head(y.votes) = v
        /\ y.kind = t.xact.kind /\ y.status = t.xact.status /\ y.voted = t.xact.voted
        /\ y.info = t.xact.info
    BY <1>1, <1>4, KeepFacts
  <1>6. u.at = "existing" /\ u.of = t.of /\ u.xact = y
    BY <1>3 DEF Becomes, v
  <1> HIDE DEF y, u, t
  <1>7. GoodTask(n, i, u)
    BY <1>1, <1>2, <1>4, <1>5, <1>6 DEF GoodTask, GoodXact
  <1>8. QED
    BY <1>1, <1>3, <1>7, BecomesGood DEF u

\* So does counting one of the votes that initialize is given.
LEMMA AddExistingGood ==
  ASSUME TypeOK, GoodTasks, NEW n \in Node, NEW i \in Ids(n), AddExisting(n, i)
  PROVE  GoodTasks'
  <1> DEFINE t == TaskAt(n, i)
             u == TaskAt(n, i)'
             y == S(n)!AddExistingVote(t.xact)
             v == Head(t.xact.votes)
  <1>1. t = tasks[n][i] /\ i \in Id /\ t.xact \in S(n)!XactType /\ idOf' = idOf
    BY TaskFacts DEF AddExisting
  <1>2. GoodTask(n, i, t)
    BY <1>1 DEF GoodTasks
  <1>3. t.at = "existing" /\ t.xact.votes # <<>>
    BY <1>1, AddExistingFacts1
  <1>4. CASE /\ S(n)!MayAddVote(t.xact)
             /\ Becomes(n, i, "existing", t.of, y, t.chan)
    <2>1. Counts(t.xact, v, y)
      BY <1>1, <1>3, AddExistingFacts
    <2>2. u.at = "existing" /\ u.of = t.of /\ u.xact = y
      BY <1>4 DEF Becomes
    <2>3. t.xact.status \in {"Waiting", "Rollbacking"}
      BY <1>2, <1>3, <1>4 DEF S!MayAddVote, GoodTask, GoodXact
    <2> HIDE DEF y, u, v, t
    <2>4. y.kind = t.xact.kind /\ y.status \in {"Waiting", "Committing", "Rollbacking"}
          /\ (y.status = "Committing" => y.voted = Node)
      BY <2>1, <2>3 DEF Counts
    <2>5. y.status = "Rollbacking" => y.info.reason # None
      BY <1>2, <2>1 DEF Counts, GoodTask, GoodXact
    <2>6. t.xact.kind = "surrogate" => n \in y.voted \/ y.status = "Rollbacking"
      <3>1. t.xact.kind = "surrogate" =>
              n \in t.xact.voted \/ t.xact.status = "Rollbacking" \/ v.from = n
        BY <1>2, <1>3 DEF GoodTask, GoodXact, v
      <3>2. QED
        BY <2>1, <2>3, <3>1 DEF Counts
    <2>7. t.xact.kind # "unknown"
      BY <1>2, <1>3 DEF GoodTask, GoodXact
    <2>8. GoodTask(n, i, u)
      BY <1>2, <2>2, <2>4, <2>5, <2>6, <2>7 DEF GoodTask, GoodXact
    <2>9. QED
      BY <1>1, <1>4, <2>8, BecomesGood DEF u
  <1>5. CASE Becomes(n, i, "stopped", t.of, t.xact, <<>>)
    <2>1. u.at = "stopped" /\ u.of = t.of /\ u.xact = t.xact
      BY <1>5 DEF Becomes
    <2>2. GoodTask(n, i, u)
      BY <1>2, <2>1, StopGood
    <2>3. QED
      BY <1>1, <1>5, <2>2, BecomesGood
  <1>6. QED
    BY <1>1, <1>4, <1>5, AddExistingFacts1

\* Tasks that send, have sent, or stop keep their transaction's state.
LEMMA SendPrepareGood ==
  ASSUME TypeOK, GoodTasks, NEW n \in Node, NEW i \in Ids(n), SendPrepare(n, i)
  PROVE  GoodTasks'
  <1> DEFINE t == TaskAt(n, i)
             u == TaskAt(n, i)'
  <1>1. /\ t = tasks[n][i] /\ i \in Id /\ idOf' = idOf /\ t.xact.kind = "local"
        /\ tasks[n][i].xact.kind # "unknown"
    BY TaskFacts DEF SendPrepare, Initialized
  <1>2. GoodTask(n, i, t) /\ tasks[n][i].of \in Xact
    BY <1>1, OfFacts
  <1>3. \/ Becomes(n, i, "send", t.of, t.xact, t.chan)
        \/ Becomes(n, i, "stopped", t.of, t.xact, <<>>)
    BY <1>1, <1>2, SendPrepareFacts
  <1>4. u.at \in {"send", "stopped"} /\ u.of = t.of /\ u.xact = t.xact
    BY <1>3 DEF Becomes
  <1>5. GoodTask(n, i, u)
    BY <1>1, <1>2, <1>4, StopGood
  <1>6. QED
    BY <1>1, <1>3, <1>5, BecomesGood

\* So does sending the vote.
LEMMA SendVoteGood ==
  ASSUME TypeOK, GoodTasks, NEW n \in Node, NEW i \in Ids(n), SendVote(n, i)
  PROVE  GoodTasks'
  <1> DEFINE t == TaskAt(n, i)
             u == TaskAt(n, i)'
  <1>1. /\ t = tasks[n][i] /\ i \in Id /\ idOf' = idOf /\ t.xact.kind = "surrogate"
        /\ tasks[n][i].xact.kind # "unknown"
    BY TaskFacts DEF SendVote, Initialized
  <1>2. GoodTask(n, i, t) /\ tasks[n][i].of \in Xact
    BY <1>1, OfFacts
  <1>3. Becomes(n, i, "send", t.of, t.xact, t.chan)
    BY <1>1, <1>2, SendVoteFacts
  <1>4. u.at = "send" /\ u.of = t.of /\ u.xact = t.xact
    BY <1>3 DEF Becomes
  <1>5. GoodTask(n, i, u)
    BY <1>1, <1>2, <1>4, StopGood
  <1>6. QED
    BY <1>1, <1>3, <1>5, BecomesGood

\* So does the return of the last call.
LEMMA SentGood ==
  ASSUME TypeOK, GoodTasks, NEW n \in Node, NEW i \in Ids(n), Sent(n, i)
  PROVE  GoodTasks'
  <1> DEFINE t == TaskAt(n, i)
             u == TaskAt(n, i)'
  <1>1. t = tasks[n][i] /\ i \in Id /\ idOf' = idOf
    BY TaskFacts DEF Sent
  <1>2. GoodTask(n, i, t)
    BY <1>1 DEF GoodTasks
  <1>3. /\ t.at = "send"
        /\ \/ Becomes(n, i, "recv", t.of, t.xact, t.chan)
           \/ /\ Becomes(n, i, "finish", t.of, t.xact, t.chan)
              /\ t.xact.status \in {"Committing", "Rollbacking"}
    BY <1>1, SentFacts
  <1>4. /\ u.of = t.of /\ u.xact = t.xact
        /\ u.at = "recv" \/ (u.at = "finish" /\ t.xact.status \in {"Committing", "Rollbacking"})
    BY <1>3 DEF Becomes
  <1> HIDE DEF u
  <1>5. GoodTask(n, i, u)
    BY <1>2, <1>3, <1>4 DEF GoodTask, GoodXact
  <1>6. QED
    BY <1>1, <1>3, <1>5, BecomesGood DEF u

\* So does handle_vote_msg, for a vote kept and a vote counted.
LEMMA HandleVoteGood ==
  ASSUME TypeOK, GoodTasks, NEW n \in Node, NEW i \in Ids(n), HandleVote(n, i)
  PROVE  GoodTasks'
  <1> DEFINE t == TaskAt(n, i)
             u == TaskAt(n, i)'
             v == S(n)!VoteOf(Head(t.chan).from, Head(t.chan).reason)
             y == IF t.xact.kind = "unknown" THEN S(n)!KeepVote(t.xact, v)
                                             ELSE S(n)!AddVote(t.xact, v)
  <1>1. t = tasks[n][i] /\ i \in Id /\ idOf' = idOf /\ t.xact \in S(n)!XactType
    BY TaskFacts DEF HandleVote
  <1>2. GoodTask(n, i, t)
    BY <1>1 DEF GoodTasks
  <1>3. v \in S(n)!Vote /\ t.at = "recv"
    BY <1>1, ReceivesFacts, VoteOfType DEF HandleVote, Msg
  <1> HIDE DEF v
  <1>4. ASSUME NEW w, w.of = t.of, w.xact = y,
               w.at = "recv" \/ (w.at = "finish" /\ y.status \in {"Committing", "Rollbacking"})
        PROVE  GoodTask(n, i, w)
    <2>1. CASE t.xact.kind = "unknown"
      <3>1. y = S(n)!KeepVote(t.xact, v)
        BY <2>1
      <3>2. /\ y.kind = t.xact.kind /\ y.status = t.xact.status
            /\ y.voted = t.xact.voted /\ y.info = t.xact.info
        BY <1>1, <1>3, <3>1, KeepFacts
      <3> HIDE DEF y, t
      <3>3. QED
        BY <1>2, <1>3, <1>4, <2>1, <3>2 DEF GoodTask, GoodXact
    <2>2. CASE t.xact.kind # "unknown"
      <3>1. y = S(n)!AddVote(t.xact, v)
        BY <2>2
      <3>2. Counts(t.xact, v, y)
        BY <1>1, <1>3, <3>1, AddVoteFacts
      <3> HIDE DEF y, t
      <3>3. y.status \in {"Committing", "Committed"} => y.voted = Node
        BY <1>2, <3>2 DEF Counts, GoodTask, GoodXact
      <3>4. y.status = "Rollbacking" => y.info.reason # None
        BY <1>2, <3>2 DEF Counts, GoodTask, GoodXact
      <3>5. y.kind = t.xact.kind
        BY <3>2 DEF Counts
      <3>6. QED
        BY <1>2, <1>4, <2>2, <3>3, <3>4, <3>5 DEF GoodTask, GoodXact
    <2>3. QED
      BY <2>1, <2>2
  <1> HIDE DEF y
  <1>5. CASE \/ Becomes(n, i, "recv", t.of, y, Tail(t.chan))
             \/ /\ Becomes(n, i, "finish", t.of, y, Tail(t.chan))
                /\ y.status \in {"Committing", "Rollbacking"}
    <2>1. /\ u.of = t.of /\ u.xact = y
          /\ u.at = "recv" \/ (u.at = "finish" /\ y.status \in {"Committing", "Rollbacking"})
      BY <1>5 DEF Becomes
    <2>2. GoodTask(n, i, u)
      BY <1>4, <2>1
    <2>3. QED
      BY <1>1, <1>5, <2>2, BecomesGood DEF u
  <1>6. CASE Becomes(n, i, "stopped", t.of, t.xact, <<>>)
    <2>1. u.at = "stopped" /\ u.of = t.of /\ u.xact = t.xact
      BY <1>6 DEF Becomes
    <2>2. GoodTask(n, i, u)
      BY <1>2, <2>1, StopGood
    <2>3. QED
      BY <1>1, <1>6, <2>2, BecomesGood
  <1>7. QED
    BY <1>1, <1>5, <1>6, HandleVoteFacts DEF y, v

\* So does try_finish, at the coordinator and at a surrogate.
LEMMA FinishGood ==
  ASSUME TypeOK, GoodTasks, NEW n \in Node, NEW i \in Ids(n),
         FinishLocal(n, i) \/ FinishSurrogate(n, i)
  PROVE  GoodTasks'
  <1> DEFINE t == TaskAt(n, i)
             u == TaskAt(n, i)'
             y == S(n)!Finished(t.xact)
  <1>1. t = tasks[n][i] /\ i \in Id /\ idOf' = idOf /\ t.xact \in S(n)!XactType
    BY TaskFacts DEF FinishLocal, FinishSurrogate
  <1>2. tasks[n][i].xact.kind # "unknown" /\ t.at = "finish"
    BY <1>1 DEF FinishLocal, FinishSurrogate
  <1>3. GoodTask(n, i, t) /\ tasks[n][i].of \in Xact
    BY <1>1, <1>2, OfFacts
  <1>4. \/ Becomes(n, i, "stopped", t.of, y, <<>>)
        \/ Becomes(n, i, "stopped", t.of, t.xact, <<>>)
    BY <1>1, <1>3, FinishLocalFacts, FinishSurrogateFacts
  <1>5. u.at = "stopped" /\ u.of = t.of /\ u.xact \in {y, t.xact}
    BY <1>4 DEF Becomes
  <1>6. /\ y.kind = t.xact.kind /\ y.voted = t.xact.voted
        /\ t.xact.status = "Committing" => y.status = "Committed"
        /\ t.xact.status = "Rollbacking" => y.status = "Rollbacked"
    BY <1>1, FinishedFacts
  <1>7. t.xact.status \in {"Committing", "Rollbacking"}
    BY <1>2, <1>3 DEF GoodTask, GoodXact
  <1> HIDE DEF u, y, t
  <1>8. GoodTask(n, i, u)
    <2>1. CASE u.xact = t.xact
      BY <1>3, <1>5, <2>1, StopGood
    <2>2. CASE u.xact = y
      BY <1>1, <1>2, <1>3, <1>5, <1>6, <1>7, <2>2 DEF GoodTask, GoodXact
    <2>3. QED
      BY <1>5, <2>1, <2>2
  <1>9. QED
    BY <1>1, <1>4, <1>8, BecomesGood DEF u

\* So does a failed call, which stops the task.
LEMMA RpcErrorGood ==
  ASSUME TypeOK, GoodTasks, NEW n \in Node, NEW i \in Ids(n), RpcError(n, i)
  PROVE  GoodTasks'
  <1> DEFINE t == TaskAt(n, i)
             u == TaskAt(n, i)'
  <1>1. t = tasks[n][i] /\ i \in Id /\ idOf' = idOf
    BY TaskFacts DEF RpcError
  <1>2. GoodTask(n, i, t)
    BY <1>1 DEF GoodTasks
  <1>3. Becomes(n, i, "stopped", t.of, t.xact, <<>>)
    BY <1>1, RpcErrorFacts
  <1>4. u.at = "stopped" /\ u.of = t.of /\ u.xact = t.xact
    BY <1>3 DEF Becomes
  <1>5. GoodTask(n, i, u)
    BY <1>2, <1>4, StopGood
  <1>6. QED
    BY <1>1, <1>3, <1>5, BecomesGood

\* So are new tasks.
LEMMA NewTaskGood ==
  ASSUME NEW n \in Node, NEW i \in Id
  PROVE  /\ GoodTask(n, i, NewTask(n)) /\ NewTask(n).chan = <<>> /\ NewTask(n).of = None
         /\ NewTask(n).xact = S(n)!Unknown /\ NewTask(n).at = "recv"
  <1>1. NewTask(n).at = "recv" /\ NewTask(n).of = None /\ NewTask(n).xact = S(n)!Unknown
        /\ NewTask(n).chan = <<>>
    BY DEF NewTask
  <1>2. QED
    BY <1>1, UnknownFacts DEF GoodTask, GoodXact

\* So does a restart, which forgets the tasks.
LEMMA CrashRestartGood ==
  ASSUME TypeOK, GoodTasks, NEW n \in Node, CrashRestart(n)
  PROVE  GoodTasks'
  <1>1. idOf' = idOf /\ Submitted' = Submitted
    BY DEF CrashRestart, Submitted
  <1>2. \A p \in Node : \A j \in Ids(p)' : \E x \in Submitted' : idOf'[x] = j
    BY <1>1, CrashRestartFacts DEF GoodTasks
  <1>3. ASSUME NEW p \in Node, NEW j \in Id
        PROVE  GoodTask(p, j, TaskAt(p, j)')
    <2>1. CASE p = n
      BY <2>1, CrashRestartFacts, NewTaskGood
    <2>2. CASE p # n
      BY <2>2, CrashRestartFacts DEF GoodTasks
    <2>3. QED
      BY <2>1, <2>2
  <1>4. QED
    BY <1>1, <1>2, <1>3 DEF GoodTasks, GoodTask, GoodXact

\* A message that arrives changes nothing but the channel.
LEMMA GetsGood ==
  ASSUME TypeOK, GoodTasks, NEW n \in Node, NEW m \in Msg, Gets(n, m),
         \A x \in Submitted : x \in Submitted' /\ idOf'[x] = idOf[x],
         \E x \in Submitted' : idOf'[x] = m.id
  PROVE  GoodTasks'
  <1>0. m.id \in Id
    BY DEF Msg
  <1>1. \A p \in Node : \A j \in Ids(p)' : \E x \in Submitted' : idOf'[x] = j
    BY DEF GoodTasks, Gets
  <1>2. ASSUME NEW p \in Node, NEW j \in Id
        PROVE  GoodTask(p, j, TaskAt(p, j)')
    <2>1. CASE p = n /\ j = m.id
      <3>1. /\ TaskAt(p, j)'.at = TaskAt(p, j).at /\ TaskAt(p, j)'.of = TaskAt(p, j).of
            /\ TaskAt(p, j)'.xact = TaskAt(p, j).xact
        BY <2>1 DEF Gets
      <3>2. GoodTask(p, j, TaskAt(p, j))
        BY DEF GoodTasks
      <3>3. QED
        BY <3>1, <3>2 DEF GoodTask, GoodXact
    <2>2. CASE p # n \/ j # m.id
      BY <2>2 DEF Gets, GoodTasks
    <2>3. QED
      BY <2>1, <2>2
  <1>3. ASSUME NEW p \in Node, NEW j \in Id
        PROVE  GoodTask(p, j, TaskAt(p, j))'
    <2>1. GoodTask(p, j, TaskAt(p, j)')
      BY <1>2
    <2>2. QED
      BY <2>1 DEF GoodTask, GoodXact
  <1>4. QED
    BY <1>1, <1>3 DEF GoodTasks

----------------------------------------------------------------------------
(* Ids, clients and prepared transactions.                                 *)

\* Tasks leave the ids alone.
LEMMA TaskStepFrame ==
  ASSUME NEW n, NEW i, TaskStep(n, i)
  PROVE  UNCHANGED <<counter, idOf, restarted>>
  <1>1. CASE HandleLocalXact(n, i)
    BY <1>1 DEF HandleLocalXact
  <1>2. CASE HandlePrepare(n, i)
    BY <1>2 DEF HandlePrepare
  <1>3. CASE Execute(n, i)
    BY <1>3 DEF Execute
  <1>4. CASE AddExisting(n, i)
    BY <1>4 DEF AddExisting
  <1>5. CASE SendPrepare(n, i)
    BY <1>5 DEF SendPrepare
  <1>6. CASE SendVote(n, i)
    BY <1>6 DEF SendVote
  <1>7. CASE Sent(n, i)
    BY <1>7 DEF Sent
  <1>8. CASE HandleVote(n, i)
    BY <1>8 DEF HandleVote
  <1>9. CASE FinishLocal(n, i)
    BY <1>9 DEF FinishLocal
  <1>10. CASE FinishSurrogate(n, i)
    BY <1>10 DEF FinishSurrogate
  <1>11. CASE RpcError(n, i)
    BY <1>11 DEF RpcError
  <1>12. QED
    BY <1>1, <1>2, <1>3, <1>4, <1>5, <1>6, <1>7, <1>8, <1>9, <1>10, <1>11 DEF TaskStep

\* Ids are given once by Managers that were not restarted.
LEMMA SameIds ==
  ASSUME IdsGivenOnce, UNCHANGED <<counter, idOf, restarted>>
  PROVE  IdsGivenOnce'
  BY DEF IdsGivenOnce, Submitted, Home

\* A restart resets a counter, and is recorded in restarted.
LEMMA CrashRestartIds ==
  ASSUME TypeOK, IdsGivenOnce, NEW n \in Node, CrashRestart(n)
  PROVE  IdsGivenOnce'
  <1>1. /\ idOf' = idOf /\ restarted' = restarted \cup {n}
        /\ counter' = [counter EXCEPT ![n] = 0] /\ counter \in [Node -> Nat]
    BY DEF CrashRestart, TypeOK
  <1>2. Submitted' = Submitted /\ \A x \in Submitted : Home(x)' = Home(x) /\ Home(x) \in Node
    BY <1>1 DEF Submitted, Home, TypeOK, Id
  <1>3. \A x \in Submitted : Home(x) \notin restarted' => counter'[Home(x)] = counter[Home(x)]
    BY <1>1, <1>2
  <1>4. QED
    BY <1>1, <1>2, <1>3 DEF IdsGivenOnce

\* A new id is above the ids its unrestarted Manager has given.
LEMMA SubmitIdsOnce ==
  ASSUME TypeOK, IdleIsUnknown, IdsGivenOnce, NEW n \in Node, NEW x \in Xact,
         NEW i \in Id, NEW m \in Msg, Numbers(n, x, i, m)
  PROVE  IdsGivenOnce'
  <1>1. /\ x \notin Submitted /\ idOf'[x] = i /\ Submitted' = Submitted \cup {x}
        /\ \A y \in Submitted : y # x /\ idOf'[y] = idOf[y] /\ Home(y)' = Home(y)
        /\ Home(x)' = n
    BY SubmitIds
  <1>2. /\ restarted' = restarted /\ counter \in [Node -> Nat]
        /\ counter' = [counter EXCEPT ![n] = @ + 1] /\ i[1] = counter[n] + 1 /\ i[2] = n
    BY DEF Numbers, TypeOK
  <1>3. \A y \in Submitted : idOf[y] \in Id /\ Home(y) \in Node /\ idOf[y][1] \in Nat
                             /\ Home(y) = idOf[y][2]
    BY DEF Submitted, Home, TypeOK, Id
  <1>4. \A p \in Node : counter[p] \in Nat /\ counter'[p] >= counter[p]
    BY <1>2
  <1>5. ASSUME NEW y \in Submitted', Home(y)' \notin restarted'
        PROVE  idOf'[y][1] <= counter'[Home(y)']
    <2>1. CASE y = x
      <3>1. counter'[n] = counter[n] + 1 /\ counter[n] \in Nat
        BY <1>2
      <3>2. QED
        BY <1>1, <1>2, <2>1, <3>1
    <2>2. CASE y # x
      <3>1. y \in Submitted /\ idOf'[y] = idOf[y] /\ Home(y)' = Home(y)
        BY <1>1, <2>2
      <3>2. idOf[y][1] <= counter[Home(y)]
        BY <1>2, <1>5, <3>1 DEF IdsGivenOnce
      <3>3. QED
        BY <1>3, <1>4, <1>2, <3>1, <3>2
    <2>3. QED
      BY <2>1, <2>2
  <1>6. ASSUME NEW y \in Submitted, idOf[y] = i PROVE n \in restarted
    <2>1. Home(y) = n /\ idOf[y][1] = counter[n] + 1
      BY <1>2, <1>3, <1>6
    <2>2. QED
      BY <1>2, <2>1 DEF IdsGivenOnce
  <1>7. ASSUME NEW y \in Submitted', NEW z \in Submitted', idOf'[y] = idOf'[z], y # z
        PROVE  Home(y)' \in restarted'
    <2>1. CASE y = x
      BY <1>1, <1>2, <1>6, <1>7, <2>1
    <2>2. CASE y # x /\ z = x
      <3>1. y \in Submitted /\ idOf[y] = i /\ Home(y)' = Home(y)
        BY <1>1, <1>7, <2>2
      <3>2. QED
        BY <1>2, <1>3, <1>6, <3>1
    <2>3. CASE y # x /\ z # x
      BY <1>1, <1>2, <1>7, <2>3 DEF IdsGivenOnce
    <2>4. QED
      BY <2>1, <2>2, <2>3
  <1>8. QED
    BY <1>5, <1>7 DEF IdsGivenOnce

\* A transaction that was not submitted stays unknown to every node.
LEMMA QuietIdle ==
  ASSUME TypeOK, IdleIsUnknown, ClientQuiet, UNCHANGED <<executed, outcome, idOf>>
  PROVE  IdleIsUnknown'
  <1>1. Submitted' = Submitted
    BY DEF Submitted
  <1>2. \A x \in Xact : client'[x] = "idle" <=> client[x] = "idle"
    BY DEF ClientQuiet
  <1>3. QED
    BY <1>1, <1>2 DEF IdleIsUnknown

\* A transaction that is submitted is no longer idle.
LEMMA SubmitIdle ==
  ASSUME TypeOK, IdleIsUnknown, NEW n \in Node, NEW x \in Xact,
         NEW i \in Id, NEW m \in Msg, Numbers(n, x, i, m)
  PROVE  IdleIsUnknown'
  <1>1. /\ Submitted' = Submitted \cup {x}
        /\ client'[x] # "idle" /\ \A y \in Xact : y # x => client'[y] = client[y]
        /\ UNCHANGED <<executed, outcome>>
    BY SubmitIds DEF Numbers
  <1>2. QED
    BY <1>1 DEF IdleIsUnknown

\* Only a transaction that was submitted is executed.
LEMMA ExecuteIdle ==
  ASSUME TypeOK, IdleIsUnknown, GoodTasks, NEW n \in Node, NEW i \in Ids(n), Execute(n, i)
  PROVE  IdleIsUnknown'
  <1> DEFINE t == tasks[n][i]
  <1>1. t.of \in Submitted /\ t.of \in Xact
    BY OfFacts DEF Execute
  <1>2. Submitted' = Submitted /\ client' = client
    BY DEF Execute, Submitted
  <1>3. PICK r \in {None, Error} :
          /\ executed' = [executed EXCEPT ![n][t.of] = IF r = None THEN "ok" ELSE "error"]
          /\ outcome' = IF r = None THEN outcome ELSE [outcome EXCEPT ![n][t.of] = "aborted"]
    BY <1>1, ExecuteFacts
  <1>4. \A p \in Node : \A x \in Xact : x # t.of =>
          executed'[p][x] = executed[p][x] /\ outcome'[p][x] = outcome[p][x]
    BY <1>3 DEF TypeOK
  <1>5. QED
    BY <1>1, <1>2, <1>4 DEF IdleIsUnknown

\* No client of an idle transaction is told an outcome.
LEMMA FinishLocalIdle ==
  ASSUME TypeOK, IdleIsUnknown, GoodTasks, NEW n \in Node, NEW i \in Ids(n), FinishLocal(n, i)
  PROVE  IdleIsUnknown'
  <1>1. Submitted' = Submitted /\ UNCHANGED <<executed, outcome>>
    BY DEF FinishLocal, Submitted
  <1>2. tasks[n][i].of \in Xact
    BY OfFacts DEF FinishLocal
  <1>3. \A x \in Xact : client'[x] = client[x] \/ (client[x] = "waiting" /\ client'[x] # "idle")
    BY <1>2, FinishLocalFacts DEF Decision
  <1>4. QED
    BY <1>1, <1>3 DEF IdleIsUnknown

\* Only a transaction that was submitted is committed or rolled back.
LEMMA FinishSurrogateIdle ==
  ASSUME TypeOK, IdleIsUnknown, GoodPrepared, NEW n \in Node, NEW i \in Ids(n),
         FinishSurrogate(n, i)
  PROVE  IdleIsUnknown'
  <1>1. Submitted' = Submitted /\ UNCHANGED <<executed, client>>
    BY DEF FinishSurrogate, Submitted
  <1>2. \A p \in Node : \A x \in Xact : x \notin Submitted => outcome'[p][x] = outcome[p][x]
    <2>1. CASE outcome' = outcome
      BY <2>1
    <2>2. CASE /\ i \in DOMAIN prepared[n]
               /\ outcome' = [outcome EXCEPT ![n][prepared[n][i]] = Decision(tasks[n][i])]
      <3>1. prepared[n][i] \in Submitted
        BY <2>2 DEF GoodPrepared
      <3>2. QED
        BY <2>2, <3>1 DEF TypeOK
    <2>3. QED
      BY <2>1, <2>2, FinishSurrogateFacts
  <1>3. QED
    BY <1>1, <1>2 DEF IdleIsUnknown

\* What is prepared under an id is a transaction with that id.
LEMMA SamePrepared ==
  ASSUME GoodPrepared, UNCHANGED <<prepared, idOf>>
  PROVE  GoodPrepared'
  BY DEF GoodPrepared, Submitted

\* A new id leaves what is prepared under its own.
LEMMA SubmitPrepared ==
  ASSUME TypeOK, IdleIsUnknown, GoodPrepared, NEW n \in Node, NEW x \in Xact,
         NEW i \in Id, NEW m \in Msg, Numbers(n, x, i, m)
  PROVE  GoodPrepared'
  <1>1. prepared' = prepared /\ \A y \in Submitted : y \in Submitted' /\ idOf'[y] = idOf[y]
    BY SubmitIds DEF Numbers
  <1>2. QED
    BY <1>1 DEF GoodPrepared

\* PREPARE TRANSACTION uses the id of the transaction it prepares.
LEMMA ExecutePrepared ==
  ASSUME TypeOK, GoodTasks, GoodPrepared, NEW n \in Node, NEW i \in Ids(n), Execute(n, i)
  PROVE  GoodPrepared'
  <1> DEFINE t == tasks[n][i]
  <1>1. t.of \in Submitted /\ t.of \in Xact /\ idOf[t.of] = i
    BY OfFacts DEF Execute
  <1>2. Submitted' = Submitted /\ idOf' = idOf
    BY DEF Execute, Submitted
  <1>3. CASE prepared' = prepared
    BY <1>2, <1>3, SamePrepared
  <1>4. CASE prepared' = [prepared EXCEPT ![n] = With(@, i, t.of)]
    <2>1. /\ prepared'[n] = With(prepared[n], i, t.of)
          /\ \A p \in Node : p # n => prepared'[p] = prepared[p]
      BY <1>4 DEF TypeOK
    <2>2. /\ DOMAIN With(prepared[n], i, t.of) = DOMAIN prepared[n] \cup {i}
          /\ \A j \in DOMAIN prepared[n] \cup {i} :
               With(prepared[n], i, t.of)[j] = IF j = i THEN t.of ELSE prepared[n][j]
      BY DEF With
    <2>3. QED
      BY <1>1, <1>2, <2>1, <2>2 DEF GoodPrepared
  <1>5. QED
    BY <1>1, <1>3, <1>4, ExecuteFacts

\* Ending a prepared transaction removes its gid and no other.
LEMMA FinishSurrogatePrepared ==
  ASSUME TypeOK, GoodPrepared, NEW n \in Node, NEW i \in Ids(n), FinishSurrogate(n, i)
  PROVE  GoodPrepared'
  <1>1. Submitted' = Submitted /\ idOf' = idOf
    BY DEF FinishSurrogate, Submitted
  <1>2. CASE prepared' = prepared
    BY <1>1, <1>2, SamePrepared
  <1>3. CASE prepared' = [prepared EXCEPT ![n] = Without(@, i)]
    <2>1. /\ prepared'[n] = Without(prepared[n], i)
          /\ \A p \in Node : p # n => prepared'[p] = prepared[p]
      BY <1>3 DEF TypeOK
    <2>2. /\ DOMAIN Without(prepared[n], i) = DOMAIN prepared[n] \ {i}
          /\ \A j \in DOMAIN prepared[n] \ {i} : Without(prepared[n], i)[j] = prepared[n][j]
      BY DEF Without
    <2>3. QED
      BY <1>1, <2>1, <2>2 DEF GoodPrepared
  <1>4. QED
    BY <1>2, <1>3, FinishSurrogateFacts

----------------------------------------------------------------------------
(* Nothing is sent, executed or voted twice.                               *)

\* If a task works on x after the step, it did before, and is not back in an
\* earlier position.
Follows(t, u) ==
  u.of # None =>
    /\ u.of = t.of /\ u.xact.kind = t.xact.kind
    /\ u.at \in {"execute", "existing"} => u.at = t.at

\* A step that sends nothing of x, executes it nowhere and takes no task back.
LEMMA PlainOnce ==
  ASSUME NEW x \in Xact, Once(x), idOf'[x] = idOf[x],
         \A m \in Msg : Around(m)' /\ m.of = x => Around(m),
         \A p \in Node : executed'[p][x] = executed[p][x],
         \A p \in Node : TaskAt(p, idOf[x])'.of = x =>
           Follows(TaskAt(p, idOf[x]), TaskAt(p, idOf[x])'),
         Home(x) \in Node
  PROVE  Once(x)'
  <1> DEFINE i == idOf[x]
  <1>0. x # None /\ Home(x)' = Home(x)
    BY NoneFacts DEF Home
  <1>1. \A p \in Node : TaskAt(p, i)'.of = x =>
          /\ TaskAt(p, i).of = x /\ TaskAt(p, i)'.xact.kind = TaskAt(p, i).xact.kind
          /\ TaskAt(p, i)'.at \in {"execute", "existing"} => TaskAt(p, i)'.at = TaskAt(p, i).at
    BY <1>0 DEF Follows
  <1>2. Unsent(x)' => Unsent(x)
    BY <1>0, <1>1 DEF Unsent
  <1>3. SentOnce(x)'
    <2>1. ASSUME Unsent(x)'
          PROVE  /\ \A m \in Msg : Around(m)' /\ m.of = x => m.type = "LocalXact"
                 /\ \A n \in Node \ {Home(x)} : TaskAt(n, i)'.of # x /\ executed'[n][x] = "none"
      BY <1>1, <1>2, <2>1 DEF Once, SentOnce
    <2>2. ASSUME NEW m \in Msg, Around(m)', m.of = x, m.type = "LocalXact"
          PROVE  TaskAt(Home(x), i)'.of # x
      <3>1. Around(m)
        BY <2>2
      <3>2. TaskAt(Home(x), i).of # x
        BY <2>2, <3>1 DEF Once, SentOnce
      <3>3. QED
        BY <1>0, <1>1, <3>2
    <2>3. QED
      BY <1>0, <2>1, <2>2 DEF SentOnce
  <1>4. ASSUME NEW n \in Node PROVE ExecutedOnce(x, n)'
    <2>1. ExecutedOnce(x, n)
      BY DEF Once
    <2>2. ASSUME NEW m \in Msg, Around(m)', m.of = x, m.type = "Prepare", m.to = n
          PROVE  executed'[n][x] = "none" /\ TaskAt(n, i)'.of # x
      BY <1>1, <2>1, <2>2 DEF ExecutedOnce
    <2>3. TaskAt(n, i)'.of = x /\ TaskAt(n, i)'.at = "execute" => executed'[n][x] = "none"
      BY <1>1, <2>1 DEF ExecutedOnce
    <2>4. QED
      BY <2>2, <2>3 DEF ExecutedOnce
  <1>5. ASSUME NEW n \in Node PROVE VotedOnce(x, n)'
    <2>1. VotedOnce(x, n)
      BY DEF Once
    <2>2. VotesOf(x, n)' \subseteq VotesOf(x, n)
      BY DEF VotesOf
    <2>3. VotesOf(x, n)' # {} => executed'[n][x] # "none"
      BY <2>1, <2>2 DEF VotedOnce
    <2>4. ASSUME TaskAt(n, i)'.of = x, TaskAt(n, i)'.xact.kind = "surrogate",
                 TaskAt(n, i)'.at = "existing"
          PROVE  executed'[n][x] # "none" /\ VotesOf(x, n)' = {}
      BY <1>1, <2>1, <2>2, <2>4 DEF VotedOnce
    <2>5. QED
      BY <2>3, <2>4 DEF VotedOnce
  <1>6. QED
    BY <1>3, <1>4, <1>5 DEF Once

\* Where the transactions that were submitted live.
LEMMA SubmittedFacts ==
  ASSUME TypeOK, NEW x \in Submitted
  PROVE  x \in Xact /\ idOf[x] \in Id /\ Home(x) \in Node /\ x # None
  BY NoneFacts DEF Submitted, TypeOK, Home, Id

\* A step that does so for all transactions.
LEMMA PlainStep ==
  ASSUME TypeOK, AtMostOnce, NoNew, idOf' = idOf, executed' = executed,
         \A p \in Node, j \in Id : Follows(TaskAt(p, j), TaskAt(p, j)')
  PROVE  AtMostOnce'
  <1>1. Submitted' = Submitted
    BY DEF Submitted
  <1>2. ASSUME NEW x \in Submitted PROVE Once(x)'
    <2>1. x \in Xact /\ idOf[x] \in Id /\ Home(x) \in Node /\ Once(x)
      BY SubmittedFacts DEF AtMostOnce
    <2>2. \A m \in Msg : Around(m)' /\ m.of = x => Around(m)
      BY DEF NoNew
    <2>3. QED
      BY <2>1, <2>2, PlainOnce
  <1>3. QED
    BY <1>1, <1>2 DEF AtMostOnce

\* A step of one task.
LEMMA BecomesPlain ==
  ASSUME TypeOK, AtMostOnce, NoNew, idOf' = idOf, executed' = executed,
         NEW n \in Node, NEW i \in Id, NEW a, NEW o, NEW y, NEW c,
         Becomes(n, i, a, o, y, c), o = TaskAt(n, i).of, y.kind = TaskAt(n, i).xact.kind,
         a \in {"execute", "existing"} => a = TaskAt(n, i).at
  PROVE  AtMostOnce'
  <1>1. ASSUME NEW p \in Node, NEW j \in Id
        PROVE  Follows(TaskAt(p, j), TaskAt(p, j)')
    BY DEF Becomes, Follows
  <1>2. QED
    BY <1>1, PlainStep

\* A step of one task that sends or executes its transaction: the others are
\* not concerned.
LEMMA BecomesOnce ==
  ASSUME TypeOK, AtMostOnce, idOf' = idOf,
         NEW n \in Node, NEW i \in Id, NEW a, NEW o, NEW y, NEW c,
         Becomes(n, i, a, o, y, c),
         \A m \in Msg : Around(m)' => Around(m) \/ m.of = o,
         \A p \in Node : \A z \in Xact : z # o => executed'[p][z] = executed[p][z],
         Once(o)'
  PROVE  AtMostOnce'
  <1>1. Submitted' = Submitted
    BY DEF Submitted
  <1>2. ASSUME NEW x \in Submitted PROVE Once(x)'
    <2>1. x \in Xact /\ idOf[x] \in Id /\ Home(x) \in Node /\ Once(x)
      BY SubmittedFacts DEF AtMostOnce
    <2>2. CASE x = o
      BY <2>2
    <2>3. CASE x # o
      <3>1. \A m \in Msg : Around(m)' /\ m.of = x => Around(m)
        BY <2>3
      <3>2. \A p \in Node : executed'[p][x] = executed[p][x]
        BY <2>1, <2>3
      <3>3. ASSUME NEW p \in Node, TaskAt(p, idOf[x])'.of = x
            PROVE  Follows(TaskAt(p, idOf[x]), TaskAt(p, idOf[x])')
        BY <2>1, <2>3, <3>3 DEF Becomes, Follows
      <3>4. QED
        BY <2>1, <3>1, <3>2, <3>3, PlainOnce
    <2>4. QED
      BY <2>2, <2>3
  <1>3. QED
    BY <1>1, <1>2 DEF AtMostOnce

\* A message that was taken from its channel is not left anywhere else.
LEMMA TakenGone ==
  ASSUME TypeOK, GoodMsgs, NoTwins, net' = net, NEW n \in Node, NEW i \in Id, NEW m \in Msg,
         TaskAt(n, i).chan # <<>>, m = Head(TaskAt(n, i).chan),
         TaskAt(n, i)'.chan = Tail(TaskAt(n, i).chan)
  PROVE  \A a \in Msg : Around(a)' /\ a.to = n /\ a.id = i => ~SameCall(a, m)
  <1> DEFINE s == TaskAt(n, i).chan
  <1>1. s \in Seq(Msg) /\ Distinct(s) /\ s # <<>> /\ m = Head(s)
    BY TaskAtType DEF NoTwins
  <1>2. SUFFICES ASSUME NEW a \in Msg, Around(a)', a.to = n, a.id = i, SameCall(a, m)
                 PROVE  FALSE
    OBVIOUS
  <1>3. CASE a \in net'
    <2>1. \A k \in 1..Len(s) : ~SameCall(a, s[k])
      BY <1>2, <1>3 DEF NoTwins
    <2> HIDE DEF s
    <2>2. 1 \in 1..Len(s) /\ m = s[1]
      BY <1>1
    <2>3. QED
      BY <1>2, <2>1, <2>2
  <1>4. CASE InChan(a, a.to, a.id)'
    <2>1. PICK k \in 1..Len(Tail(s)) : Tail(s)[k] = a
      BY <1>2, <1>4 DEF InChan
    <2> HIDE DEF s
    <2>2. k + 1 \in 1..Len(s) /\ s[k + 1] = a /\ 1 \in 1..Len(s) /\ s[1] = m /\ k + 1 # 1
      BY <1>1, <2>1
    <2>3. QED
      BY <1>1, <1>2, <2>2 DEF Distinct
  <1>5. QED
    BY <1>2, <1>3, <1>4 DEF Around

\* The LocalXact of a transaction is taken: it is still unsent.
LEMMA HandleLocalXactOnce ==
  ASSUME TypeOK, GoodMsgs, NoTwins, GoodTasks, AtMostOnce,
         NEW n \in Node, NEW i \in Ids(n), HandleLocalXact(n, i)
  PROVE  AtMostOnce'
  <1> DEFINE t == TaskAt(n, i)
  <1>1. /\ t = tasks[n][i] /\ i \in Id /\ t.xact \in S(n)!XactType /\ t.chan # <<>>
        /\ UNCHANGED <<net, idOf, executed>>
    BY TaskFacts, ReceivesFacts DEF HandleLocalXact
  <1>2. PICK m \in Msg : /\ m = Head(t.chan) /\ m.type = "LocalXact"
                         /\ Around(m) /\ GoodMsg(m) /\ m.to = n /\ m.id = i
    <2>1. 1 \in 1..Len(t.chan) /\ Head(t.chan) = t.chan[1] /\ Head(t.chan).type = "LocalXact"
      BY <1>1, ReceivesFacts DEF HandleLocalXact
    <2>2. QED
      BY <1>1, <2>1, InChanAround
  <1>3. PICK x \in Xact : x = m.of
    BY DEF Msg
  <1>4. x \in Submitted /\ idOf[x] = i /\ Home(x) = n /\ m.from = n /\ Once(x) /\ x # None
    BY <1>2, <1>3, AroundGood, SubmittedFacts DEF GoodMsg, Home, AtMostOnce
  <1>5. CASE Becomes(n, i, "stopped", t.of, t.xact, <<>>)
    <2>1. NoNew
      BY <1>1, <1>5, BecomesFewer DEF Shorter
    <2>2. QED
      BY <1>1, <1>5, <2>1, BecomesPlain
  <1>6. CASE Becomes(n, i, "existing", x, S(n)!InitAsLocal(t.xact), Tail(t.chan))
    <2>1. NoNew
      BY <1>1, <1>6, BecomesFewer DEF Shorter
    <2>2. /\ TaskAt(n, i)'.at = "existing" /\ TaskAt(n, i)'.of = x
          /\ TaskAt(n, i)'.chan = Tail(t.chan) /\ TaskAt(n, i)'.xact.kind = "local"
          /\ \A p \in Node \ {n} : TaskAt(p, i)' = TaskAt(p, i)
      BY <1>1, <1>6, InitFacts DEF Becomes
    <2>3. \A a \in Msg : Around(a)' /\ a.of = x => a.type = "LocalXact"
      BY <1>2, <1>3, <1>4, <2>1 DEF NoNew, Once, SentOnce, Unsent
    <2>4. ASSUME NEW a \in Msg, Around(a)', a.of = x, a.type = "LocalXact" PROVE FALSE
      <3>1. Around(a)
        BY <2>1, <2>4 DEF NoNew
      <3>2. a.to = n /\ a.id = i /\ a.from = n
        BY <1>4, <2>4, <3>1, AroundGood DEF GoodMsg, Home
      <3>3. SameCall(a, m)
        BY <1>2, <1>3, <1>4, <2>4, <3>2 DEF SameCall
      <3>4. QED
        BY <1>1, <1>2, <2>2, <2>4, <3>2, <3>3, TakenGone
    <2>5. \A p \in Node \ {n} : TaskAt(p, i)'.of # x /\ executed'[p][x] = "none"
      BY <1>1, <1>2, <1>3, <1>4, <2>2 DEF Once, SentOnce, Unsent
    <2>6. Home(x)' = n /\ idOf'[x] = i
      BY <1>1, <1>4 DEF Home
    <2>7. SentOnce(x)'
      BY <2>3, <2>4, <2>5, <2>6 DEF SentOnce
    <2>8. ASSUME NEW p \in Node PROVE ExecutedOnce(x, p)'
      BY <2>2, <2>3, <2>5, <2>6 DEF ExecutedOnce
    <2>9. ASSUME NEW p \in Node PROVE VotedOnce(x, p)'
      BY <2>2, <2>3, <2>5, <2>6 DEF VotedOnce, VotesOf
    <2>10. Once(x)'
      BY <2>7, <2>8, <2>9 DEF Once
    <2>11. QED
      BY <1>1, <1>6, <2>1, <2>10, BecomesOnce DEF NoNew
  <1>7. QED
    BY <1>1, <1>2, <1>3, <1>5, <1>6, HandleLocalXactFacts

\* A Prepare is taken: none is left, and the transaction was not executed.
LEMMA HandlePrepareOnce ==
  ASSUME TypeOK, GoodMsgs, NoTwins, GoodTasks, AtMostOnce,
         NEW n \in Node, NEW i \in Ids(n), HandlePrepare(n, i)
  PROVE  AtMostOnce'
  <1> DEFINE t == TaskAt(n, i)
  <1>1. /\ t = tasks[n][i] /\ i \in Id /\ t.xact \in S(n)!XactType /\ t.chan # <<>>
        /\ UNCHANGED <<net, idOf, executed>>
    BY TaskFacts, ReceivesFacts DEF HandlePrepare
  <1>2. PICK m \in Msg : /\ m = Head(t.chan) /\ m.type = "Prepare"
                         /\ Around(m) /\ GoodMsg(m) /\ m.to = n /\ m.id = i
    <2>1. 1 \in 1..Len(t.chan) /\ Head(t.chan) = t.chan[1] /\ Head(t.chan).type = "Prepare"
      BY <1>1, ReceivesFacts DEF HandlePrepare
    <2>2. QED
      BY <1>1, <2>1, InChanAround
  <1>3. PICK x \in Xact : x = m.of
    BY DEF Msg
  <1>4. /\ x \in Submitted /\ idOf[x] = i /\ Home(x) # n /\ Home(x) \in Node /\ m.from = Home(x)
        /\ Once(x) /\ x # None /\ m.from \in Node
    BY <1>2, <1>3, AroundGood, SubmittedFacts DEF GoodMsg, Home, AtMostOnce
  <1>5. CASE Becomes(n, i, "stopped", t.of, t.xact, <<>>)
    <2>1. NoNew
      BY <1>1, <1>5, BecomesFewer DEF Shorter
    <2>2. QED
      BY <1>1, <1>5, <2>1, BecomesPlain
  <1>6. CASE Becomes(n, i, "execute", x, S(m.from)!InitAsSurrogate(t.xact), Tail(t.chan))
    <2>1. NoNew
      BY <1>1, <1>6, BecomesFewer DEF Shorter
    <2>2. /\ TaskAt(n, i)'.at = "execute" /\ TaskAt(n, i)'.of = x
          /\ TaskAt(n, i)'.chan = Tail(t.chan)
          /\ \A p \in Node \ {n} : TaskAt(p, i)' = TaskAt(p, i)
      BY <1>1, <1>6 DEF Becomes
    <2>3. ~Unsent(x)
      BY <1>2, <1>3, <1>4 DEF Once, SentOnce
    <2>4. ASSUME NEW a \in Msg, Around(a)', a.of = x, a.type = "Prepare", a.to = n PROVE FALSE
      <3>1. Around(a)
        BY <2>1, <2>4 DEF NoNew
      <3>2. a.id = i /\ a.from = m.from
        BY <1>4, <2>4, <3>1, AroundGood DEF GoodMsg, Home
      <3>3. SameCall(a, m)
        BY <1>2, <1>3, <2>4, <3>2 DEF SameCall
      <3>4. QED
        BY <1>1, <1>2, <2>2, <2>4, <3>2, <3>3, TakenGone
    <2>5. Home(x)' = Home(x) /\ idOf'[x] = i
      BY <1>1, <1>4 DEF Home
    <2>6. \A a \in Msg : Around(a)' => Around(a)
      BY <2>1 DEF NoNew
    <2>7. TaskAt(Home(x), i)' = TaskAt(Home(x), i)
      BY <1>4, <2>2, <2>5
    <2>8. ~Unsent(x)'
      BY <1>4, <2>3, <2>5, <2>6, <2>7 DEF Unsent
    <2>9. SentOnce(x)'
      BY <2>8 DEF SentOnce, Unsent
    <2>10. ASSUME NEW p \in Node PROVE ExecutedOnce(x, p)'
      <3>1. CASE p = n
        <4>1. executed[n][x] = "none"
          BY <1>2, <1>3, <1>4 DEF Once, ExecutedOnce
        <4>2. QED
          BY <1>1, <2>4, <3>1, <4>1 DEF ExecutedOnce
      <3>2. CASE p # n
        <4>1. ExecutedOnce(x, p) /\ TaskAt(p, i)' = TaskAt(p, i)
          BY <1>4, <2>2, <3>2 DEF Once
        <4>2. QED
          BY <1>1, <1>4, <2>5, <2>6, <4>1 DEF ExecutedOnce
      <3>3. QED
        BY <3>1, <3>2
    <2>11. ASSUME NEW p \in Node PROVE VotedOnce(x, p)'
      <3>1. VotedOnce(x, p) /\ VotesOf(x, p)' \subseteq VotesOf(x, p)
        BY <1>4, <2>6 DEF Once, VotesOf
      <3>2. p # n => TaskAt(p, i)' = TaskAt(p, i)
        BY <2>2
      <3>3. QED
        BY <1>1, <1>4, <2>2, <2>5, <3>1, <3>2 DEF VotedOnce
    <2>12. Once(x)'
      BY <2>9, <2>10, <2>11 DEF Once
    <2>13. QED
      BY <1>1, <1>6, <2>6, <2>12, BecomesOnce
  <1>7. QED
    BY <1>1, <1>2, <1>3, <1>5, <1>6, HandlePrepareFacts

\* The only execution of a transaction at a node, before its vote.
LEMMA ExecuteOnce ==
  ASSUME TypeOK, GoodMsgs, NoTwins, GoodTasks, AtMostOnce,
         NEW n \in Node, NEW i \in Ids(n), Execute(n, i)
  PROVE  AtMostOnce'
  <1> DEFINE t == TaskAt(n, i)
  <1>1. /\ t = tasks[n][i] /\ i \in Id /\ t.xact \in S(n)!XactType /\ t.at = "execute"
        /\ UNCHANGED <<net, idOf>>
    BY TaskFacts DEF Execute
  <1>2. /\ GoodTask(n, i, t) /\ t.of \in Xact /\ t.of \in Submitted /\ idOf[t.of] = i
        /\ t.xact.kind = "surrogate" /\ n # i[2]
    BY <1>1, OfFacts DEF GoodTask, GoodXact
  <1>3. PICK x \in Xact : x = t.of
    BY <1>2
  <1>4. PICK r \in {None, Error} :
          /\ Becomes(n, i, "existing", x, OwnFirst(t.xact, OwnVote(n, r)), t.chan)
          /\ executed' = [executed EXCEPT ![n][x] = IF r = None THEN "ok" ELSE "error"]
    BY <1>1, <1>2, <1>3, ExecuteFacts
  <1>5. /\ x \in Submitted /\ idOf[x] = i /\ Home(x) # n /\ Home(x) \in Node
        /\ Once(x) /\ x # None
    BY <1>2, <1>3, SubmittedFacts DEF Home, AtMostOnce
  <1>6. NoNew
    BY <1>1, <1>4, BecomesFewer DEF Shorter
  <1>7. \A a \in Msg : Around(a)' => Around(a)
    BY <1>6 DEF NoNew
  <1>8. /\ executed'[n][x] # "none"
        /\ \A p \in Node \ {n} : executed'[p][x] = executed[p][x]
        /\ \A p \in Node : \A z \in Xact : z # x => executed'[p][z] = executed[p][z]
    BY <1>4 DEF TypeOK
  <1>9. /\ TaskAt(n, i)'.at = "existing" /\ TaskAt(n, i)'.of = x
        /\ \A p \in Node \ {n} : TaskAt(p, i)' = TaskAt(p, i)
    BY <1>1, <1>4 DEF Becomes
  <1>10. Home(x)' = Home(x) /\ idOf'[x] = i /\ TaskAt(Home(x), i)' = TaskAt(Home(x), i)
    BY <1>1, <1>5, <1>9 DEF Home
  <1>11. ~Unsent(x)
    BY <1>3, <1>5 DEF Once, SentOnce
  <1>12. ~Unsent(x)'
    BY <1>5, <1>7, <1>10, <1>11 DEF Unsent
  <1>13. SentOnce(x)'
    BY <1>12 DEF SentOnce, Unsent
  <1>14. ASSUME NEW p \in Node PROVE ExecutedOnce(x, p)'
    <2>1. ExecutedOnce(x, p)
      BY <1>5 DEF Once
    <2>2. CASE p = n
      <3>1. \A m \in Msg : ~(Around(m) /\ m.of = x /\ m.type = "Prepare" /\ m.to = n)
        BY <1>3, <1>5, <2>1, <2>2 DEF ExecutedOnce
      <3>2. QED
        BY <1>7, <1>9, <1>10, <2>2, <3>1 DEF ExecutedOnce
    <2>3. CASE p # n
      BY <1>5, <1>7, <1>8, <1>9, <1>10, <2>1, <2>3 DEF ExecutedOnce
    <2>4. QED
      BY <2>2, <2>3
  <1>15. ASSUME NEW p \in Node PROVE VotedOnce(x, p)'
    <2>1. VotedOnce(x, p) /\ VotesOf(x, p)' \subseteq VotesOf(x, p)
      BY <1>5, <1>7 DEF Once, VotesOf
    <2>2. CASE p = n
      <3>1. executed[n][x] = "none"
        BY <1>1, <1>3, <1>5 DEF Once, ExecutedOnce
      <3>2. VotesOf(x, n) = {}
        BY <2>1, <2>2, <3>1 DEF VotedOnce
      <3>3. QED
        BY <1>8, <2>1, <2>2, <3>2 DEF VotedOnce
    <2>3. CASE p # n
      BY <1>5, <1>8, <1>9, <1>10, <2>1, <2>3 DEF VotedOnce
    <2>4. QED
      BY <2>2, <2>3
  <1>16. Once(x)'
    BY <1>13, <1>14, <1>15 DEF Once
  <1>17. QED
    BY <1>1, <1>4, <1>7, <1>8, <1>16, BecomesOnce

\* The calls of a coordinator: nothing of the transaction was sent before.
LEMMA SendPrepareOnce ==
  ASSUME TypeOK, GoodMsgs, NoTwins, GoodTasks, AtMostOnce,
         NEW n \in Node, NEW i \in Ids(n), SendPrepare(n, i)
  PROVE  /\ GoodMsgs' /\ NoTwins' /\ AtMostOnce'
         /\ \A m \in Msg : Around(m)' => Around(m) \/ m.type = "Prepare"
  <1> DEFINE t == TaskAt(n, i)
  <1>1. /\ t = tasks[n][i] /\ i \in Id /\ t.xact.kind = "local" /\ t.at = "existing"
        /\ tasks[n][i].xact.kind # "unknown"
        /\ UNCHANGED <<idOf, executed>>
    BY TaskFacts DEF SendPrepare, Initialized
  <1>2. GoodTask(n, i, t) /\ t.of \in Xact /\ t.of \in Submitted /\ idOf[t.of] = i /\ n = i[2]
    BY <1>1, OfFacts DEF GoodTask
  <1>3. PICK x \in Xact : x = t.of
    BY <1>2
  <1>4. x \in Submitted /\ idOf[x] = i /\ Home(x) = n /\ Once(x) /\ x # None
    BY <1>2, <1>3, SubmittedFacts DEF Home, AtMostOnce
  <1>5. CASE Becomes(n, i, "stopped", t.of, t.xact, <<>>) /\ net' = net
    <2>1. GoodMsgs' /\ NoTwins' /\ NoNew
      BY <1>1, <1>5, BecomesFewer DEF Shorter
    <2>2. AtMostOnce'
      BY <1>1, <1>5, <2>1, BecomesPlain
    <2>3. QED
      BY <2>1, <2>2 DEF NoNew
  <1>6. CASE /\ Becomes(n, i, "send", x, t.xact, t.chan)
             /\ net' = net \cup {Message("Prepare", i, x, n, p, None) : p \in Others(n)}
    <2>1. Unsent(x)
      BY <1>1, <1>3, <1>4 DEF Unsent
    <2>2. /\ \A m \in Msg : Around(m) /\ m.of = x => m.type = "LocalXact"
          /\ \A p \in Node \ {n} : TaskAt(p, i).of # x /\ executed[p][x] = "none"
      BY <1>4, <2>1 DEF Once, SentOnce
    <2>3. \A m \in Msg : ~(Around(m) /\ m.of = x)
      BY <1>3, <1>4, <2>2 DEF Once, SentOnce
    <2>4. /\ TaskAt(n, i)'.at = "send" /\ TaskAt(n, i)'.of = x
          /\ \A p \in Node \ {n} : TaskAt(p, i)' = TaskAt(p, i)
          /\ \A p \in Node, j \in Id : TaskAt(p, j)'.chan = TaskAt(p, j).chan
      BY <1>1, <1>6 DEF Becomes
    <2>5. \A p \in Others(n) : GoodMsg(Message("Prepare", i, x, n, p, None))
      BY <1>2, <1>4 DEF GoodMsg, Message, Others
    <2>6. /\ GoodMsgs' /\ NoTwins'
          /\ \A m \in Msg : Around(m)' =>
               \/ Around(m)
               \/ /\ m.type = "Prepare" /\ m.id = i /\ m.of = x /\ m.from = n /\ m.reason = None
                  /\ m.to # n
      BY <1>1, <1>6, <2>3, <2>4, <2>5, SendMsgs
    <2>7. \A m \in Msg : Around(m)' /\ m.of = x => m.type = "Prepare" /\ m.to # n
      BY <2>3, <2>6
    <2>8. Home(x)' = n /\ idOf'[x] = i
      BY <1>1, <1>4 DEF Home
    <2>9. ~Unsent(x)'
      BY <2>4, <2>7, <2>8 DEF Unsent
    <2>10. SentOnce(x)'
      BY <2>9 DEF SentOnce, Unsent
    <2>11. ASSUME NEW p \in Node PROVE ExecutedOnce(x, p)'
      <3>1. CASE p = n
        BY <2>4, <2>7, <2>8, <3>1 DEF ExecutedOnce
      <3>2. CASE p # n
        BY <1>1, <2>2, <2>4, <2>8, <3>2 DEF ExecutedOnce
      <3>3. QED
        BY <3>1, <3>2
    <2>12. ASSUME NEW p \in Node PROVE VotedOnce(x, p)'
      <3>1. VotesOf(x, p)' = {}
        BY <2>7 DEF VotesOf
      <3>2. TaskAt(p, i)'.of # x \/ TaskAt(p, i)'.at # "existing"
        BY <2>2, <2>4
      <3>3. QED
        BY <2>8, <3>1, <3>2 DEF VotedOnce
    <2>13. Once(x)'
      BY <2>10, <2>11, <2>12 DEF Once
    <2>14. AtMostOnce'
      BY <1>1, <1>6, <2>6, <2>13, BecomesOnce
    <2>15. QED
      BY <2>6, <2>14
  <1>7. QED
    BY <1>1, <1>2, <1>3, <1>5, <1>6, SendPrepareFacts

\* The calls of a surrogate: it executed the transaction, and has not voted yet.
LEMMA SendVoteOnce ==
  ASSUME TypeOK, GoodMsgs, NoTwins, GoodTasks, AtMostOnce,
         NEW n \in Node, NEW i \in Ids(n), SendVote(n, i)
  PROVE  /\ GoodMsgs' /\ NoTwins' /\ AtMostOnce'
         /\ \A m \in Msg : Around(m)' =>
              \/ Around(m)
              \/ /\ m.type = "Vote" /\ m.of = tasks[n][i].of /\ m.from = n
                 /\ m.reason = S(n)!RollbackReason(tasks[n][i].xact)
  <1> DEFINE t == TaskAt(n, i)
  <1>1. /\ t = tasks[n][i] /\ i \in Id /\ t.xact.kind = "surrogate" /\ t.at = "existing"
        /\ tasks[n][i].xact.kind # "unknown"
        /\ UNCHANGED <<idOf, executed>>
    BY TaskFacts DEF SendVote, Initialized
  <1>2. GoodTask(n, i, t) /\ t.of \in Xact /\ t.of \in Submitted /\ idOf[t.of] = i /\ n # i[2]
    BY <1>1, OfFacts DEF GoodTask
  <1>3. PICK x \in Xact : x = t.of
    BY <1>2
  <1>4. /\ x \in Submitted /\ idOf[x] = i /\ Home(x) # n /\ Home(x) \in Node /\ Once(x)
        /\ x # None
    BY <1>2, <1>3, SubmittedFacts DEF Home, AtMostOnce
  <1>5. PICK r \in {None, Error} : r = S(n)!RollbackReason(t.xact)
    BY <1>1, <1>2, SendVoteFacts
  <1>6. /\ Becomes(n, i, "send", x, t.xact, t.chan)
        /\ net' = net \cup {Message("Vote", i, x, n, p, r) : p \in Others(n)}
    BY <1>1, <1>2, <1>3, <1>5, SendVoteFacts
  <1>7. executed[n][x] # "none" /\ VotesOf(x, n) = {}
    BY <1>1, <1>3, <1>4 DEF Once, VotedOnce
  <1>8. \A m \in Msg : Around(m) /\ m.of = x /\ m.from = n => m.type # "Vote"
    BY <1>7 DEF VotesOf
  <1>9. /\ TaskAt(n, i)'.at = "send" /\ TaskAt(n, i)'.of = x
        /\ \A p \in Node \ {n} : TaskAt(p, i)' = TaskAt(p, i)
        /\ \A p \in Node, j \in Id : TaskAt(p, j)'.chan = TaskAt(p, j).chan
    BY <1>1, <1>6 DEF Becomes
  <1>10. \A p \in Others(n) : GoodMsg(Message("Vote", i, x, n, p, r))
    BY <1>2, <1>4 DEF GoodMsg, Message, Others
  <1>11. /\ GoodMsgs' /\ NoTwins'
         /\ \A m \in Msg : Around(m)' =>
              \/ Around(m)
              \/ /\ m.type = "Vote" /\ m.id = i /\ m.of = x /\ m.from = n /\ m.reason = r
                 /\ m.to # n
    BY <1>1, <1>6, <1>8, <1>9, <1>10, SendMsgs
  <1>12. Home(x)' = Home(x) /\ idOf'[x] = i /\ TaskAt(Home(x), i)' = TaskAt(Home(x), i)
    BY <1>1, <1>4, <1>9 DEF Home
  <1>13. ~Unsent(x)
    BY <1>3, <1>4 DEF Once, SentOnce
  <1>14. ~Unsent(x)'
    BY <1>4, <1>11, <1>12, <1>13 DEF Unsent
  <1>15. SentOnce(x)'
    BY <1>14 DEF SentOnce, Unsent
  <1>16. ASSUME NEW p \in Node PROVE ExecutedOnce(x, p)'
    <2>1. ExecutedOnce(x, p)
      BY <1>4 DEF Once
    <2>2. TaskAt(p, i)'.of = TaskAt(p, i).of
          /\ (TaskAt(p, i)'.at = "execute" => TaskAt(p, i).at = "execute")
      BY <1>3, <1>9
    <2>3. QED
      BY <1>1, <1>4, <1>11, <1>12, <2>1, <2>2 DEF ExecutedOnce
  <1>17. ASSUME NEW p \in Node PROVE VotedOnce(x, p)'
    <2>1. VotedOnce(x, p)
      BY <1>4 DEF Once
    <2>2. CASE p = n
      BY <1>1, <1>7, <1>9, <1>12, <2>2 DEF VotedOnce
    <2>3. CASE p # n
      <3>1. VotesOf(x, p)' \subseteq VotesOf(x, p)
        BY <1>11, <2>3 DEF VotesOf
      <3>2. QED
        BY <1>1, <1>4, <1>9, <1>12, <2>1, <2>3, <3>1 DEF VotedOnce
    <2>4. QED
      BY <2>2, <2>3
  <1>18. Once(x)'
    BY <1>15, <1>16, <1>17 DEF Once
  <1>19. AtMostOnce'
    BY <1>1, <1>6, <1>11, <1>18, BecomesOnce
  <1>20. QED
    BY <1>1, <1>3, <1>5, <1>11, <1>19

\* A message that arrives takes no task back.
LEMMA GetsFollows ==
  ASSUME NEW n \in Node, NEW m \in Msg, Gets(n, m), NEW p \in Node, NEW j \in Id
  PROVE  /\ Follows(TaskAt(p, j), TaskAt(p, j)')
         /\ TaskAt(p, j)'.of = TaskAt(p, j).of /\ TaskAt(p, j)'.xact = TaskAt(p, j).xact
  BY DEF Gets, Follows

\* A message that is delivered moves to a channel, and stays one message.
LEMMA DeliverOnce ==
  ASSUME TypeOK, GoodMsgs, NoTwins, AtMostOnce, NEW m \in net, Deliver(m)
  PROVE  AtMostOnce'
  <1>1. NoNew /\ Gets(m.to, m) /\ m \in Msg /\ m.to \in Node
    BY DeliverMsgs, DeliverFacts
  <1>2. idOf' = idOf /\ executed' = executed
    BY DEF Deliver
  <1>3. \A p \in Node, j \in Id : Follows(TaskAt(p, j), TaskAt(p, j)')
    BY <1>1, GetsFollows
  <1>4. QED
    BY <1>1, <1>2, <1>3, PlainStep

\* Nothing of a new transaction is around but its LocalXact.
LEMMA SubmitOnce ==
  ASSUME TypeOK, IdleIsUnknown, GoodMsgs, NoTwins, GoodTasks, AtMostOnce,
         NEW n \in Node, NEW x \in Xact, NEW i \in Id, NEW m \in Msg, Numbers(n, x, i, m)
  PROVE  AtMostOnce'
  <1>1. /\ x \notin Submitted /\ idOf'[x] = i /\ Submitted' = Submitted \cup {x}
        /\ \A y \in Submitted : y # x /\ idOf'[y] = idOf[y] /\ Home(y)' = Home(y)
        /\ Home(x)' = n
    BY SubmitIds
  <1>2. /\ Gets(n, m) /\ m.type = "LocalXact" /\ m.of = x /\ executed' = executed
        /\ \A a \in Msg : Around(a)' => Around(a) \/ a = m
    BY SubmitMsgs DEF Numbers
  <1>3. ASSUME NEW y \in Submitted PROVE Once(y)'
    <2>1. y \in Xact /\ idOf[y] \in Id /\ Home(y) \in Node /\ Once(y) /\ idOf'[y] = idOf[y]
      BY <1>1, SubmittedFacts DEF AtMostOnce
    <2>2. \A a \in Msg : Around(a)' /\ a.of = y => Around(a)
      BY <1>1, <1>2
    <2>3. \A p \in Node : Follows(TaskAt(p, idOf[y]), TaskAt(p, idOf[y])')
      <3>1. PICK j \in Id : j = idOf[y]
        BY <2>1
      <3>2. \A p \in Node : Follows(TaskAt(p, j), TaskAt(p, j)')
        BY <1>2, GetsFollows
      <3>3. QED
        BY <2>1, <3>1, <3>2
    <2>4. QED
      BY <1>2, <2>1, <2>2, <2>3, PlainOnce
  <1>4. Once(x)'
    <2>1. \A a \in Msg : Around(a)' /\ a.of = x => a.type = "LocalXact"
      BY <1>1, <1>2, AroundGood
    <2>2. ASSUME NEW p \in Node PROVE TaskAt(p, i)'.of # x /\ executed'[p][x] = "none"
      <3>1. TaskAt(p, i)'.of = TaskAt(p, i).of
        BY <1>2, GetsFollows
      <3>2. GoodTask(p, i, TaskAt(p, i))
        BY DEF GoodTasks
      <3>3. TaskAt(p, i).of # x
        BY <1>1, <3>2, NoneFacts DEF GoodTask, GoodXact
      <3>4. QED
        BY <1>1, <1>2, <3>1, <3>3 DEF IdleIsUnknown
    <2>3. SentOnce(x)'
      BY <1>1, <2>1, <2>2 DEF SentOnce
    <2>4. ASSUME NEW p \in Node PROVE ExecutedOnce(x, p)' /\ VotedOnce(x, p)'
      <3>1. ExecutedOnce(x, p)'
        BY <1>1, <2>1, <2>2 DEF ExecutedOnce
      <3>2. VotesOf(x, p)' = {}
        BY <2>1 DEF VotesOf
      <3>3. VotedOnce(x, p)'
        BY <1>1, <2>2, <3>2 DEF VotedOnce
      <3>4. QED
        BY <3>1, <3>3
    <2>5. QED
      BY <2>3, <2>4 DEF Once
  <1>5. QED
    BY <1>1, <1>3, <1>4 DEF AtMostOnce

\* A server that restarts forgets its tasks.
LEMMA CrashRestartOnce ==
  ASSUME TypeOK, GoodMsgs, NoTwins, AtMostOnce, NEW n \in Node, CrashRestart(n)
  PROVE  AtMostOnce'
  <1>1. NoNew
    BY CrashRestartFewer
  <1>2. idOf' = idOf /\ executed' = executed
    BY DEF CrashRestart
  <1>3. ASSUME NEW p \in Node, NEW j \in Id
        PROVE  Follows(TaskAt(p, j), TaskAt(p, j)')
    <2>1. CASE p = n
      BY <2>1, CrashRestartFacts, NewTaskGood DEF Follows
    <2>2. CASE p # n
      BY <2>2, CrashRestartFacts DEF Follows
    <2>3. QED
      BY <2>1, <2>2
  <1>4. QED
    BY <1>1, <1>2, <1>3, PlainStep

\* A step of one task that sends nothing, by what becomes of its channel and state.
QuietStep(n, i) ==
  /\ net' \subseteq net /\ idOf' = idOf /\ executed' = executed
  /\ \E a, y, c : /\ Becomes(n, i, a, TaskAt(n, i).of, y, c)
                  /\ Shorter(c, TaskAt(n, i).chan)
                  /\ y.kind = TaskAt(n, i).xact.kind
                  /\ a \in {"execute", "existing"} => a = TaskAt(n, i).at

\* A step that sends, executes and starts nothing keeps all of At most once.
LEMMA QuietOnce ==
  ASSUME TypeOK, GoodMsgs, NoTwins, AtMostOnce, NEW n \in Node, NEW i \in Id, QuietStep(n, i)
  PROVE  GoodMsgs' /\ NoTwins' /\ NoNew /\ AtMostOnce'
  <1>1. PICK a, y, c : /\ Becomes(n, i, a, TaskAt(n, i).of, y, c)
                       /\ Shorter(c, TaskAt(n, i).chan)
                       /\ y.kind = TaskAt(n, i).xact.kind
                       /\ a \in {"execute", "existing"} => a = TaskAt(n, i).at
    BY DEF QuietStep
  <1>2. GoodMsgs' /\ NoTwins' /\ NoNew
    BY <1>1, BecomesFewer DEF QuietStep
  <1>3. AtMostOnce'
    BY <1>1, <1>2, BecomesPlain DEF QuietStep
  <1>4. QED
    BY <1>2, <1>3

\* Counting an early vote is such a step.
LEMMA AddExistingQuiet ==
  ASSUME TypeOK, NEW n \in Node, NEW i \in Ids(n), AddExisting(n, i)
  PROVE  QuietStep(n, i)
  <1> DEFINE t == tasks[n][i]
  <1>1. t = TaskAt(n, i) /\ t.xact \in S(n)!XactType /\ t.at = "existing" /\ t.xact.votes # <<>>
        /\ UNCHANGED <<net, idOf, executed>>
    BY TaskFacts DEF AddExisting
  <1>2. S(n)!AddExistingVote(t.xact).kind = t.xact.kind
    BY <1>1, AddExistingFacts DEF Counts
  <1>3. QED
    BY <1>1, <1>2, AddExistingFacts1 DEF QuietStep, Shorter

\* So is the return of the last call.
LEMMA SentQuiet ==
  ASSUME TypeOK, NEW n \in Node, NEW i \in Ids(n), Sent(n, i)
  PROVE  QuietStep(n, i)
  <1>1. tasks[n][i] = TaskAt(n, i) /\ UNCHANGED <<net, idOf, executed>>
    BY TaskFacts DEF Sent
  <1>2. QED
    BY <1>1, SentFacts DEF QuietStep, Shorter

\* So is handle_vote_msg.
LEMMA HandleVoteQuiet ==
  ASSUME TypeOK, NEW n \in Node, NEW i \in Ids(n), HandleVote(n, i)
  PROVE  QuietStep(n, i)
  <1> DEFINE t == tasks[n][i]
             v == S(n)!VoteOf(Head(t.chan).from, Head(t.chan).reason)
             y == IF t.xact.kind = "unknown" THEN S(n)!KeepVote(t.xact, v)
                                             ELSE S(n)!AddVote(t.xact, v)
  <1>1. t = TaskAt(n, i) /\ t.xact \in S(n)!XactType /\ UNCHANGED <<net, idOf, executed>>
    BY TaskFacts DEF HandleVote
  <1>2. v \in S(n)!Vote /\ t.chan # <<>>
    BY ReceivesFacts, VoteOfType DEF HandleVote, Msg
  <1> HIDE DEF v
  <1>3. y.kind = t.xact.kind
    <2>1. S(n)!KeepVote(t.xact, v).kind = t.xact.kind
      BY <1>1, <1>2, KeepFacts
    <2>2. S(n)!AddVote(t.xact, v).kind = t.xact.kind
      BY <1>1, <1>2, AddVoteFacts DEF Counts
    <2>3. QED
      BY <2>1, <2>2
  <1> HIDE DEF y
  <1>4. \/ Becomes(n, i, "recv", t.of, y, Tail(t.chan))
        \/ Becomes(n, i, "finish", t.of, y, Tail(t.chan))
        \/ Becomes(n, i, "stopped", t.of, t.xact, <<>>)
    BY HandleVoteFacts DEF y, v
  <1>5. Shorter(Tail(t.chan), t.chan) /\ Shorter(<<>>, t.chan)
    BY <1>2 DEF Shorter
  <1> HIDE DEF t
  <1>6. QED
    BY <1>1, <1>3, <1>4, <1>5 DEF QuietStep

\* So is try_finish at the coordinator.
LEMMA FinishLocalQuiet ==
  ASSUME TypeOK, GoodTasks, NEW n \in Node, NEW i \in Ids(n), FinishLocal(n, i)
  PROVE  QuietStep(n, i)
  <1>1. /\ tasks[n][i] = TaskAt(n, i) /\ UNCHANGED <<net, idOf, executed>>
        /\ tasks[n][i].xact \in S(n)!XactType /\ tasks[n][i].xact.kind = "local"
    BY TaskFacts DEF FinishLocal
  <1>2. S(n)!Finished(tasks[n][i].xact).kind = tasks[n][i].xact.kind
    BY <1>1, FinishedFacts
  <1>3. tasks[n][i].of \in Xact
    BY <1>1, OfFacts
  <1>4. QED
    BY <1>1, <1>2, <1>3, FinishLocalFacts DEF QuietStep, Shorter

\* So is try_finish at a surrogate.
LEMMA FinishSurrogateQuiet ==
  ASSUME TypeOK, NEW n \in Node, NEW i \in Ids(n), FinishSurrogate(n, i)
  PROVE  QuietStep(n, i)
  <1>1. /\ tasks[n][i] = TaskAt(n, i) /\ UNCHANGED <<net, idOf, executed>>
        /\ tasks[n][i].xact \in S(n)!XactType
    BY TaskFacts DEF FinishSurrogate
  <1>2. S(n)!Finished(tasks[n][i].xact).kind = tasks[n][i].xact.kind
    BY <1>1, FinishedFacts
  <1>3. QED
    BY <1>1, <1>2, FinishSurrogateFacts DEF QuietStep, Shorter

\* So is a failed call.
LEMMA RpcErrorQuiet ==
  ASSUME TypeOK, NEW n \in Node, NEW i \in Ids(n), RpcError(n, i)
  PROVE  QuietStep(n, i)
  <1>1. tasks[n][i] = TaskAt(n, i) /\ idOf' = idOf /\ executed' = executed
    BY TaskFacts DEF RpcError
  <1>2. QED
    BY <1>1, RpcErrorFacts DEF QuietStep, Shorter

----------------------------------------------------------------------------
(* What is kept under an id that is one transaction's own is true.         *)

\* Executions of x return once.
Grows(x) == \A p \in Node : executed'[p][x] = executed[p][x] \/ executed[p][x] = "none"

\* What was true of the executions stays true.
LEMMA TrueStays ==
  ASSUME NEW x \in Submitted, idOf'[x] = idOf[x], Grows(x)
  PROVE  /\ SomeError(x) => SomeError(x)'
         /\ AllOk(x) => AllOk(x)'
         /\ \A p \in Node, r \in {None, Error} : TrueVote(x, p, r) => TrueVote(x, p, r)'
         /\ \A n \in Node : \A y \in S(n)!XactType : TrueState(x, y) => TrueState(x, y)'
  <1>0. Home(x)' = Home(x)
    BY DEF Home
  <1>1. \A p \in Node : /\ executed[p][x] = "ok" => executed'[p][x] = "ok"
                        /\ executed[p][x] = "error" => executed'[p][x] = "error"
    BY DEF Grows
  <1>2. SomeError(x) => SomeError(x)'
    BY <1>0, <1>1 DEF SomeError
  <1>3. AllOk(x) => AllOk(x)'
    BY <1>0, <1>1 DEF AllOk
  <1>4. \A p \in Node, r \in {None, Error} : TrueVote(x, p, r) => TrueVote(x, p, r)'
    BY <1>1, <1>2 DEF TrueVote
  <1>5. ASSUME NEW n \in Node, NEW y \in S(n)!XactType, TrueState(x, y)
        PROVE  TrueState(x, y)'
    <2>1. y.votes \in Seq(S(n)!Vote) /\ y.voted \subseteq Node
      BY DEF S!XactType
    <2>2. \A k \in 1..Len(y.votes) : y.votes[k] \in S(n)!Vote
      BY <2>1
    <2>3. \A k \in 1..Len(y.votes) : y.votes[k].from \in Node /\ y.votes[k].reason \in {None, Error}
      BY <2>2 DEF S!Vote
    <2>4. \A k \in 1..Len(y.votes) : TrueVote(x, y.votes[k].from, y.votes[k].reason)'
      BY <1>4, <1>5, <2>3 DEF TrueState
    <2>5. QED
      BY <1>0, <1>1, <1>2, <1>5, <2>1, <2>4 DEF TrueState
  <1>6. QED
    BY <1>2, <1>3, <1>4, <1>5

\* A step of one task, by what it adds.
LEMMA TruthStep ==
  ASSUME TypeOK, GoodMsgs, Truth, idOf' = idOf,
         NEW n \in Node, NEW i \in Id, NEW a, NEW o, NEW y, NEW c, Becomes(n, i, a, o, y, c),
         \A x \in Submitted : Sole(x) /\ TrueAbout(x) =>
           /\ Grows(x) /\ TrueOutcome(x)'
           /\ idOf[x] = i => TrueState(x, y)'
           /\ \A m \in Msg : Around(m)' /\ m.of = x /\ m.type = "Vote" =>
                Around(m) \/ TrueVote(x, m.from, m.reason)'
  PROVE  Truth'
  <1>1. Submitted' = Submitted
    BY DEF Submitted
  <1>2. ASSUME NEW x \in Submitted, Sole(x)' PROVE TrueAbout(x)'
    <2>1. Sole(x) /\ TrueAbout(x)
      BY <1>1, <1>2 DEF Sole, Truth
    <2>2. /\ Grows(x) /\ TrueOutcome(x)'
          /\ idOf[x] = i => TrueState(x, y)'
          /\ \A m \in Msg : Around(m)' /\ m.of = x /\ m.type = "Vote" =>
               Around(m) \/ TrueVote(x, m.from, m.reason)'
      BY <2>1
    <2>3. PICK j \in Id : j = idOf[x]
      BY SubmittedFacts
    <2>4. ASSUME NEW m \in Msg, Around(m)', m.of = x, m.type = "Vote"
          PROVE  TrueVote(x, m.from, m.reason)'
      <3>1. CASE Around(m)
        <4>1. TrueVote(x, m.from, m.reason) /\ m.from \in Node /\ m.reason \in {None, Error}
          BY <2>1, <2>4, <3>1 DEF TrueAbout, Msg
        <4>2. QED
          BY <2>2, <4>1, TrueStays
      <3>2. QED
        BY <2>2, <2>4, <3>1
    <2>5. ASSUME NEW p \in Node PROVE TrueState(x, TaskAt(p, j).xact)'
      <3>1. CASE p = n /\ j = i
        BY <2>2, <2>3, <3>1 DEF Becomes
      <3>2. CASE p # n \/ j # i
        <4>1. TaskAt(p, j)'.xact = TaskAt(p, j).xact
          BY <3>2 DEF Becomes
        <4>2. PICK z \in S(p)!XactType : z = TaskAt(p, j).xact
          BY TaskAtType
        <4>3. TrueState(x, z)
          BY <2>1, <2>3, <4>2 DEF TrueAbout
        <4>4. TrueState(x, z)'
          BY <2>2, <4>3, TrueStays
        <4>5. QED
          BY <4>1, <4>2, <4>4
      <3>3. QED
        BY <3>1, <3>2
    <2>6. QED
      BY <2>2, <2>3, <2>4, <2>5 DEF TrueAbout
  <1>3. QED
    BY <1>1, <1>2 DEF Truth

\* Clients only get errors, and no PostgreSQL ends anything.
LEMMA QuietOutcome ==
  ASSUME TypeOK, ClientQuiet, NEW x \in Submitted, idOf'[x] = idOf[x], TrueOutcome(x),
         UNCHANGED <<executed, outcome, prepared>>
  PROVE  TrueOutcome(x)'
  <1>1. Grows(x)
    BY DEF Grows
  <1>2. x \in Xact /\ (client'[x] = client[x] \/ client'[x] = "error")
    BY SubmittedFacts DEF ClientQuiet
  <1>3. (Committed(x)' => Committed(x)) /\ (Aborted(x)' => Aborted(x))
    BY <1>2 DEF Committed, Aborted
  <1>4. (AllOk(x) => AllOk(x)') /\ (SomeError(x) => SomeError(x)')
    BY <1>1, TrueStays
  <1>5. QED
    BY <1>3, <1>4 DEF TrueOutcome

\* A step of one task that votes, executes and ends nothing.
LEMMA QuietTruth ==
  ASSUME TypeOK, GoodMsgs, Truth, ClientQuiet,
         \A m \in Msg : Around(m)' /\ m.type = "Vote" => Around(m),
         UNCHANGED <<idOf, executed, outcome, prepared>>,
         NEW n \in Node, NEW i \in Id, NEW a, NEW o, NEW y, NEW c, Becomes(n, i, a, o, y, c),
         y \in S(n)!XactType,
         \A x \in Submitted : Sole(x) /\ TrueAbout(x) /\ idOf[x] = i => TrueState(x, y)
  PROVE  Truth'
  <1>1. ASSUME NEW x \in Submitted, Sole(x), TrueAbout(x)
        PROVE  /\ Grows(x) /\ TrueOutcome(x)'
               /\ idOf[x] = i => TrueState(x, y)'
               /\ \A m \in Msg : Around(m)' /\ m.of = x /\ m.type = "Vote" =>
                    Around(m) \/ TrueVote(x, m.from, m.reason)'
    <2>1. Grows(x)
      BY DEF Grows
    <2>2. TrueOutcome(x)'
      BY <1>1, QuietOutcome DEF TrueAbout
    <2>3. idOf[x] = i => TrueState(x, y)'
      BY <1>1, <2>1, TrueStays
    <2>4. QED
      BY <2>1, <2>2, <2>3
  <1>2. QED
    BY <1>1, TruthStep

\* One that leaves its transaction's state alone.
LEMMA SameTruth ==
  ASSUME TypeOK, GoodMsgs, Truth, ClientQuiet,
         \A m \in Msg : Around(m)' /\ m.type = "Vote" => Around(m),
         UNCHANGED <<idOf, executed, outcome, prepared>>,
         NEW n \in Node, NEW i \in Id, NEW a, NEW o, NEW c,
         Becomes(n, i, a, o, TaskAt(n, i).xact, c)
  PROVE  Truth'
  <1>1. PICK y \in S(n)!XactType : y = TaskAt(n, i).xact
    BY TaskAtType
  <1>2. Becomes(n, i, a, o, y, c)
    BY <1>1
  <1>3. \A x \in Submitted : Sole(x) /\ TrueAbout(x) /\ idOf[x] = i => TrueState(x, y)
    BY <1>1 DEF TrueAbout
  <1>4. QED
    BY <1>2, <1>3, QuietTruth

\* The coordinator's own vote is the only one that is not of an execution.
LEMMA InitTruth ==
  ASSUME NEW n \in Node, NEW z \in S(n)!XactType, NEW x \in Submitted, Home(x) \in Node,
         TrueState(x, z),
         NEW y \in {S(Home(x))!InitAsLocal(z), S(Home(x))!InitAsSurrogate(z)}
  PROVE  TrueState(x, y)
  <1>1. /\ y.votes = z.votes /\ y.status \in {"Waiting", "Committing"}
        /\ \A p \in y.voted : p \in z.voted \/ p = Home(x)
    BY InitFacts
  <1>2. QED
    BY <1>1 DEF TrueState

\* The coordinator starts from the early votes, which are true.
LEMMA HandleLocalXactTruth ==
  ASSUME TypeOK, GoodMsgs, NoTwins, GoodTasks, Truth,
         NEW n \in Node, NEW i \in Ids(n), HandleLocalXact(n, i)
  PROVE  Truth'
  <1> DEFINE t == TaskAt(n, i)
  <1>1. /\ t = tasks[n][i] /\ i \in Id /\ t.xact \in S(n)!XactType /\ t.chan # <<>>
        /\ UNCHANGED <<net, idOf, executed, outcome, prepared>>
    BY TaskFacts, ReceivesFacts DEF HandleLocalXact
  <1>2. n = i[2]
    <2>1. 1 \in 1..Len(t.chan) /\ Head(t.chan) = t.chan[1] /\ Head(t.chan).type = "LocalXact"
      BY <1>1, ReceivesFacts DEF HandleLocalXact
    <2>2. GoodMsg(Head(t.chan)) /\ Head(t.chan).to = n /\ Head(t.chan).id = i
      BY <1>1, <2>1, InChanAround
    <2>3. QED
      BY <2>1, <2>2 DEF GoodMsg
  <1>3. ClientQuiet
    BY HandleLocalXactFacts
  <1>4. CASE Becomes(n, i, "stopped", t.of, t.xact, <<>>)
    <2>1. NoNew
      BY <1>1, <1>4, BecomesFewer DEF Shorter
    <2>2. QED
      BY <1>1, <1>3, <1>4, <2>1, SameTruth DEF NoNew
  <1>5. CASE Becomes(n, i, "existing", Head(t.chan).of, S(n)!InitAsLocal(t.xact), Tail(t.chan))
    <2>1. NoNew
      BY <1>1, <1>5, BecomesFewer DEF Shorter
    <2>2. PICK y \in S(n)!XactType : y = S(n)!InitAsLocal(t.xact)
      BY <1>1, InitFacts
    <2>3. ASSUME NEW x \in Submitted, TrueAbout(x), idOf[x] = i
          PROVE  TrueState(x, y)
      <3>1. Home(x) = n /\ TrueState(x, t.xact)
        BY <1>2, <2>3 DEF Home, TrueAbout
      <3>2. QED
        BY <1>1, <2>2, <3>1, InitTruth
    <2>4. QED
      BY <1>1, <1>3, <1>5, <2>1, <2>2, <2>3, QuietTruth DEF NoNew
  <1>6. QED
    BY <1>1, <1>4, <1>5, HandleLocalXactFacts

\* So does a surrogate, with the coordinator's yes counted.
LEMMA HandlePrepareTruth ==
  ASSUME TypeOK, GoodMsgs, NoTwins, GoodTasks, Truth,
         NEW n \in Node, NEW i \in Ids(n), HandlePrepare(n, i)
  PROVE  Truth'
  <1> DEFINE t == TaskAt(n, i)
             f == Head(t.chan).from
  <1>1. /\ t = tasks[n][i] /\ i \in Id /\ t.xact \in S(n)!XactType /\ t.chan # <<>>
        /\ UNCHANGED <<net, idOf, executed, outcome, prepared>>
    BY TaskFacts, ReceivesFacts DEF HandlePrepare
  <1>2. f = i[2] /\ f \in Node
    <2>1. 1 \in 1..Len(t.chan) /\ Head(t.chan) = t.chan[1] /\ Head(t.chan).type = "Prepare"
      BY <1>1, ReceivesFacts DEF HandlePrepare
    <2>2. /\ GoodMsg(Head(t.chan)) /\ Head(t.chan).to = n /\ Head(t.chan).id = i
          /\ Head(t.chan) \in Msg
      BY <1>1, <2>1, InChanAround
    <2>3. QED
      BY <2>1, <2>2 DEF GoodMsg, Msg
  <1>3. ClientQuiet
    BY HandlePrepareFacts
  <1>4. CASE Becomes(n, i, "stopped", t.of, t.xact, <<>>)
    <2>1. NoNew
      BY <1>1, <1>4, BecomesFewer DEF Shorter
    <2>2. QED
      BY <1>1, <1>3, <1>4, <2>1, SameTruth DEF NoNew
  <1>5. CASE Becomes(n, i, "execute", Head(t.chan).of, S(f)!InitAsSurrogate(t.xact), Tail(t.chan))
    <2>1. NoNew
      BY <1>1, <1>5, BecomesFewer DEF Shorter
    <2>2. PICK y \in S(n)!XactType : y = S(f)!InitAsSurrogate(t.xact)
      BY <1>1, <1>2, InitFacts
    <2>3. ASSUME NEW x \in Submitted, TrueAbout(x), idOf[x] = i
          PROVE  TrueState(x, y)
      <3>1. Home(x) = f /\ TrueState(x, t.xact)
        BY <1>2, <2>3 DEF Home, TrueAbout
      <3> HIDE DEF f
      <3>2. QED
        BY <1>1, <1>2, <2>2, <3>1, InitTruth
    <2>4. QED
      BY <1>1, <1>3, <1>5, <2>1, <2>2, <2>3, QuietTruth DEF NoNew
  <1>6. QED
    BY <1>1, <1>4, <1>5, HandlePrepareFacts

\* A true vote that is counted leaves a true state.
LEMMA CountsTruth ==
  ASSUME NEW n \in Node, NEW z \in S(n)!XactType, NEW y \in S(n)!XactType, NEW v \in S(n)!Vote,
         NEW x \in Submitted, TrueState(x, z), TrueVote(x, v.from, v.reason), Counts(z, v, y),
         \A k \in 1..Len(y.votes) : \E j \in 1..Len(z.votes) : y.votes[k] = z.votes[j]
  PROVE  TrueState(x, y)
  <1>1. \A k \in 1..Len(y.votes) : TrueVote(x, y.votes[k].from, y.votes[k].reason)
    BY DEF TrueState
  <1>2. \A p \in y.voted : p = Home(x) \/ executed[p][x] = "ok"
    BY DEF TrueState, TrueVote, Counts
  <1>3. y.status \in {"Rollbacking", "Rollbacked"} => SomeError(x)
    BY DEF TrueState, TrueVote, Counts
  <1>4. QED
    BY <1>1, <1>2, <1>3 DEF TrueState

\* Counting a true vote leaves a true state.
LEMMA AddExistingTruth ==
  ASSUME TypeOK, GoodMsgs, NoTwins, AtMostOnce, Truth,
         NEW n \in Node, NEW i \in Ids(n), AddExisting(n, i)
  PROVE  Truth'
  <1> DEFINE t == TaskAt(n, i)
  <1>1. /\ t = tasks[n][i] /\ i \in Id /\ t.xact \in S(n)!XactType /\ t.xact.votes # <<>>
        /\ UNCHANGED <<idOf, executed, outcome, prepared>>
    BY TaskFacts DEF AddExisting
  <1>2. ClientQuiet
    BY AddExistingFacts1
  <1>3. NoNew
    BY <1>1, AddExistingQuiet, QuietOnce
  <1>4. CASE Becomes(n, i, "stopped", t.of, t.xact, <<>>)
    BY <1>1, <1>2, <1>3, <1>4, SameTruth DEF NoNew
  <1>5. CASE Becomes(n, i, "existing", t.of, S(n)!AddExistingVote(t.xact), t.chan)
    <2>1. PICK z \in S(n)!XactType : z = t.xact
      BY <1>1
    <2>2. PICK y \in S(n)!XactType : y = S(n)!AddExistingVote(z)
      BY <1>1, <2>1, AddExistingFacts
    <2>3. PICK v \in S(n)!Vote : v = Head(z.votes)
      BY <1>1, <2>1, AddExistingFacts
    <2>4. y.votes = Tail(z.votes) /\ v = z.votes[1] /\ Counts(z, v, y)
      BY <1>1, <2>1, <2>2, <2>3, AddExistingFacts
    <2>5. /\ 1 \in 1..Len(z.votes)
          /\ \A k \in 1..Len(y.votes) : \E j \in 1..Len(z.votes) : y.votes[k] = z.votes[j]
      <3>1. z.votes \in Seq(S(n)!Vote) /\ z.votes # <<>>
        BY <1>1, <2>1 DEF S!XactType
      <3> DEFINE s == z.votes
      <3> HIDE DEF s
      <3>2. s \in Seq(S(n)!Vote) /\ s # <<>>
        BY <3>1 DEF s
      <3>3. /\ 1 \in 1..Len(s) /\ Len(Tail(s)) = Len(s) - 1 /\ Len(s) \in Nat
            /\ \A k \in 1..Len(Tail(s)) : Tail(s)[k] = s[k + 1]
        BY <3>2
      <3>4. \A k \in 1..Len(Tail(s)) : k + 1 \in 1..Len(s)
        BY <3>3
      <3>5. QED
        BY <2>4, <3>3, <3>4 DEF s
    <2>6. ASSUME NEW x \in Submitted, TrueAbout(x), idOf[x] = i
          PROVE  TrueState(x, y)
      <3>1. TrueState(x, z)
        BY <2>1, <2>6 DEF TrueAbout
      <3>2. TrueVote(x, v.from, v.reason)
        BY <2>4, <2>5, <3>1 DEF TrueState
      <3>3. QED
        BY <2>4, <2>5, <3>1, <3>2, CountsTruth
    <2>7. QED
      BY <1>1, <1>2, <1>3, <1>5, <2>1, <2>2, <2>6, QuietTruth DEF NoNew
  <1>6. QED
    BY <1>1, <1>4, <1>5, AddExistingFacts1

\* The return of a call leaves what a task knows.
LEMMA SentTruth ==
  ASSUME TypeOK, GoodMsgs, NoTwins, AtMostOnce, Truth,
         NEW n \in Node, NEW i \in Ids(n), Sent(n, i)
  PROVE  Truth'
  <1> DEFINE t == TaskAt(n, i)
  <1>1. t = tasks[n][i] /\ i \in Id /\ UNCHANGED <<idOf, executed, outcome, prepared, client>>
    BY TaskFacts DEF Sent
  <1>2. ClientQuiet
    BY <1>1, SameClient
  <1>3. NoNew
    BY <1>1, SentQuiet, QuietOnce
  <1>4. QED
    BY <1>1, <1>2, <1>3, SentFacts, SameTruth DEF NoNew

\* A failed call leaves what tasks know, and tells a client nothing but an error.
LEMMA RpcErrorTruth ==
  ASSUME TypeOK, GoodMsgs, NoTwins, AtMostOnce, Truth,
         NEW n \in Node, NEW i \in Ids(n), RpcError(n, i)
  PROVE  Truth'
  <1> DEFINE t == TaskAt(n, i)
  <1>1. t = tasks[n][i] /\ i \in Id /\ UNCHANGED <<idOf, executed, outcome, prepared>>
    BY TaskFacts DEF RpcError
  <1>2. NoNew
    BY <1>1, RpcErrorQuiet, QuietOnce
  <1>3. QED
    BY <1>1, <1>2, RpcErrorFacts, SameTruth DEF NoNew

\* Sending a Prepare casts no vote.
LEMMA SendPrepareTruth ==
  ASSUME TypeOK, GoodMsgs, NoTwins, GoodTasks, AtMostOnce, Truth,
         NEW n \in Node, NEW i \in Ids(n), SendPrepare(n, i)
  PROVE  Truth'
  <1> DEFINE t == TaskAt(n, i)
  <1>1. /\ t = tasks[n][i] /\ i \in Id /\ UNCHANGED <<idOf, executed, outcome, prepared>>
        /\ tasks[n][i].xact.kind # "unknown"
    BY TaskFacts DEF SendPrepare, Initialized
  <1>2. tasks[n][i].of \in Xact
    BY <1>1, OfFacts
  <1>3. \A m \in Msg : Around(m)' /\ m.type = "Vote" => Around(m)
    BY SendPrepareOnce
  <1>4. QED
    BY <1>1, <1>2, <1>3, SendPrepareFacts, SameTruth

\* The vote of another node, which is of this transaction as the id is its own.
LEMMA HandleVoteTruth ==
  ASSUME TypeOK, GoodMsgs, NoTwins, GoodTasks, AtMostOnce, Truth,
         NEW n \in Node, NEW i \in Ids(n), HandleVote(n, i)
  PROVE  Truth'
  <1> DEFINE t == TaskAt(n, i)
  <1>1. /\ t = tasks[n][i] /\ i \in Id /\ t.xact \in S(n)!XactType /\ t.chan # <<>>
        /\ UNCHANGED <<idOf, executed, outcome, prepared>>
    BY TaskFacts, ReceivesFacts DEF HandleVote
  <1>2. PICK m \in Msg : m = Head(t.chan) /\ m.type = "Vote" /\ Around(m) /\ m.id = i
    <2>1. 1 \in 1..Len(t.chan) /\ Head(t.chan) = t.chan[1] /\ Head(t.chan).type = "Vote"
      BY <1>1, ReceivesFacts DEF HandleVote
    <2>2. QED
      BY <1>1, <2>1, InChanAround
  <1>3. m.of \in Submitted /\ idOf[m.of] = i /\ m.from \in Node /\ m.reason \in {None, Error}
    BY <1>2, AroundGood DEF GoodMsg, Msg
  <1>4. PICK v \in S(n)!Vote : /\ v = S(n)!VoteOf(m.from, m.reason)
                               /\ v.from = m.from /\ v.reason = m.reason
    BY <1>3, VoteOfType
  <1>5. PICK z \in S(n)!XactType : z = t.xact
    BY <1>1
  <1>6. PICK y \in S(n)!XactType : y = IF z.kind = "unknown" THEN S(n)!KeepVote(z, v)
                                                            ELSE S(n)!AddVote(z, v)
    BY KeepFacts, AddVoteFacts
  <1>7. ClientQuiet
    BY HandleVoteFacts
  <1>8. NoNew
    BY <1>1, HandleVoteQuiet, QuietOnce
  <1>9. ASSUME NEW x \in Submitted, Sole(x), TrueAbout(x), idOf[x] = i
        PROVE  TrueState(x, y)
    <2>1. m.of = x
      BY <1>3, <1>9 DEF Sole
    <2>2. TrueState(x, z) /\ TrueVote(x, v.from, v.reason)
      BY <1>2, <1>4, <1>5, <1>9, <2>1 DEF TrueAbout
    <2>3. CASE z.kind = "unknown"
      <3>1. /\ y.status = z.status /\ y.voted = z.voted
            /\ \A k \in 1..Len(y.votes) :
                 y.votes[k] = v \/ \E j \in 1..Len(z.votes) : y.votes[k] = z.votes[j]
        BY <1>6, <2>3, KeepFacts
      <3>2. \A k \in 1..Len(y.votes) : TrueVote(x, y.votes[k].from, y.votes[k].reason)
        BY <2>2, <3>1 DEF TrueState
      <3>3. QED
        BY <2>2, <3>1, <3>2 DEF TrueState
    <2>4. CASE z.kind # "unknown"
      <3>1. y.votes = z.votes /\ Counts(z, v, y)
        BY <1>6, <2>4, AddVoteFacts
      <3>2. QED
        BY <2>2, <3>1, CountsTruth
    <2>5. QED
      BY <2>3, <2>4
  <1>10. \/ Becomes(n, i, "recv", t.of, y, Tail(t.chan))
         \/ Becomes(n, i, "finish", t.of, y, Tail(t.chan))
         \/ Becomes(n, i, "stopped", t.of, t.xact, <<>>)
    BY <1>1, <1>2, <1>4, <1>5, <1>6, HandleVoteFacts
  <1>11. CASE Becomes(n, i, "stopped", t.of, t.xact, <<>>)
    BY <1>1, <1>7, <1>8, <1>11, SameTruth DEF NoNew
  <1>12. CASE \/ Becomes(n, i, "recv", t.of, y, Tail(t.chan))
              \/ Becomes(n, i, "finish", t.of, y, Tail(t.chan))
    BY <1>1, <1>7, <1>8, <1>9, <1>12, QuietTruth DEF NoNew
  <1>13. QED
    BY <1>10, <1>11, <1>12

\* A surrogate votes yes only if it executed the transaction, and no only if
\* some surrogate could not.
LEMMA SendVoteTruth ==
  ASSUME TypeOK, GoodMsgs, NoTwins, GoodTasks, AtMostOnce, Truth,
         NEW n \in Node, NEW i \in Ids(n), SendVote(n, i)
  PROVE  Truth'
  <1> DEFINE t == TaskAt(n, i)
  <1>1. /\ t = tasks[n][i] /\ i \in Id /\ UNCHANGED <<idOf, executed, outcome, prepared, client>>
        /\ t.at = "existing" /\ t.xact.kind = "surrogate" /\ t.xact.votes = <<>>
        /\ tasks[n][i].xact.kind # "unknown"
    BY TaskFacts DEF SendVote, Initialized
  <1>2. /\ t.of \in Xact /\ t.of \in Submitted /\ idOf[t.of] = i /\ GoodTask(n, i, t)
        /\ n # i[2]
    BY <1>1, OfFacts DEF GoodTask
  <1>3. PICK z \in S(n)!XactType : z = t.xact
    BY <1>1, TaskAtType
  <1>4. PICK r \in {None, Error} : r = S(n)!RollbackReason(z)
    BY <1>1, <1>2, <1>3, SendVoteFacts
  <1>5. /\ Becomes(n, i, "send", t.of, z, t.chan)
        /\ \A m \in Msg : Around(m)' =>
             Around(m) \/ (m.type = "Vote" /\ m.of = t.of /\ m.from = n /\ m.reason = r)
    BY <1>1, <1>2, <1>3, <1>4, SendVoteFacts, SendVoteOnce
  <1>6. /\ z.status = "Rollbacking" \/ n \in z.voted
        /\ z.status = "Rollbacking" => z.info.reason # None
    BY <1>1, <1>2, <1>3 DEF GoodTask, GoodXact
  <1>7. ClientQuiet
    BY <1>1, SameClient
  <1>8. ASSUME NEW x \in Submitted, Sole(x), TrueAbout(x)
        PROVE  /\ Grows(x) /\ TrueOutcome(x)'
               /\ idOf[x] = i => TrueState(x, z)'
               /\ \A m \in Msg : Around(m)' /\ m.of = x /\ m.type = "Vote" =>
                    Around(m) \/ TrueVote(x, m.from, m.reason)'
    <2>1. Grows(x) /\ idOf'[x] = idOf[x]
      BY <1>1 DEF Grows
    <2>2. TrueOutcome(x)'
      BY <1>1, <1>7, <1>8, QuietOutcome DEF TrueAbout
    <2>3. idOf[x] = i => TrueState(x, z)
      BY <1>3, <1>8 DEF TrueAbout
    <2>4. idOf[x] = i => TrueState(x, z)'
      BY <2>1, <2>3, TrueStays
    <2>5. ASSUME NEW m \in Msg, Around(m)', m.of = x, m.type = "Vote", ~Around(m)
          PROVE  TrueVote(x, m.from, m.reason)'
      <3>1. t.of = x /\ m.from = n /\ m.reason = r
        BY <1>5, <2>5
      <3>2. TrueState(x, z) /\ Home(x) # n
        BY <1>2, <2>3, <3>1 DEF Home
      <3>3. r # None => z.status = "Rollbacking"
        BY <1>4 DEF S!RollbackReason
      <3>4. r = None => n \in z.voted
        BY <1>4, <1>6 DEF S!RollbackReason
      <3>5. TrueVote(x, n, r)
        BY <3>2, <3>3, <3>4 DEF TrueState, TrueVote
      <3>6. TrueVote(x, n, r)'
        BY <2>1, <3>5, TrueStays
      <3>7. QED
        BY <3>1, <3>6
    <2>6. QED
      BY <2>1, <2>2, <2>4, <2>5
  <1>9. QED
    BY <1>1, <1>5, <1>8, TruthStep

\* Tasks of a new transaction know nothing.
LEMMA NewTruth ==
  ASSUME NEW n \in Node, NEW x
  PROVE  TrueState(x, S(n)!Unknown)
  <1>1. /\ S(n)!Unknown.votes = <<>> /\ S(n)!Unknown.voted = {}
        /\ S(n)!Unknown.status = "Uninitialized"
    BY UnknownFacts
  <1>2. 1..Len(S(n)!Unknown.votes) = {}
    BY <1>1
  <1>3. QED
    BY <1>1, <1>2 DEF TrueState

\* Steps of no task: each state is as it was, or as that of a new task.
LEMMA StatesTruth ==
  ASSUME TypeOK, NEW x \in Submitted, TrueAbout(x), idOf'[x] = idOf[x],
         UNCHANGED <<executed, outcome, prepared>>, client'[x] \in {client[x], "error"},
         \A m \in Msg : Around(m)' /\ m.of = x /\ m.type = "Vote" => Around(m),
         \A p \in Node, j \in Id : TaskAt(p, j)'.xact \in {TaskAt(p, j).xact, S(p)!Unknown}
  PROVE  TrueAbout(x)'
  <1>1. Grows(x)
    BY DEF Grows
  <1>2. PICK j \in Id : j = idOf[x]
    BY SubmittedFacts
  <1>3. ASSUME NEW m \in Msg, Around(m)', m.of = x, m.type = "Vote"
        PROVE  TrueVote(x, m.from, m.reason)'
    <2>1. TrueVote(x, m.from, m.reason) /\ m.from \in Node /\ m.reason \in {None, Error}
      BY <1>3 DEF TrueAbout, Msg
    <2>2. QED
      BY <1>1, <2>1, TrueStays
  <1>4. ASSUME NEW p \in Node PROVE TrueState(x, TaskAt(p, j).xact)'
    <2>1. PICK z \in S(p)!XactType : z = TaskAt(p, j)'.xact
      BY TaskAtType, UnknownFacts
    <2>2. TrueState(x, z)
      BY <1>2, <2>1, NewTruth DEF TrueAbout
    <2>3. TrueState(x, z)'
      BY <1>1, <2>2, TrueStays
    <2>4. QED
      BY <2>1, <2>3
  <1>5. TrueOutcome(x)'
    <2>1. TrueOutcome(x)
      BY DEF TrueAbout
    <2>2. (Committed(x)' => Committed(x)) /\ (Aborted(x)' => Aborted(x))
      BY DEF Committed, Aborted
    <2>3. (AllOk(x) => AllOk(x)') /\ (SomeError(x) => SomeError(x)')
      BY <1>1, TrueStays
    <2>4. QED
      BY <2>1, <2>2, <2>3 DEF TrueOutcome
  <1>6. QED
    BY <1>2, <1>3, <1>4, <1>5 DEF TrueAbout

\* Delivering a message leaves what tasks know.
LEMMA DeliverTruth ==
  ASSUME TypeOK, GoodMsgs, NoTwins, Truth, NEW m \in net, Deliver(m)
  PROVE  Truth'
  <1>1. NoNew /\ Gets(m.to, m) /\ m \in Msg /\ m.to \in Node
    BY DeliverMsgs, DeliverFacts
  <1>2. Submitted' = Submitted /\ UNCHANGED <<idOf, executed, outcome, prepared, client>>
    BY DEF Deliver, Submitted
  <1>3. \A p \in Node, j \in Id : TaskAt(p, j)'.xact = TaskAt(p, j).xact
    BY <1>1, GetsFollows
  <1>4. \A x \in Submitted : TrueAbout(x) => TrueAbout(x)'
    BY <1>1, <1>2, <1>3, StatesTruth DEF NoNew
  <1>5. QED
    BY <1>2, <1>4 DEF Truth, Sole

\* What is left after a restart is still true; a forgotten task claims nothing.
LEMMA CrashRestartTruth ==
  ASSUME TypeOK, GoodMsgs, NoTwins, Truth, NEW n \in Node, CrashRestart(n)
  PROVE  Truth'
  <1>1. NoNew
    BY CrashRestartFewer
  <1>2. Submitted' = Submitted /\ UNCHANGED <<idOf, executed, outcome, prepared>>
    BY DEF CrashRestart, Submitted
  <1>3. \A x \in Submitted : client'[x] \in {client[x], "error"}
    BY CrashRestartFacts, SubmittedFacts DEF ClientQuiet
  <1>4. ASSUME NEW p \in Node, NEW j \in Id
        PROVE  TaskAt(p, j)'.xact \in {TaskAt(p, j).xact, S(p)!Unknown}
    <2>1. CASE p = n
      BY <2>1, CrashRestartFacts, NewTaskGood
    <2>2. CASE p # n
      BY <2>2, CrashRestartFacts
    <2>3. QED
      BY <2>1, <2>2
  <1>5. \A x \in Submitted : TrueAbout(x) => TrueAbout(x)'
    BY <1>1, <1>2, <1>3, <1>4, StatesTruth DEF NoNew
  <1>6. QED
    BY <1>2, <1>5 DEF Truth, Sole

\* An id that is given for the first time is unknown everywhere.
LEMMA SubmitTruth ==
  ASSUME TypeOK, IdleIsUnknown, GoodMsgs, NoTwins, GoodTasks, Truth,
         NEW n \in Node, NEW x \in Xact, NEW i \in Id, NEW m \in Msg, Numbers(n, x, i, m)
  PROVE  Truth'
  <1>1. /\ x \notin Submitted /\ idOf'[x] = i /\ Submitted' = Submitted \cup {x}
        /\ \A y \in Submitted : y # x /\ idOf'[y] = idOf[y] /\ Home(y)' = Home(y)
        /\ Home(x)' = n
    BY SubmitIds
  <1>2. /\ Gets(n, m) /\ m.type = "LocalXact" /\ m.of = x
        /\ UNCHANGED <<executed, outcome, prepared>> /\ client'[x] \in {"waiting", "error"}
        /\ \A y \in Xact : y # x => client'[y] = client[y]
    BY DEF Numbers
  <1>3. \A a \in Msg : Around(a)' => Around(a) \/ a = m
    BY SubmitMsgs
  <1>4. \A p \in Node, j \in Id : TaskAt(p, j)'.xact = TaskAt(p, j).xact
    BY <1>2, GetsFollows
  <1>5. ASSUME NEW y \in Submitted, Sole(y)' PROVE TrueAbout(y)'
    <2>1. Sole(y) /\ TrueAbout(y) /\ y \in Xact /\ y # x
      BY <1>1, <1>5, SubmittedFacts DEF Sole, Truth
    <2>2. \A a \in Msg : Around(a)' /\ a.of = y /\ a.type = "Vote" => Around(a)
      BY <1>2, <1>3
    <2>3. QED
      BY <1>1, <1>2, <1>4, <2>1, <2>2, StatesTruth
  <1>6. ASSUME Sole(x)' PROVE TrueAbout(x)'
    <2>1. \A a \in Msg : Around(a)' /\ a.of = x => a.type # "Vote"
      BY <1>1, <1>2, <1>3, AroundGood
    <2>2. ASSUME NEW p \in Node PROVE TrueState(x, TaskAt(p, i).xact)'
      <3>1. i \notin Ids(p)
        BY <1>1, <1>6 DEF Sole, GoodTasks
      <3>2. PICK z : z = S(p)!Unknown
        OBVIOUS
      <3>3. TaskAt(p, i)'.xact = z
        BY <1>4, <3>1, <3>2, NewTaskGood DEF TaskAt
      <3>4. /\ z.votes = <<>> /\ z.voted = {} /\ z.status = "Uninitialized"
        BY <3>2, UnknownFacts
      <3>5. 1..Len(z.votes) = {}
        BY <3>4
      <3>6. TrueState(x, z)'
        BY <3>4, <3>5 DEF TrueState
      <3>7. QED
        BY <3>3, <3>6
    <2>3. TrueOutcome(x)'
      <3>1. \A p \in Node : executed'[p][x] = "none" /\ outcome'[p][x] = "none"
        BY <1>1, <1>2 DEF IdleIsUnknown
      <3>2. ~Committed(x)' /\ ~Aborted(x)'
        BY <1>2, <3>1 DEF Committed, Aborted
      <3>3. QED
        BY <3>1, <3>2 DEF TrueOutcome
    <2>4. QED
      BY <1>1, <2>1, <2>2, <2>3 DEF TrueAbout
  <1>7. QED
    BY <1>1, <1>5, <1>6 DEF Truth

\* The result of an execution, and its vote.
LEMMA ExecuteTruth ==
  ASSUME TypeOK, GoodMsgs, NoTwins, GoodTasks, AtMostOnce, Truth,
         NEW n \in Node, NEW i \in Ids(n), Execute(n, i)
  PROVE  Truth'
  <1> DEFINE t == TaskAt(n, i)
  <1>1. /\ t = tasks[n][i] /\ i \in Id /\ t.xact \in S(n)!XactType /\ t.at = "execute"
        /\ UNCHANGED <<net, idOf, client>>
    BY TaskFacts DEF Execute
  <1>2. /\ GoodTask(n, i, t) /\ t.of \in Xact /\ t.of \in Submitted /\ idOf[t.of] = i
        /\ t.xact.kind = "surrogate" /\ n # i[2]
    BY <1>1, OfFacts DEF GoodTask, GoodXact
  <1>3. PICK x \in Xact : x = t.of
    BY <1>2
  <1>4. PICK r \in {None, Error} :
          /\ Becomes(n, i, "existing", x, OwnFirst(t.xact, OwnVote(n, r)), t.chan)
          /\ executed' = [executed EXCEPT ![n][x] = IF r = None THEN "ok" ELSE "error"]
          /\ outcome' = IF r = None THEN outcome ELSE [outcome EXCEPT ![n][x] = "aborted"]
          /\ r # None => prepared' = prepared
          /\ r = None => /\ prepared' = [prepared EXCEPT ![n] = With(@, i, x)]
                         /\ i \notin DOMAIN prepared[n]
    BY <1>1, <1>2, <1>3, ExecuteFacts
  <1>5. x \in Submitted /\ idOf[x] = i /\ Home(x) # n /\ Home(x) \in Node /\ Once(x)
    BY <1>2, <1>3, SubmittedFacts DEF Home, AtMostOnce
  <1>6. executed[n][x] = "none"
    BY <1>1, <1>3, <1>5 DEF Once, ExecutedOnce
  <1>7. NoNew
    BY <1>1, <1>4, BecomesFewer DEF Shorter
  <1>8. /\ executed'[n][x] = IF r = None THEN "ok" ELSE "error"
        /\ \A p \in Node : \A z \in Xact : p # n \/ z # x => executed'[p][z] = executed[p][z]
    BY <1>4 DEF TypeOK
  <1>9. /\ r # None => outcome'[n][x] = "aborted"
        /\ \A p \in Node : \A z \in Xact : p # n \/ z # x \/ r = None =>
             outcome'[p][z] = outcome[p][z]
    BY <1>4 DEF TypeOK
  <1>10. /\ r = None => i \in DOMAIN prepared'[n] /\ prepared'[n][i] = x
         /\ \A p \in Node : \A j \in DOMAIN prepared[p] :
              p # n \/ j # i \/ r # None => j \in DOMAIN prepared'[p] /\ prepared'[p][j] = prepared[p][j]
    <2>1. CASE r # None
      BY <1>4, <2>1
    <2>2. CASE r = None
      <3>1. /\ prepared'[n] = With(prepared[n], i, x)
            /\ \A p \in Node : p # n => prepared'[p] = prepared[p]
        BY <1>4, <2>2 DEF TypeOK
      <3>2. /\ DOMAIN With(prepared[n], i, x) = DOMAIN prepared[n] \cup {i}
            /\ \A j \in DOMAIN prepared[n] \cup {i} :
                 With(prepared[n], i, x)[j] = IF j = i THEN x ELSE prepared[n][j]
        BY DEF With
      <3>3. QED
        BY <2>2, <3>1, <3>2
    <2>3. QED
      BY <2>1, <2>2
  <1>11. PICK v \in S(n)!Vote : v = OwnVote(n, r) /\ v.from = n /\ v.reason = r
    BY VoteOfType DEF OwnVote
  <1>12. PICK z \in S(n)!XactType : z = t.xact
    BY <1>1
  <1>13. PICK y \in S(n)!XactType : y = OwnFirst(z, v)
    BY KeepFacts
  <1>14. /\ y.status = z.status /\ y.voted = z.voted
         /\ \A k \in 1..Len(y.votes) :
              y.votes[k] = v \/ \E j \in 1..Len(z.votes) : y.votes[k] = z.votes[j]
    BY <1>13, KeepFacts
  <1>15. ASSUME NEW w \in Submitted, Sole(w), TrueAbout(w)
         PROVE  /\ Grows(w) /\ TrueOutcome(w)'
                /\ idOf[w] = i => TrueState(w, y)'
                /\ \A m \in Msg : Around(m)' /\ m.of = w /\ m.type = "Vote" =>
                     Around(m) \/ TrueVote(w, m.from, m.reason)'
    <2>1. w \in Xact /\ idOf[w] \in Id /\ idOf'[w] = idOf[w] /\ Home(w)' = Home(w)
          /\ TrueOutcome(w)
      BY <1>1, <1>15, SubmittedFacts DEF Home, TrueAbout
    <2>2. Grows(w)
      BY <1>6, <1>8, <2>1 DEF Grows
    <2>3. (AllOk(w) => AllOk(w)') /\ (SomeError(w) => SomeError(w)')
      BY <2>1, <2>2, TrueStays
    <2>4. idOf[w] = i => w = x
      BY <1>5, <1>15 DEF Sole
    <2>5. r # None => SomeError(x)'
      <3>1. Home(x)' = Home(x)
        BY <1>1 DEF Home
      <3>2. QED
        BY <1>5, <1>8, <3>1 DEF SomeError
    <2>6. idOf[w] = i => TrueState(w, y)'
      <3>1. SUFFICES ASSUME idOf[w] = i PROVE TrueState(w, y)'
        OBVIOUS
      <3>2. TrueState(w, z)
        BY <1>12, <1>15, <3>1 DEF TrueAbout
      <3>3. TrueState(w, z)'
        BY <2>1, <2>2, <3>2, TrueStays
      <3>4. TrueVote(w, v.from, v.reason)'
        BY <1>8, <1>11, <2>4, <2>5, <3>1 DEF TrueVote
      <3>5. \A k \in 1..Len(y.votes) : TrueVote(w, y.votes[k].from, y.votes[k].reason)'
        BY <1>14, <3>3, <3>4 DEF TrueState
      <3>6. QED
        BY <1>14, <3>3, <3>5 DEF TrueState
    <2>7. Committed(w)' => AllOk(w)'
      <3>1. Committed(w)' => Committed(w)
        BY <1>1, <1>9, <2>1 DEF Committed
      <3>2. QED
        BY <2>1, <2>3, <3>1 DEF TrueOutcome
    <2>8. Aborted(w)' => SomeError(w)'
      <3>1. CASE w = x /\ r # None
        BY <2>5, <3>1
      <3>2. CASE w # x \/ r = None
        <4>1. Aborted(w)' => Aborted(w)
          BY <1>1, <1>9, <2>1, <3>2 DEF Aborted
        <4>2. QED
          BY <2>1, <2>3, <4>1 DEF TrueOutcome
      <3>3. QED
        BY <3>1, <3>2
    <2>9. ASSUME NEW p \in Node, executed'[p][w] = "ok"
          PROVE  \/ outcome'[p][w] # "none"
                 \/ idOf'[w] \in DOMAIN prepared'[p] /\ prepared'[p][idOf'[w]] = w
      <3>1. CASE p = n /\ w = x
        BY <1>5, <1>8, <1>10, <2>1, <2>9, <3>1
      <3>2. CASE p # n \/ w # x
        <4>1. executed[p][w] = "ok" /\ outcome'[p][w] = outcome[p][w]
          BY <1>8, <1>9, <2>1, <2>9, <3>2
        <4>2. \/ outcome[p][w] # "none"
              \/ idOf[w] \in DOMAIN prepared[p] /\ prepared[p][idOf[w]] = w
          BY <2>1, <4>1 DEF TrueOutcome
        <4>3. p # n \/ idOf[w] # i
          BY <2>4, <3>2
        <4>4. QED
          BY <1>10, <2>1, <4>1, <4>2, <4>3
      <3>3. QED
        BY <3>1, <3>2
    <2>10. TrueOutcome(w)'
      BY <2>7, <2>8, <2>9 DEF TrueOutcome
    <2>11. QED
      BY <1>7, <2>2, <2>6, <2>10 DEF NoNew
  <1>16. Becomes(n, i, "existing", x, y, t.chan)
    BY <1>4, <1>11, <1>12, <1>13
  <1>17. QED
    BY <1>1, <1>15, <1>16, TruthStep

\* What a decision of a task says of the executions of its transaction.
LEMMA DecisionTruth ==
  ASSUME NEW n \in Node, NEW i \in Id, NEW t, GoodTask(n, i, t), t.at = "finish",
         NEW x \in Submitted, TrueState(x, t.xact)
  PROVE  /\ Decision(t) = "committed" => AllOk(x)
         /\ Decision(t) = "aborted" => SomeError(x)
         /\ Decision(t) \in {"committed", "aborted"}
  <1>1. /\ t.xact.status \in {"Committing", "Rollbacking"}
        /\ t.xact.status = "Committing" => t.xact.voted = Node
    BY DEF GoodTask, GoodXact
  <1>2. QED
    BY <1>1 DEF Decision, TrueState, AllOk

\* Finished states stay true.
LEMMA FinishedTruth ==
  ASSUME NEW n \in Node, NEW z \in S(n)!XactType, z.status \in {"Committing", "Rollbacking"},
         NEW x \in Submitted, TrueState(x, z)
  PROVE  TrueState(x, S(n)!Finished(z)) /\ S(n)!Finished(z) \in S(n)!XactType
  <1> DEFINE y == S(n)!Finished(z)
  <1>1. /\ y \in S(n)!XactType /\ y.votes = z.votes /\ y.voted = z.voted
        /\ z.status = "Committing" => y.status = "Committed"
        /\ z.status = "Rollbacking" => y.status = "Rollbacked"
    BY FinishedFacts
  <1> HIDE DEF y
  <1>2. TrueState(x, y)
    BY <1>1 DEF TrueState
  <1>3. QED
    BY <1>1, <1>2 DEF y

\* The client is told what the votes of all surrogates, which are true, say.
LEMMA FinishLocalTruth ==
  ASSUME TypeOK, GoodMsgs, NoTwins, GoodTasks, AtMostOnce, Truth,
         NEW n \in Node, NEW i \in Ids(n), FinishLocal(n, i)
  PROVE  Truth'
  <1> DEFINE t == TaskAt(n, i)
  <1>1. /\ t = tasks[n][i] /\ i \in Id /\ t.xact \in S(n)!XactType /\ t.at = "finish"
        /\ tasks[n][i].xact.kind # "unknown" /\ UNCHANGED <<idOf, executed, outcome, prepared>>
    BY TaskFacts DEF FinishLocal
  <1>2. /\ GoodTask(n, i, t) /\ t.of \in Xact /\ t.of \in Submitted /\ idOf[t.of] = i
        /\ t.xact.status \in {"Committing", "Rollbacking"}
    BY <1>1, OfFacts DEF GoodTask, GoodXact
  <1>3. PICK z \in S(n)!XactType : z = t.xact
    BY <1>1
  <1>4. PICK y \in S(n)!XactType : y = S(n)!Finished(z)
    BY FinishedFacts
  <1>5. /\ Becomes(n, i, "stopped", t.of, y, <<>>)
        /\ \A x \in Xact : client'[x] = client[x] \/ (x = t.of /\ client'[x] = Decision(t))
    BY <1>1, <1>2, <1>3, <1>4, FinishLocalFacts
  <1>6. NoNew
    BY <1>1, FinishLocalQuiet, QuietOnce
  <1>7. ASSUME NEW x \in Submitted, Sole(x), TrueAbout(x)
        PROVE  /\ Grows(x) /\ TrueOutcome(x)'
               /\ idOf[x] = i => TrueState(x, y)'
               /\ \A m \in Msg : Around(m)' /\ m.of = x /\ m.type = "Vote" =>
                    Around(m) \/ TrueVote(x, m.from, m.reason)'
    <2>1. Grows(x) /\ idOf'[x] = idOf[x] /\ x \in Xact /\ TrueOutcome(x)
      BY <1>1, <1>7, SubmittedFacts DEF Grows, TrueAbout
    <2>2. idOf[x] = i => TrueState(x, z)
      BY <1>3, <1>7 DEF TrueAbout
    <2>3. idOf[x] = i => TrueState(x, y)'
      BY <1>2, <1>3, <1>4, <2>1, <2>2, FinishedTruth, TrueStays
    <2>4. x = t.of => /\ Decision(t) = "committed" => AllOk(x)
                      /\ Decision(t) = "aborted" => SomeError(x)
      BY <1>1, <1>2, <1>3, <2>2, DecisionTruth
    <2>5. (AllOk(x) => AllOk(x)') /\ (SomeError(x) => SomeError(x)')
      BY <2>1, TrueStays
    <2>6. /\ Committed(x)' => Committed(x) \/ (x = t.of /\ Decision(t) = "committed")
          /\ Aborted(x)' => Aborted(x) \/ (x = t.of /\ Decision(t) = "aborted")
      BY <1>1, <1>5, <2>1 DEF Committed, Aborted
    <2>7. (Committed(x)' => AllOk(x)') /\ (Aborted(x)' => SomeError(x)')
      BY <2>1, <2>4, <2>5, <2>6 DEF TrueOutcome
    <2>8. TrueOutcome(x)'
      BY <1>1, <2>1, <2>7 DEF TrueOutcome
    <2>9. QED
      BY <1>6, <2>1, <2>3, <2>8 DEF NoNew
  <1>8. QED
    BY <1>1, <1>5, <1>7, TruthStep

\* What a surrogate ends is prepared under its id, and so its own transaction.
LEMMA FinishSurrogateTruth ==
  ASSUME TypeOK, GoodMsgs, NoTwins, GoodTasks, GoodPrepared, AtMostOnce, Truth,
         NEW n \in Node, NEW i \in Ids(n), FinishSurrogate(n, i)
  PROVE  Truth'
  <1> DEFINE t == TaskAt(n, i)
  <1>1. /\ t = tasks[n][i] /\ i \in Id /\ t.xact \in S(n)!XactType /\ t.at = "finish"
        /\ tasks[n][i].xact.kind # "unknown" /\ UNCHANGED <<idOf, executed, client>>
    BY TaskFacts DEF FinishSurrogate
  <1>2. /\ GoodTask(n, i, t) /\ t.xact.status \in {"Committing", "Rollbacking"}
    BY <1>1, OfFacts DEF GoodTask, GoodXact
  <1>3. PICK z \in S(n)!XactType : z = t.xact
    BY <1>1
  <1>4. PICK y \in S(n)!XactType : y = S(n)!Finished(z)
    BY FinishedFacts
  <1>5. NoNew
    BY <1>1, FinishSurrogateQuiet, QuietOnce
  <1>6. ClientQuiet
    BY <1>1, SameClient
  <1>7. CASE Becomes(n, i, "stopped", t.of, t.xact, <<>>) /\ UNCHANGED <<prepared, outcome>>
    BY <1>1, <1>5, <1>6, <1>7, SameTruth DEF NoNew
  <1>8. CASE /\ Becomes(n, i, "stopped", t.of, y, <<>>)
             /\ i \in DOMAIN prepared[n]
             /\ outcome' = [outcome EXCEPT ![n][prepared[n][i]] = Decision(t)]
             /\ prepared' = [prepared EXCEPT ![n] = Without(@, i)]
    <2>1. PICK w \in Xact : w = prepared[n][i] /\ w \in Submitted /\ idOf[w] = i
      BY <1>8, SubmittedFacts DEF GoodPrepared
    <2>2. /\ outcome'[n][w] = Decision(t)
          /\ \A p \in Node : \A x \in Xact : p # n \/ x # w => outcome'[p][x] = outcome[p][x]
      BY <1>8, <2>1 DEF TypeOK
    <2>3. \A p \in Node : \A j \in DOMAIN prepared[p] :
            p # n \/ j # i => j \in DOMAIN prepared'[p] /\ prepared'[p][j] = prepared[p][j]
      <3>1. /\ prepared'[n] = Without(prepared[n], i)
            /\ \A p \in Node : p # n => prepared'[p] = prepared[p]
        BY <1>8 DEF TypeOK
      <3>2. QED
        BY <3>1 DEF Without
    <2>4. ASSUME NEW x \in Submitted, Sole(x), TrueAbout(x)
          PROVE  /\ Grows(x) /\ TrueOutcome(x)'
                 /\ idOf[x] = i => TrueState(x, y)'
                 /\ \A m \in Msg : Around(m)' /\ m.of = x /\ m.type = "Vote" =>
                      Around(m) \/ TrueVote(x, m.from, m.reason)'
      <3>1. Grows(x) /\ idOf'[x] = idOf[x] /\ x \in Xact /\ TrueOutcome(x)
        BY <1>1, <2>4, SubmittedFacts DEF Grows, TrueAbout
      <3>2. idOf[x] = i => TrueState(x, z)
        BY <1>3, <2>4 DEF TrueAbout
      <3>3. idOf[x] = i => TrueState(x, y)'
        BY <1>2, <1>3, <1>4, <3>1, <3>2, FinishedTruth, TrueStays
      <3>4. idOf[x] = i <=> x = w
        BY <2>1, <2>4 DEF Sole
      <3>5. x = w => /\ Decision(t) = "committed" => AllOk(x)
                     /\ Decision(t) = "aborted" => SomeError(x)
                     /\ Decision(t) \in {"committed", "aborted"}
        BY <1>1, <1>2, <1>3, <3>2, <3>4, DecisionTruth
      <3>6. (AllOk(x) => AllOk(x)') /\ (SomeError(x) => SomeError(x)')
        BY <3>1, TrueStays
      <3>7. /\ Committed(x)' => Committed(x) \/ (x = w /\ Decision(t) = "committed")
            /\ Aborted(x)' => Aborted(x) \/ (x = w /\ Decision(t) = "aborted")
        BY <1>1, <2>2, <3>1 DEF Committed, Aborted
      <3>8. (Committed(x)' => AllOk(x)') /\ (Aborted(x)' => SomeError(x)')
        BY <3>1, <3>5, <3>6, <3>7 DEF TrueOutcome
      <3>9. ASSUME NEW p \in Node, executed'[p][x] = "ok"
            PROVE  \/ outcome'[p][x] # "none"
                   \/ idOf'[x] \in DOMAIN prepared'[p] /\ prepared'[p][idOf'[x]] = x
        <4>1. CASE p = n /\ x = w
          BY <2>2, <3>5, <4>1
        <4>2. CASE p # n \/ x # w
          <5>1. outcome'[p][x] = outcome[p][x] /\ executed[p][x] = "ok"
            BY <1>1, <2>2, <3>1, <3>9, <4>2
          <5>2. \/ outcome[p][x] # "none"
                \/ idOf[x] \in DOMAIN prepared[p] /\ prepared[p][idOf[x]] = x
            BY <3>1, <5>1 DEF TrueOutcome
          <5>3. p # n \/ idOf[x] # i
            BY <3>4, <4>2
          <5>4. QED
            BY <2>3, <3>1, <5>1, <5>2, <5>3
        <4>3. QED
          BY <4>1, <4>2
      <3>10. TrueOutcome(x)'
        BY <3>8, <3>9 DEF TrueOutcome
      <3>11. QED
        BY <1>5, <3>1, <3>3, <3>10 DEF NoNew
    <2>5. QED
      BY <1>1, <1>8, <2>4, TruthStep
  <1>9. QED
    BY <1>1, <1>3, <1>4, <1>7, <1>8, FinishSurrogateFacts

----------------------------------------------------------------------------
(* The inductive invariant.                                                *)

\* In the initial state there is nothing.
LEMMA InitMInv == Init => MInv
  <1> SUFFICES ASSUME Init PROVE MInv
    OBVIOUS
  <1>1. \A n \in Node : Ids(n) = {}
    BY DEF Init, Ids
  <1>2. \A n \in Node, i \in Id : TaskAt(n, i) = NewTask(n)
    BY <1>1 DEF TaskAt
  <1>3. \A n \in Node, i \in Id :
          /\ TaskAt(n, i).chan = <<>> /\ 1..Len(TaskAt(n, i).chan) = {}
          /\ GoodTask(n, i, TaskAt(n, i))
    <2>1. 1..Len(<<>>) = {}
      OBVIOUS
    <2>2. QED
      BY <1>2, <2>1, NewTaskGood
  <1>4. Submitted = {}
    BY DEF Init, Submitted
  <1>5. TypeOK
    <2>1. TasksType
      BY <1>1 DEF Init, TasksType
    <2>2. RestType
      <3>1. 0 \in 0..MaxFaults
        BY FaultsAssumption
      <3>2. \A n \in Node : DOMAIN prepared[n] = {}
        BY DEF Init
      <3>3. QED
        BY <3>1, <3>2 DEF Init, RestType
    <2>3. QED
      BY <2>1, <2>2, TypeParts
  <1>6. IdsGivenOnce /\ IdleIsUnknown /\ AtMostOnce /\ Truth
    BY <1>4 DEF IdsGivenOnce, IdleIsUnknown, AtMostOnce, Truth, Init
  <1>7. GoodMsgs /\ NoTwins
    BY <1>3 DEF Init, GoodMsgs, NoTwins, Distinct
  <1>8. GoodTasks
    BY <1>1, <1>3 DEF GoodTasks
  <1>9. GoodPrepared
    BY DEF Init, GoodPrepared
  <1>10. QED
    BY <1>5, <1>6, <1>7, <1>8, <1>9 DEF MInv

\* Each step of a task keeps it.
LEMMA TaskStepMInv ==
  ASSUME MInv, NEW n \in Node, NEW i \in Ids(n), TaskStep(n, i)
  PROVE  MInv'
  <1>1. /\ TypeOK /\ IdsGivenOnce /\ IdleIsUnknown /\ GoodMsgs /\ GoodTasks
        /\ GoodPrepared /\ NoTwins /\ AtMostOnce /\ Truth
    BY DEF MInv
  <1>2. IdsGivenOnce' /\ idOf' = idOf /\ i \in Id
    BY <1>1, TaskStepFrame, SameIds, TaskFacts
  <1>3. CASE HandleLocalXact(n, i)
    <2>1. TypeOK' /\ ClientQuiet /\ UNCHANGED <<executed, outcome, prepared, net>>
      BY <1>1, <1>3, HandleLocalXactFacts DEF HandleLocalXact
    <2>2. IdleIsUnknown' /\ GoodPrepared'
      BY <1>1, <1>2, <2>1, QuietIdle, SamePrepared
    <2>3. GoodMsgs' /\ NoTwins'
      <3>1. tasks[n][i].chan # <<>> /\ tasks[n][i] = TaskAt(n, i)
        BY <1>1, <1>3, TaskFacts, ReceivesFacts DEF HandleLocalXact
      <3>2. QED
        BY <1>1, <1>2, <1>3, <2>1, <3>1, HandleLocalXactFacts, BecomesFewer DEF Shorter
    <2>4. GoodTasks' /\ AtMostOnce' /\ Truth'
      BY <1>1, <1>3, HandleLocalXactGood, HandleLocalXactOnce, HandleLocalXactTruth
    <2>5. QED
      BY <1>2, <2>1, <2>2, <2>3, <2>4 DEF MInv
  <1>4. CASE HandlePrepare(n, i)
    <2>1. TypeOK' /\ ClientQuiet /\ UNCHANGED <<executed, outcome, prepared, net>>
      BY <1>1, <1>4, HandlePrepareFacts DEF HandlePrepare
    <2>2. IdleIsUnknown' /\ GoodPrepared'
      BY <1>1, <1>2, <2>1, QuietIdle, SamePrepared
    <2>3. GoodMsgs' /\ NoTwins'
      <3>1. tasks[n][i].chan # <<>> /\ tasks[n][i] = TaskAt(n, i)
        BY <1>1, <1>4, TaskFacts, ReceivesFacts DEF HandlePrepare
      <3>2. QED
        BY <1>1, <1>2, <1>4, <2>1, <3>1, HandlePrepareFacts, BecomesFewer DEF Shorter
    <2>4. GoodTasks' /\ AtMostOnce' /\ Truth'
      BY <1>1, <1>4, HandlePrepareGood, HandlePrepareOnce, HandlePrepareTruth
    <2>5. QED
      BY <1>2, <2>1, <2>2, <2>3, <2>4 DEF MInv
  <1>5. CASE Execute(n, i)
    <2>1. tasks[n][i].of \in Xact /\ tasks[n][i] = TaskAt(n, i) /\ net' = net
      BY <1>1, <1>5, OfFacts DEF Execute
    <2>2. TypeOK'
      BY <1>1, <1>5, <2>1, ExecuteFacts
    <2>3. GoodMsgs' /\ NoTwins'
      BY <1>1, <1>2, <1>5, <2>1, ExecuteFacts, BecomesFewer DEF Shorter
    <2>4. IdleIsUnknown' /\ GoodPrepared'
      BY <1>1, <1>5, ExecuteIdle, ExecutePrepared
    <2>5. GoodTasks' /\ AtMostOnce' /\ Truth'
      BY <1>1, <1>5, ExecuteGood, ExecuteOnce, ExecuteTruth
    <2>6. QED
      BY <1>2, <2>2, <2>3, <2>4, <2>5 DEF MInv
  <1>6. CASE AddExisting(n, i)
    <2>1. TypeOK' /\ ClientQuiet /\ UNCHANGED <<executed, outcome, prepared>>
      BY <1>1, <1>6, AddExistingFacts1 DEF AddExisting
    <2>2. IdleIsUnknown' /\ GoodPrepared'
      BY <1>1, <1>2, <2>1, QuietIdle, SamePrepared
    <2>3. GoodMsgs' /\ NoTwins' /\ AtMostOnce'
      BY <1>1, <1>2, <1>6, AddExistingQuiet, QuietOnce
    <2>4. GoodTasks' /\ Truth'
      BY <1>1, <1>6, AddExistingGood, AddExistingTruth
    <2>5. QED
      BY <1>2, <2>1, <2>2, <2>3, <2>4 DEF MInv
  <1>7. CASE SendPrepare(n, i)
    <2>1. tasks[n][i].of \in Xact /\ UNCHANGED <<executed, outcome, prepared>>
      BY <1>1, <1>7, OfFacts DEF SendPrepare, Initialized
    <2>2. TypeOK' /\ ClientQuiet
      BY <1>1, <1>7, <2>1, SendPrepareFacts
    <2>3. IdleIsUnknown' /\ GoodPrepared'
      BY <1>1, <1>2, <2>1, <2>2, QuietIdle, SamePrepared
    <2>4. GoodMsgs' /\ NoTwins' /\ AtMostOnce'
      BY <1>1, <1>7, SendPrepareOnce
    <2>5. GoodTasks' /\ Truth'
      BY <1>1, <1>7, SendPrepareGood, SendPrepareTruth
    <2>6. QED
      BY <1>2, <2>2, <2>3, <2>4, <2>5 DEF MInv
  <1>8. CASE SendVote(n, i)
    <2>1. tasks[n][i].of \in Xact /\ UNCHANGED <<executed, outcome, prepared>>
      BY <1>1, <1>8, OfFacts DEF SendVote, Initialized
    <2>2. TypeOK' /\ ClientQuiet
      BY <1>1, <1>8, <2>1, SendVoteFacts, SameClient
    <2>3. IdleIsUnknown' /\ GoodPrepared'
      BY <1>1, <1>2, <2>1, <2>2, QuietIdle, SamePrepared
    <2>4. GoodMsgs' /\ NoTwins' /\ AtMostOnce'
      BY <1>1, <1>8, SendVoteOnce
    <2>5. GoodTasks' /\ Truth'
      BY <1>1, <1>8, SendVoteGood, SendVoteTruth
    <2>6. QED
      BY <1>2, <2>2, <2>3, <2>4, <2>5 DEF MInv
  <1>9. CASE Sent(n, i)
    <2>1. TypeOK' /\ ClientQuiet /\ UNCHANGED <<executed, outcome, prepared>>
      BY <1>1, <1>9, SentFacts, SameClient DEF Sent
    <2>2. IdleIsUnknown' /\ GoodPrepared'
      BY <1>1, <1>2, <2>1, QuietIdle, SamePrepared
    <2>3. GoodMsgs' /\ NoTwins' /\ AtMostOnce'
      BY <1>1, <1>2, <1>9, SentQuiet, QuietOnce
    <2>4. GoodTasks' /\ Truth'
      BY <1>1, <1>9, SentGood, SentTruth
    <2>5. QED
      BY <1>2, <2>1, <2>2, <2>3, <2>4 DEF MInv
  <1>10. CASE HandleVote(n, i)
    <2>1. TypeOK' /\ ClientQuiet /\ UNCHANGED <<executed, outcome, prepared>>
      BY <1>1, <1>10, HandleVoteFacts DEF HandleVote
    <2>2. IdleIsUnknown' /\ GoodPrepared'
      BY <1>1, <1>2, <2>1, QuietIdle, SamePrepared
    <2>3. GoodMsgs' /\ NoTwins' /\ AtMostOnce'
      BY <1>1, <1>2, <1>10, HandleVoteQuiet, QuietOnce
    <2>4. GoodTasks' /\ Truth'
      BY <1>1, <1>10, HandleVoteGood, HandleVoteTruth
    <2>5. QED
      BY <1>2, <2>1, <2>2, <2>3, <2>4 DEF MInv
  <1>11. CASE FinishLocal(n, i)
    <2>1. tasks[n][i].of \in Xact /\ UNCHANGED <<executed, outcome, prepared>>
      BY <1>1, <1>11, OfFacts DEF FinishLocal
    <2>2. TypeOK'
      BY <1>1, <1>11, <2>1, FinishLocalFacts
    <2>3. IdleIsUnknown' /\ GoodPrepared'
      BY <1>1, <1>2, <1>11, <2>1, FinishLocalIdle, SamePrepared
    <2>4. GoodMsgs' /\ NoTwins' /\ AtMostOnce'
      BY <1>1, <1>2, <1>11, FinishLocalQuiet, QuietOnce
    <2>5. GoodTasks' /\ Truth'
      BY <1>1, <1>11, FinishGood, FinishLocalTruth
    <2>6. QED
      BY <1>2, <2>2, <2>3, <2>4, <2>5 DEF MInv
  <1>12. CASE FinishSurrogate(n, i)
    <2>1. TypeOK'
      BY <1>1, <1>12, FinishSurrogateFacts
    <2>2. IdleIsUnknown' /\ GoodPrepared'
      BY <1>1, <1>12, FinishSurrogateIdle, FinishSurrogatePrepared
    <2>3. GoodMsgs' /\ NoTwins' /\ AtMostOnce'
      BY <1>1, <1>2, <1>12, FinishSurrogateQuiet, QuietOnce
    <2>4. GoodTasks' /\ Truth'
      BY <1>1, <1>12, FinishGood, FinishSurrogateTruth
    <2>5. QED
      BY <1>2, <2>1, <2>2, <2>3, <2>4 DEF MInv
  <1>13. CASE RpcError(n, i)
    <2>1. TypeOK' /\ ClientQuiet /\ UNCHANGED <<executed, outcome, prepared>>
      BY <1>1, <1>13, RpcErrorFacts DEF RpcError
    <2>2. IdleIsUnknown' /\ GoodPrepared'
      BY <1>1, <1>2, <2>1, QuietIdle, SamePrepared
    <2>3. GoodMsgs' /\ NoTwins' /\ AtMostOnce'
      BY <1>1, <1>2, <1>13, RpcErrorQuiet, QuietOnce
    <2>4. GoodTasks' /\ Truth'
      BY <1>1, <1>13, RpcErrorGood, RpcErrorTruth
    <2>5. QED
      BY <1>2, <2>1, <2>2, <2>3, <2>4 DEF MInv
  <1>14. QED
    BY <1>3, <1>4, <1>5, <1>6, <1>7, <1>8, <1>9, <1>10, <1>11, <1>12, <1>13 DEF TaskStep

\* So do new transactions, messages that arrive and restarts.
LEMMA NextMInv == MInv /\ [Next]_vars => MInv'
  <1> SUFFICES ASSUME MInv, [Next]_vars PROVE MInv'
    OBVIOUS
  <1>1. /\ TypeOK /\ IdsGivenOnce /\ IdleIsUnknown /\ GoodMsgs /\ GoodTasks
        /\ GoodPrepared /\ NoTwins /\ AtMostOnce /\ Truth
    BY DEF MInv
  <1>2. ASSUME NEW n \in Node, NEW x \in Xact, Submit(n, x) PROVE MInv'
    <2>1. PICK i \in Id : \E m \in Msg : Numbers(n, x, i, m)
      BY <1>1, <1>2, SubmitFacts
    <2>2. PICK m \in Msg : Numbers(n, x, i, m)
      BY <2>1
    <2>3. TypeOK'
      BY <1>1, <1>2, SubmitFacts
    <2>4. IdsGivenOnce' /\ IdleIsUnknown' /\ GoodPrepared'
      BY <1>1, <2>2, SubmitIdsOnce, SubmitIdle, SubmitPrepared
    <2>5. GoodMsgs' /\ NoTwins'
      BY <1>1, <2>2, SubmitMsgs
    <2>6. GoodTasks'
      <3>1. /\ Gets(n, m) /\ m.id = i /\ x \in Submitted' /\ idOf'[x] = i
            /\ \A y \in Submitted : y \in Submitted' /\ idOf'[y] = idOf[y]
        BY <1>1, <2>2, SubmitIds DEF Numbers
      <3>2. QED
        BY <1>1, <3>1, GetsGood
    <2>7. AtMostOnce' /\ Truth'
      BY <1>1, <2>2, SubmitOnce, SubmitTruth
    <2>8. QED
      BY <2>3, <2>4, <2>5, <2>6, <2>7 DEF MInv
  <1>3. ASSUME NEW m \in net, Deliver(m) PROVE MInv'
    <2>1. /\ TypeOK' /\ Gets(m.to, m) /\ m \in Msg /\ m.to \in Node
          /\ UNCHANGED <<counter, prepared, executed, outcome, client, idOf, restarted>>
      BY <1>1, <1>3, DeliverFacts DEF Deliver
    <2>2. IdsGivenOnce' /\ IdleIsUnknown' /\ GoodPrepared'
      BY <1>1, <2>1, SameIds, SameClient, QuietIdle, SamePrepared
    <2>3. GoodMsgs' /\ NoTwins' /\ AtMostOnce' /\ Truth'
      BY <1>1, <1>3, DeliverMsgs, DeliverOnce, DeliverTruth
    <2>4. GoodTasks'
      <3>1. m.of \in Submitted /\ idOf[m.of] = m.id /\ Submitted' = Submitted
        BY <1>1, <2>1, AroundGood DEF Around, GoodMsg, Submitted
      <3>2. QED
        BY <1>1, <2>1, <3>1, GetsGood
    <2>5. QED
      BY <2>1, <2>2, <2>3, <2>4 DEF MInv
  <1>4. ASSUME NEW n \in Node, CrashRestart(n) PROVE MInv'
    <2>1. TypeOK' /\ ClientQuiet /\ UNCHANGED <<prepared, executed, outcome, idOf>>
      BY <1>1, <1>4, CrashRestartFacts DEF CrashRestart
    <2>2. IdsGivenOnce' /\ IdleIsUnknown' /\ GoodPrepared'
      BY <1>1, <1>4, <2>1, CrashRestartIds, QuietIdle, SamePrepared
    <2>3. GoodMsgs' /\ NoTwins' /\ GoodTasks'
      BY <1>1, <1>4, CrashRestartFewer, CrashRestartGood
    <2>4. AtMostOnce' /\ Truth'
      BY <1>1, <1>4, CrashRestartOnce, CrashRestartTruth
    <2>5. QED
      BY <2>1, <2>2, <2>3, <2>4 DEF MInv
  <1>5. CASE UNCHANGED vars
    <2>1. UNCHANGED <<counter, tasks, net, prepared, executed, outcome, client, idOf,
                      restarted, faults>>
      BY <1>5 DEF vars
    <2>2. /\ \A n \in Node : Ids(n)' = Ids(n)
          /\ \A n \in Node, j \in Id : TaskAt(n, j)' = TaskAt(n, j)
      BY <2>1 DEF Ids, TaskAt
    <2>3. TypeOK' /\ ClientQuiet
      BY <1>1, <2>1, SameClient DEF TypeOK, Ids
    <2>4. IdsGivenOnce' /\ IdleIsUnknown' /\ GoodPrepared'
      BY <1>1, <2>1, <2>3, SameIds, QuietIdle, SamePrepared
    <2>5. GoodMsgs' /\ NoTwins' /\ NoNew
      BY <1>1, <2>1, <2>2, FewerMsgs DEF Shorter
    <2>6. GoodTasks'
      BY <1>1, <2>1, <2>2 DEF GoodTasks, GoodTask, GoodXact, Submitted
    <2>7. AtMostOnce'
      BY <1>1, <2>1, <2>2, <2>5, PlainStep DEF Follows
    <2>8. Truth'
      <3>1. Submitted' = Submitted
        BY <2>1 DEF Submitted
      <3>2. \A x \in Submitted : TrueAbout(x) => TrueAbout(x)'
        BY <1>1, <2>1, <2>2, <2>5, StatesTruth DEF NoNew
      <3>3. QED
        BY <1>1, <2>1, <3>1, <3>2 DEF Truth, Sole
    <2>9. QED
      BY <2>3, <2>4, <2>5, <2>6, <2>7, <2>8 DEF MInv
  <1>6. QED
    BY <1>2, <1>3, <1>4, <1>5, TaskStepMInv DEF Next

\* XactManager's inductive invariant, for all nodes, transactions and failures
\* (manager.rs, id.rs).
THEOREM MInvHolds == Spec => []MInv
  <1>1. QED
    BY InitMInv, NextMInv, PTL DEF Spec

\* Every variable of the Managers, of PostgreSQL and of the clients keeps its type.
THEOREM TypeOKHolds == Spec => []TypeOK
  <1>1. MInv => TypeOK
    BY DEF MInv
  <1>2. QED
    BY <1>1, MInvHolds, PTL

\* An id that two transactions have was given again after a restart.
LEMMA SoleUnlessReused ==
  ASSUME MInv, NEW x \in Submitted, ~Reused(x)
  PROVE  Sole(x)
  BY DEF MInv, IdsGivenOnce, Reused, Sole

\* For all nodes and transactions: what one region commits no other rolls back,
\* unless the coordinator was restarted and gave the id again (manager.rs
\* process_message, id.rs).
THEOREM AgreementUnlessReusedHolds == Spec => []AgreementUnlessReused
  <1>1. MInv => AgreementUnlessReused
    <2>1. SUFFICES ASSUME MInv, NEW x \in Submitted, Committed(x), Aborted(x), ~Reused(x)
                   PROVE  FALSE
      BY DEF AgreementUnlessReused
    <2>2. TrueAbout(x)
      BY <2>1, SoleUnlessReused DEF MInv, Truth
    <2>3. AllOk(x) /\ SomeError(x)
      BY <2>1, <2>2 DEF TrueAbout, TrueOutcome
    <2>4. QED
      BY <2>3 DEF AllOk, SomeError
  <1>2. QED
    BY <1>1, MInvHolds, PTL

\* For all nodes and transactions: a commit anywhere means that this very
\* transaction is prepared or committed at every surrogate, with the same
\* exception (controller.rs commit).
THEOREM CommitIsOfThisXactHolds == Spec => []CommitIsOfThisXact
  <1>1. MInv => CommitIsOfThisXact
    <2>1. SUFFICES ASSUME MInv, NEW x \in Submitted, Committed(x), ~Reused(x),
                          NEW n \in Surrogates(x), outcome[n][x] # "committed"
                   PROVE  \E i \in DOMAIN prepared[n] : prepared[n][i] = x
      BY DEF CommitIsOfThisXact
    <2>2. TrueAbout(x) /\ n \in Node \ {Home(x)} /\ x \in Xact /\ TypeOK
      BY <2>1, SoleUnlessReused, SubmittedFacts DEF MInv, Truth, Surrogates, Others
    <2>3. AllOk(x) /\ ~Aborted(x)
      <3>1. AllOk(x)
        BY <2>1, <2>2 DEF TrueAbout, TrueOutcome
      <3>2. QED
        BY <2>2, <3>1 DEF TrueAbout, TrueOutcome, AllOk, SomeError
    <2>4. executed[n][x] = "ok" /\ outcome[n][x] = "none"
      BY <2>1, <2>2, <2>3 DEF AllOk, Aborted, TypeOK
    <2>5. QED
      BY <2>2, <2>4 DEF TrueAbout, TrueOutcome
  <1>2. QED
    BY <1>1, MInvHolds, PTL

\* Messages of one transaction in one channel differ in who sent them.
LEMMA CallersDiffer ==
  ASSUME MInv, NEW n \in Node, NEW i \in Id,
         NEW j \in 1..Len(TaskAt(n, i).chan), NEW k \in 1..Len(TaskAt(n, i).chan),
         TaskAt(n, i).chan[j].of = TaskAt(n, i).chan[k].of,
         \/ TaskAt(n, i).chan[j].type = "LocalXact"
         \/ TaskAt(n, i).chan[k].type = "LocalXact"
         \/ TaskAt(n, i).chan[j].from = TaskAt(n, i).chan[k].from
  PROVE  j = k
  <1> DEFINE a == TaskAt(n, i).chan[j]
             b == TaskAt(n, i).chan[k]
  <1>1. TypeOK /\ GoodMsgs /\ NoTwins /\ AtMostOnce
    BY DEF MInv
  <1>2. /\ a \in Msg /\ Around(a) /\ GoodMsg(a) /\ a.id = i
        /\ b \in Msg /\ Around(b) /\ GoodMsg(b) /\ b.id = i
    BY <1>1, InChanAround
  <1>3. SentOnce(a.of) /\ a.of = b.of
    BY <1>1, <1>2, AroundGood DEF AtMostOnce, Once
  <1>4. Distinct(TaskAt(n, i).chan)
    BY <1>1 DEF NoTwins
  <1> SUFFICES SameCall(a, b)
    BY <1>4 DEF Distinct
  <1> HIDE DEF a, b
  <1>5. a.type \in {"LocalXact", "Prepare", "Vote"} /\ b.type \in {"LocalXact", "Prepare", "Vote"}
    BY <1>2 DEF Msg
  <1>6. CASE a.type = "LocalXact" \/ b.type = "LocalXact"
    <2>1. Unsent(a.of)
      BY <1>2, <1>3, <1>6 DEF Unsent
    <2>2. a.type = "LocalXact" /\ b.type = "LocalXact"
      BY <1>2, <1>3, <2>1 DEF SentOnce
    <2>3. QED
      BY <1>2, <1>3, <2>2 DEF GoodMsg, SameCall
  <1>7. CASE a.type # "LocalXact" /\ b.type # "LocalXact"
    <2>1. a.from = b.from
      BY <1>7 DEF a, b
    <2>2. QED
      BY <1>2, <1>3, <1>5, <1>7, <2>1 DEF GoodMsg, SameCall
  <1>8. QED
    BY <1>6, <1>7

\* For all nodes and transactions: a channel holds at most one message per
\* caller and transaction of its id, so that its bound of 100 is not reached
\* with fewer (manager.rs process_message).
THEOREM ChannelHasRoomHolds == Spec => []ChannelHasRoom
  <1>1. ASSUME MInv, NEW n \in Node, NEW i \in Ids(n)
        PROVE  Len(tasks[n][i].chan)
                 <= Cardinality(Callers(n)) * Cardinality({x \in Submitted : idOf[x] = i})
    <2> DEFINE s == TaskAt(n, i).chan
               X == {x \in Submitted : idOf[x] = i}
               C == Callers(n)
               q == CHOOSE p \in C : TRUE
               f == [k \in 1..Len(s) |-> <<IF s[k].type = "LocalXact" THEN q ELSE s[k].from, s[k].of>>]
    <2>1. TypeOK /\ GoodMsgs /\ s = tasks[n][i].chan /\ i \in Id /\ s \in Seq(Msg)
      BY <1>1, TaskFacts DEF MInv
    <2>2. Len(s) \in Nat
      BY <2>1
    <2>3. IsFiniteSet(C) /\ IsFiniteSet(X)
      <3>1. C \subseteq Node /\ X \subseteq Xact
        BY DEF Callers, Submitted
      <3> HIDE DEF C, X
      <3>2. QED
        BY <3>1, FiniteAssumption, FS_Subset
    <2>4. q \in C
      <3>1. \E p \in C : TRUE
        BY DEF Callers
      <3>2. QED
        BY <3>1
    <2>5. ASSUME NEW k \in 1..Len(s)
          PROVE  s[k].of \in X /\ (s[k].type # "LocalXact" => s[k].from \in C)
      <3>1. s[k] \in Msg /\ Around(s[k]) /\ GoodMsg(s[k]) /\ s[k].to = n /\ s[k].id = i
        BY <2>1, InChanAround
      <3>2. s[k].of \in Submitted /\ s[k].from \in Node
        BY <2>1, <3>1, AroundGood
      <3>3. s[k].type # "LocalXact" => s[k].from # n
        BY <3>1 DEF GoodMsg, Msg
      <3>4. QED
        BY <3>1, <3>2, <3>3 DEF GoodMsg, Callers
    <2>6. \A j, k \in 1..Len(s) :
            /\ s[j].of = s[k].of
            /\ \/ s[j].type = "LocalXact" \/ s[k].type = "LocalXact" \/ s[j].from = s[k].from
            => j = k
      BY <1>1, <2>1, CallersDiffer
    <2> HIDE DEF s, C, X, q
    <2>7. f \in [1..Len(s) -> C \X X]
      BY <2>4, <2>5
    <2>8. ASSUME NEW j \in 1..Len(s), NEW k \in 1..Len(s), f[j] = f[k] PROVE j = k
      <3>1. /\ s[j].of = s[k].of
            /\ \/ s[j].type = "LocalXact" \/ s[k].type = "LocalXact" \/ s[j].from = s[k].from
        BY <2>8
      <3>2. QED
        BY <2>6, <3>1
    <2>9. f \in Injection(1..Len(s), C \X X)
      BY <2>7, <2>8 DEF Injection, IsInjective
    <2>10. IsFiniteSet(C \X X) /\ Cardinality(C \X X) = Cardinality(C) * Cardinality(X)
      BY <2>3, FS_Product
    <2>11. Cardinality(1..Len(s)) <= Cardinality(C \X X)
      <3> HIDE DEF f
      <3>1. QED
        BY <2>9, <2>10, FS_Injection
    <2>12. Cardinality(1..Len(s)) = Len(s)
      BY <2>2, FS_Interval
    <2>13. QED
      BY <2>1, <2>10, <2>11, <2>12 DEF C, X
  <1>2. MInv => ChannelHasRoom
    BY <1>1 DEF ChannelHasRoom
  <1>3. QED
    BY <1>2, MInvHolds, PTL
=============================================================================
