-------------------------- MODULE XactServerProofs --------------------------
(***************************************************************************)
(* Proofs about XactServer for any set of nodes, any coordinator and any   *)
(* participants, and any number of failures.                               *)
(*                                                                         *)
(* In this order: type correctness; IInv, Agreement and what else follows  *)
(* from IInv; that no client is left waiting on nothing; the refinement of *)
(* AtomicCommit; SInv, which follows every vote, and that tasks end in     *)
(* errors only through failures; and last, VInv: whatever votes one        *)
(* XactState is given (XactVotes), the first decisive vote decides.        *)
(***************************************************************************)
EXTENDS XactServerInv, XactVotes, SequenceTheorems, FiniteSetTheorems, TLAPS

USE CoordinatorAssumption, ParticipantsAssumption, NoneAssumption, MaxFaultsAssumption

----------------------------------------------------------------------------
(* The operations on one transaction's state keep its type.                *)

\* XactState::add_vote returns a well-formed state.
LEMMA AddVoteType ==
  ASSUME NEW x \in XactType, NEW v \in Vote
  PROVE  AddVote(x, v) \in XactType
  BY DEF AddVote, XactType, XactStatus, RollbackInfo, Vote

\* The initial states of a task are well-formed.
LEMMA UnknownType == Unknown \in XactType
  BY DEF Unknown, XactType, XactStatus, RollbackInfo, NoInfo

\* init_as_local and init_as_surrogate return well-formed states.
LEMMA InitAsType ==
  ASSUME NEW x \in XactType
  PROVE  InitAsLocal(x) \in XactType /\ InitAsSurrogate(x) \in XactType
  <1>1. YesVote(Coordinator) \in Vote
    BY DEF YesVote, VoteOf, Vote
  <1>2. Initialized(x, "local") \in XactType /\ Initialized(x, "surrogate") \in XactType
    BY DEF Initialized, XactType, XactStatus
  <1>3. QED
    BY <1>1, <1>2, AddVoteType DEF InitAsLocal, InitAsSurrogate

\* One iteration of the loop over early votes returns a well-formed state.
LEMMA AddExistingVoteType ==
  ASSUME NEW x \in XactType, x.votes # <<>>
  PROVE  AddExistingVote(x) \in XactType
  <1>1. x.votes \in Seq(Vote) /\ Head(x.votes) \in Vote /\ Tail(x.votes) \in Seq(Vote)
    BY DEF XactType
  <1>2. AddVote(x, Head(x.votes)) \in XactType
    BY <1>1, AddVoteType
  <1>3. QED
    BY <1>1, <1>2 DEF AddExistingVote, XactType

\* Keeping a vote that came too early returns a well-formed state.
LEMMA KeepVoteType ==
  ASSUME NEW x \in XactType, NEW v \in Vote
  PROVE  KeepVote(x, v) \in XactType
  <1>1. x.votes \in Seq(Vote)
    BY DEF XactType
  <1>2. Append(x.votes, v) \in Seq(Vote)
    BY <1>1
  <1>3. QED
    BY <1>2 DEF KeepVote, XactType

\* try_finish leaves a well-formed state.
LEMMA FinishedType ==
  ASSUME NEW x \in XactType
  PROVE  Finished(x) \in XactType
  <1>1. x.status \in XactStatus
    BY DEF XactType
  <1>2. Finished(x).status \in XactStatus
    BY <1>1 DEF XactStatus, Finished, XactType
  <1>3. QED
    BY <1>2 DEF Finished, XactType

----------------------------------------------------------------------------
(* Type correctness.                                                       *)

\* A task moves between labels of its type.
LEMMA GotoType ==
  ASSUME TypeOK, NEW n \in Node, NEW label \in TaskState, Goto(n, label)
  PROVE  task' \in [Node -> TaskState]
  BY DEF Goto, TypeOK

\* Taking a message out of a task's channel keeps the channels' type.
LEMMA DequeueType ==
  ASSUME TypeOK, NEW n \in Node, chan[n] # <<>>, Dequeue(n)
  PROVE  chan' \in [Node -> Seq(Message)]
  <1>1. Tail(chan[n]) \in Seq(Message)
    BY DEF TypeOK
  <1>2. QED
    BY <1>1 DEF Dequeue, TypeOK

\* Dispatch by the Manager keeps the types of the tasks and their channels.
LEMMA DispatchType ==
  ASSUME TypeOK, NEW n \in Node, NEW m \in Message, Dispatch(n, m)
  PROVE  task' \in [Node -> TaskState] /\ chan' \in [Node -> Seq(Message)]
  <1>1. CASE task[n] \in Stopped
    BY <1>1 DEF Dispatch, TypeOK
  <1>2. CASE task[n] \notin Stopped
    <2>1. Append(chan[n], m) \in Seq(Message)
      BY DEF TypeOK
    <2>2. chan' \in [Node -> Seq(Message)]
      <3>1. chan' = [chan EXCEPT ![n] = Append(chan[n], m)]
        BY <1>2 DEF Dispatch
      <3>2. QED
        BY <2>1, <3>1 DEF TypeOK
    <2>3. (IF task[n] = "absent" THEN "recv" ELSE task[n]) \in TaskState
      BY DEF TypeOK, TaskState, Running
    <2>4. task' \in [Node -> TaskState]
      <3>1. task' = [task EXCEPT ![n] = IF task[n] = "absent" THEN "recv" ELSE task[n]]
        BY <1>2 DEF Dispatch
      <3>2. QED
        BY <2>3, <3>1 DEF TypeOK
    <2>5. QED
      BY <2>2, <2>4
  <1>3. QED
    BY <1>1, <1>2

\* The end of a task keeps the types, and leaves the client in one of its states.
LEMMA AbandonType ==
  ASSUME TypeOK, NEW n \in Node, NEW how \in Stopped, Abandon(n, how)
  PROVE  /\ task' \in [Node -> TaskState]
         /\ chan' \in [Node -> Seq(Message)]
         /\ client' \in ClientState
  <1>1. task' \in [Node -> TaskState]
    BY DEF Abandon, Stop, Goto, TypeOK, TaskState
  <1>2. chan' \in [Node -> Seq(Message)]
    BY DEF Abandon, Stop, TypeOK
  <1>3. client' \in ClientState
    BY DEF Abandon, DropCommitTx, TypeOK, ClientState
  <1>4. QED
    BY <1>1, <1>2, <1>3

\* The labels a task can go to or end in.
LEMMA Labels ==
  /\ {"recv", "execute", "existing", "send", "finish"} \subseteq TaskState
  /\ {"done", "failed", "panicked"} \subseteq TaskState
  /\ {"done", "failed", "panicked"} \subseteq Stopped
  BY DEF TaskState, Running, Stopped

\* The vote a node casts for itself keeps the types.
LEMMA CastOwnVoteType ==
  ASSUME TypeOK, NEW n \in Node, NEW r \in Reason \cup {None}, CastOwnVote(n, r)
  PROVE  /\ task' \in [Node -> TaskState]
         /\ chan' \in [Node -> Seq(Message)]
         /\ client' \in ClientState
         /\ xact' \in [Node -> XactType]
  <1>1. CASE MayAddVote(xact[n])
    <2>1. VoteOf(n, r) \in Vote
      BY DEF VoteOf, Vote
    <2>2. AddVote(xact[n], VoteOf(n, r)) \in XactType
      BY <2>1, AddVoteType DEF TypeOK
    <2>3. task' \in [Node -> TaskState]
      BY <1>1, GotoType, Labels DEF CastOwnVote
    <2>4. xact' = [xact EXCEPT ![n] = AddVote(xact[n], VoteOf(n, r))] /\ UNCHANGED <<chan, client>>
      BY <1>1 DEF CastOwnVote
    <2>5. xact' \in [Node -> XactType]
      BY <2>2, <2>4 DEF TypeOK
    <2>6. QED
      BY <2>3, <2>4, <2>5 DEF TypeOK
  <1>2. CASE ~MayAddVote(xact[n])
    BY <1>2, AbandonType, Labels DEF CastOwnVote, TypeOK
  <1>3. QED
    BY <1>1, <1>2

\* Receiving and executing a transaction keeps the types.
LEMMA StartStepsType ==
  ASSUME TypeOK, NEW n \in Node,
         HandleLocalXact(n) \/ HandlePrepare(n) \/ Execute(n) \/ AddExisting(n)
  PROVE  TypeOK'
  <1>1. CASE HandleLocalXact(n)
    <2>1. CASE xact[n].kind = "unknown"
      <3>1. xact' \in [Node -> XactType]
        <4>1. xact' = [xact EXCEPT ![n] = InitAsLocal(xact[n])]
          BY <1>1, <2>1 DEF HandleLocalXact
        <4>2. InitAsLocal(xact[n]) \in XactType
          BY InitAsType DEF TypeOK
        <4>3. QED
          BY <4>1, <4>2 DEF TypeOK
      <3>2. task' \in [Node -> TaskState] /\ chan' \in [Node -> Seq(Message)]
        BY <1>1, <2>1, GotoType, DequeueType, Labels DEF HandleLocalXact, Receives
      <3>3. QED
        BY <1>1, <2>1, <3>1, <3>2 DEF HandleLocalXact, TypeOK
    <2>2. CASE xact[n].kind # "unknown"
      BY <1>1, <2>2, AbandonType, Labels DEF HandleLocalXact, TypeOK
    <2>3. QED
      BY <2>1, <2>2
  <1>2. CASE HandlePrepare(n)
    <2>1. CASE n \in Participants /\ xact[n].kind = "unknown"
      <3>1. xact' \in [Node -> XactType]
        <4>1. xact' = [xact EXCEPT ![n] = InitAsSurrogate(xact[n])]
          BY <1>2, <2>1 DEF HandlePrepare
        <4>2. InitAsSurrogate(xact[n]) \in XactType
          BY InitAsType DEF TypeOK
        <4>3. QED
          BY <4>1, <4>2 DEF TypeOK
      <3>2. task' \in [Node -> TaskState] /\ chan' \in [Node -> Seq(Message)]
        BY <1>2, <2>1, GotoType, DequeueType, Labels DEF HandlePrepare, Receives
      <3>3. QED
        BY <1>2, <2>1, <3>1, <3>2 DEF HandlePrepare, TypeOK
    <2>2. CASE ~(n \in Participants /\ xact[n].kind = "unknown")
      BY <1>2, <2>2, AbandonType, Labels DEF HandlePrepare, TypeOK
    <2>3. QED
      BY <2>1, <2>2
  <1>3. CASE Execute(n)
    <2>1. PICK r \in Reason \cup {None} :
            /\ CastOwnVote(n, r)
            /\ pg' = [pg EXCEPT ![n] = IF r = None THEN "prepared" ELSE "aborted"]
            /\ cause' = [cause EXCEPT ![n] = r]
      BY <1>3 DEF Execute
    <2>2. QED
      BY <1>3, <2>1, CastOwnVoteType DEF Execute, TypeOK
  <1>4. CASE AddExisting(n)
    <2>1. CASE MayAddVote(xact[n])
      <3>1. AddExistingVote(xact[n]) \in XactType
        BY <1>4, AddExistingVoteType DEF AddExisting, TypeOK
      <3>2. /\ xact' = [xact EXCEPT ![n] = AddExistingVote(xact[n])]
            /\ UNCHANGED <<task, chan, client, localRx, remoteRx, net, pg, faults, ballot, cause>>
        BY <1>4, <2>1 DEF AddExisting
      <3>3. xact' \in [Node -> XactType]
        BY <3>1, <3>2 DEF TypeOK
      <3>4. QED
        BY <3>2, <3>3 DEF TypeOK
    <2>2. CASE ~MayAddVote(xact[n])
      BY <1>4, <2>2, AbandonType, Labels DEF AddExisting, TypeOK
    <2>3. QED
      BY <2>1, <2>2
  <1>5. QED
    BY <1>1, <1>2, <1>3, <1>4

\* Sending keeps the types.
LEMMA SendStepsType ==
  ASSUME TypeOK, NEW n \in Node, SendPrepare(n) \/ SendVote(n) \/ Sent(n)
  PROVE  TypeOK'
  <1>1. CASE SendPrepare(n)
    <2>1. CASE xact[n].status = "Waiting"
      <3>1. {PrepareMessage(n, p) : p \in OthersThan(n)} \subseteq Message
        BY DEF PrepareMessage, OthersThan, Message
      <3>2. task' \in [Node -> TaskState]
        BY <1>1, <2>1, GotoType, Labels DEF SendPrepare
      <3>3. QED
        BY <1>1, <2>1, <3>1, <3>2 DEF SendPrepare, TypeOK
    <2>2. CASE xact[n].status # "Waiting"
      BY <1>1, <2>2, AbandonType, Labels DEF SendPrepare, TypeOK
    <2>3. QED
      BY <2>1, <2>2
  <1>2. CASE SendVote(n)
    <2>1. RollbackReason(xact[n]) \in Reason \cup {None}
      BY DEF RollbackReason, XactType, RollbackInfo, TypeOK
    <2>2. {VoteMessage(n, p, RollbackReason(xact[n])) : p \in OthersThan(n)} \subseteq Message
      BY <2>1 DEF VoteMessage, OthersThan, Message
    <2>3. task' \in [Node -> TaskState]
      BY <1>2, GotoType, Labels DEF SendVote
    <2>4. QED
      BY <1>2, <2>2, <2>3 DEF SendVote, TypeOK
  <1>3. CASE Sent(n)
    <2>1. task' \in [Node -> TaskState]
      BY <1>3, GotoType, Labels DEF Sent
    <2>2. QED
      BY <1>3, <2>1 DEF Sent, TypeOK
  <1>4. QED
    BY <1>1, <1>2, <1>3

\* Handling a vote and finishing keep the types.
LEMMA FinishStepsType ==
  ASSUME TypeOK, NEW n \in Node,
         HandleVote(n) \/ KeepWaiting(n) \/ FinishLocal(n) \/ FinishSurrogate(n)
  PROVE  TypeOK'
  <1>1. CASE HandleVote(n)
    <2> DEFINE m == Head(chan[n])
               vote == VoteOf(m.from, m.reason)
    <2>1. m \in Message
      BY <1>1 DEF HandleVote, Receives, TypeOK
    <2>2. vote \in Vote
      BY <2>1 DEF VoteOf, Vote, Message
    <2>3. KeepVote(xact[n], vote) \in XactType /\ AddVote(xact[n], vote) \in XactType
      BY <2>2, AddVoteType, KeepVoteType DEF TypeOK
    <2> HIDE DEF m, vote
    <2>4. CASE xact[n].kind = "unknown" \/ MayAddVote(xact[n])
      <3>1. xact' = [xact EXCEPT ![n] = IF xact[n].kind = "unknown"
                                          THEN KeepVote(xact[n], vote)
                                          ELSE AddVote(xact[n], vote)]
        BY <1>1, <2>4 DEF HandleVote, m, vote
      <3>2. xact' \in [Node -> XactType]
        BY <2>3, <3>1 DEF TypeOK
      <3>3. task' \in [Node -> TaskState] /\ chan' \in [Node -> Seq(Message)]
        BY <1>1, <2>4, GotoType, DequeueType, Labels DEF HandleVote, Receives
      <3>4. QED
        BY <1>1, <2>4, <3>2, <3>3 DEF HandleVote, TypeOK
    <2>5. CASE ~(xact[n].kind = "unknown" \/ MayAddVote(xact[n]))
      BY <1>1, <2>5, AbandonType, Labels DEF HandleVote, TypeOK
    <2>6. QED
      BY <2>4, <2>5
  <1>2. CASE KeepWaiting(n)
    BY <1>2, GotoType, Labels DEF KeepWaiting, TypeOK
  <1>3. CASE FinishLocal(n)
    <2>1. Finished(xact[n]) \in XactType /\ xact[n].info \in RollbackInfo
      BY FinishedType DEF TypeOK, XactType
    <2>2. client' \in ClientState
      BY <1>3, <2>1 DEF FinishLocal, ClientState
    <2>3. task' \in [Node -> TaskState] /\ chan' \in [Node -> Seq(Message)]
      BY <1>3, GotoType, Labels DEF FinishLocal, Stop, TypeOK
    <2>4. QED
      BY <1>3, <2>1, <2>2, <2>3 DEF FinishLocal, TypeOK
  <1>4. CASE FinishSurrogate(n)
    <2>1. Finished(xact[n]) \in XactType
      BY FinishedType DEF TypeOK
    <2>2. AfterFinish(n) \in {"none", "prepared", "committed", "aborted"}
      BY DEF AfterFinish, TypeOK
    <2>3. CASE xact[n].status = "Committing" /\ pg[n] # "prepared"
      BY <1>4, <2>3, AbandonType, Labels DEF FinishSurrogate, TypeOK
    <2>4. CASE ~(xact[n].status = "Committing" /\ pg[n] # "prepared")
      <3>1. /\ pg' = [pg EXCEPT ![n] = AfterFinish(n)]
            /\ xact' = [xact EXCEPT ![n] = Finished(xact[n])]
            /\ Stop(n, "done")
            /\ UNCHANGED <<client, localRx, remoteRx, net, faults, ballot, cause>>
        BY <1>4, <2>4 DEF FinishSurrogate
      <3>2. task' \in [Node -> TaskState]
        BY <3>1, GotoType, Labels DEF Stop
      <3>3. chan' \in [Node -> Seq(Message)]
        BY <3>1 DEF Stop, TypeOK
      <3>4. xact' \in [Node -> XactType]
        BY <2>1, <3>1 DEF TypeOK
      <3>5. QED
        BY <2>2, <3>1, <3>2, <3>3, <3>4 DEF TypeOK
    <2>5. QED
      BY <2>3, <2>4
  <1>5. QED
    BY <1>1, <1>2, <1>3, <1>4

\* Failures keep the types.
LEMMA FaultStepType ==
  ASSUME TypeOK, NEW n \in Node, FaultStep(n)
  PROVE  TypeOK'
  <1>1. CASE DecodeError(n)
    BY <1>1, AbandonType, Labels DEF DecodeError, Fault, TypeOK
  <1>2. CASE ExecuteAnswerLost(n)
    <2>1. PICK r \in Reason : CastOwnVote(n, r) /\ cause' = [cause EXCEPT ![n] = r]
      BY <1>2 DEF ExecuteAnswerLost
    <2>2. QED
      BY <1>2, <2>1, CastOwnVoteType DEF ExecuteAnswerLost, Fault, TypeOK
  <1>3. CASE RpcError(n)
    BY <1>3, AbandonType, Labels DEF RpcError, Fault, TypeOK
  <1>4. CASE FinishError(n)
    <2>1. AfterFinish(n) \in {"none", "prepared", "committed", "aborted"}
      BY DEF AfterFinish, TypeOK
    <2>2. QED
      BY <1>4, <2>1, AbandonType, Labels DEF FinishError, Fault, TypeOK
  <1>5. CASE CrashRestart(n)
    <2>1. client' \in ClientState
      BY <1>5 DEF CrashRestart, DropCommitTx, TypeOK, ClientState
    <2>2. task' \in [Node -> TaskState] /\ xact' \in [Node -> XactType]
      BY <1>5, UnknownType DEF CrashRestart, TypeOK, TaskState
    <2>3. /\ chan' \in [Node -> Seq(Message)] /\ remoteRx' \in [Node -> Seq(Message)]
          /\ localRx' \in Seq(Message)
      BY <1>5 DEF CrashRestart, TypeOK
    <2>4. QED
      BY <1>5, <2>1, <2>2, <2>3 DEF CrashRestart, Fault, TypeOK
  <1>6. QED
    BY <1>1, <1>2, <1>3, <1>4, <1>5 DEF FaultStep

\* Every step keeps the types.
LEMMA NextType ==
  ASSUME TypeOK, [Next]_vars
  PROVE  TypeOK'
  <1>1. CASE Submit
    <2>1. LocalXact \in Message
      BY DEF LocalXact, Message
    <2>2. localRx' \in Seq(Message)
      BY <1>1, <2>1 DEF Submit, TypeOK
    <2>3. QED
      BY <1>1, <2>2 DEF Submit, TypeOK, ClientState
  <1>2. CASE ManagerLocal
    <2>1. Head(localRx) \in Message /\ Tail(localRx) \in Seq(Message)
      BY <1>2 DEF ManagerLocal, TypeOK
    <2>2. task' \in [Node -> TaskState] /\ chan' \in [Node -> Seq(Message)]
      BY <1>2, <2>1, DispatchType DEF ManagerLocal
    <2>3. client' \in ClientState
      BY <1>2 DEF ManagerLocal, DropCommitTx, TypeOK, ClientState
    <2>4. QED
      BY <1>2, <2>1, <2>2, <2>3 DEF ManagerLocal, TypeOK
  <1>3. ASSUME NEW m \in net, Deliver(m)
        PROVE  TypeOK'
    <2>1. m \in Message /\ m.to \in Node
      BY DEF TypeOK, Message
    <2>2. Append(remoteRx[m.to], m) \in Seq(Message)
      BY <2>1 DEF TypeOK
    <2>3. QED
      BY <1>3, <2>1, <2>2 DEF Deliver, TypeOK
  <1>4. ASSUME NEW n \in Node, ManagerRemote(n)
        PROVE  TypeOK'
    <2>1. Head(remoteRx[n]) \in Message /\ Tail(remoteRx[n]) \in Seq(Message)
      BY <1>4 DEF ManagerRemote, TypeOK
    <2>2. task' \in [Node -> TaskState] /\ chan' \in [Node -> Seq(Message)]
      BY <1>4, <2>1, DispatchType DEF ManagerRemote
    <2>3. QED
      BY <1>4, <2>1, <2>2 DEF ManagerRemote, TypeOK
  <1>5. ASSUME NEW n \in Node, TaskStep(n)
        PROVE  TypeOK'
    BY <1>5, StartStepsType, SendStepsType, FinishStepsType DEF TaskStep
  <1>6. ASSUME NEW n \in Node, FaultStep(n)
        PROVE  TypeOK'
    BY <1>6, FaultStepType
  <1>7. CASE UNCHANGED vars
    BY <1>7 DEF vars, TypeOK
  <1>8. QED
    BY <1>1, <1>2, <1>3, <1>4, <1>5, <1>6, <1>7 DEF Next

\* The initial state has the types.
LEMMA InitType == Init => TypeOK
  BY UnknownType DEF Init, TypeOK, TaskState, ClientState, RollbackInfo, NoInfo

\* Type correctness of the protocol, failures included.
THEOREM TypeCorrect == Spec => []TypeOK
  <1>1. TypeOK /\ [Next]_vars => TypeOK'
    BY NextType
  <1>2. QED
    BY <1>1, InitType, PTL DEF Spec

----------------------------------------------------------------------------
(* IInv is an invariant.                                                   *)

\* A sequence without elements is the empty one.
LEMMA EmptySequence ==
  ASSUME NEW S, NEW s \in Seq(S), Len(s) = 0
  PROVE  s = <<>>
  OBVIOUS

\* The rest of a sequence of one element is empty.
LEMMA EmptyTail ==
  ASSUME NEW S, NEW s \in Seq(S), s # <<>>, Len(s) = 1
  PROVE  Tail(s) = <<>>
  <1>1. Tail(s) \in Seq(S) /\ Len(Tail(s)) = 0
    OBVIOUS
  <1>2. QED
    BY <1>1, EmptySequence

\* The rest of a sequence holds what the sequence holds one place further.
LEMMA TailItems ==
  ASSUME NEW S, NEW s \in Seq(S), s # <<>>
  PROVE  \A i \in 1..Len(Tail(s)) : i + 1 \in 1..Len(s) /\ Tail(s)[i] = s[i + 1]
  OBVIOUS

----------------------------------------------------------------------------
(* The histories only grow, and what messages say of them stays true.      *)

HistoryGrows ==
  \A m \in Node : /\ ballot[m] # "unset" => ballot'[m] = ballot[m]
                  /\ cause[m] # None => cause'[m] = cause[m]

\* The reason of a rollback stays the error of some execution.
LEMMA HistoryReason ==
  ASSUME HistoryGrows, NEW r, RealReason(r)
  PROVE  RealReason(r)'
  BY DEF HistoryGrows, RealReason, Surrogates

\* A vote stays true to its sender's ballot.
LEMMA HistoryVote ==
  ASSUME HistoryGrows, NEW f, NEW r, TrueVote(f, r)
  PROVE  TrueVote(f, r)'
  BY HistoryReason DEF HistoryGrows, TrueVote, Surrogates

\* So does a message.
LEMMA HistoryMessage ==
  ASSUME HistoryGrows, NEW m, NEW n, TrueMessage(m, n)
  PROVE  TrueMessage(m, n)'
  BY HistoryVote DEF TrueMessage

\* Removing messages and kept votes leaves the others true.
LEMMA MessagesKept ==
  ASSUME TrueMessages, HistoryGrows, net' \subseteq net,
         \A k \in Node : \A i \in 1..Len(remoteRx'[k]) :
           \E j \in 1..Len(remoteRx[k]) : remoteRx'[k][i] = remoteRx[k][j],
         \A k \in Node : \A i \in 1..Len(chan'[k]) :
           \E j \in 1..Len(chan[k]) : chan'[k][i] = chan[k][j],
         \A k \in Node : \A i \in 1..Len(xact'[k].votes) :
           \E j \in 1..Len(xact[k].votes) : xact'[k].votes[i] = xact[k].votes[j]
  PROVE  TrueMessages'
  <1>1. \A m \in net' : m.type # "LocalXact" /\ TrueMessage(m, m.to)'
    BY HistoryMessage DEF TrueMessages
  <1>2. \A k \in Node : \A i \in 1..Len(remoteRx'[k]) :
          remoteRx'[k][i].type # "LocalXact" /\ TrueMessage(remoteRx[k][i], k)'
    BY HistoryMessage, SMTT(20) DEF TrueMessages
  <1>3. \A k \in Node : \A i \in 1..Len(chan'[k]) : TrueMessage(chan[k][i], k)'
    BY HistoryMessage DEF TrueMessages
  <1>4. ASSUME NEW k \in Node, NEW i \in 1..Len(xact'[k].votes)
        PROVE  TrueVote(xact[k].votes[i].from, xact[k].votes[i].reason)'
    <2>1. PICK j \in 1..Len(xact[k].votes) : xact'[k].votes[i] = xact[k].votes[j]
      OBVIOUS
    <2>2. TrueVote(xact[k].votes[j].from, xact[k].votes[j].reason)
      BY DEF TrueMessages
    <2>3. QED
      BY <2>1, <2>2, HistoryVote
  <1>5. QED
    BY <1>1, <1>2, <1>3, <1>4 DEF TrueMessages

\* Taking the first message out of a channel.
LEMMA PrepareInTail ==
  ASSUME NEW s \in Seq(Message), s # <<>>
  PROVE  /\ PrepareAt(Tail(s)) => PrepareAt(s)
         /\ AtMostOnePrepare(s) => AtMostOnePrepare(Tail(s))
         /\ AtMostOnePrepare(s) /\ Head(s).type = "Prepare" => ~PrepareAt(Tail(s))
         /\ Head(s).type = "Prepare" => PrepareAt(s)
         /\ \A i \in 1..Len(Tail(s)) : i + 1 \in 1..Len(s) /\ Tail(s)[i] = s[i + 1]
         /\ 1 \in 1..Len(s) /\ Head(s) = s[1]
  <1>1. \A i \in 1..Len(Tail(s)) : i + 1 \in 1..Len(s) /\ Tail(s)[i] = s[i + 1]
    OBVIOUS
  <1>2. 1 \in 1..Len(s) /\ Head(s) = s[1]
    OBVIOUS
  <1>3. PrepareAt(Tail(s)) => PrepareAt(s)
    BY <1>1 DEF PrepareAt
  <1>4. ASSUME AtMostOnePrepare(s), NEW i \in 1..Len(Tail(s)), NEW j \in 1..Len(Tail(s)),
               Tail(s)[i].type = "Prepare", Tail(s)[j].type = "Prepare"
        PROVE  i = j
    <2>1. i + 1 = j + 1
      BY <1>1, <1>4 DEF AtMostOnePrepare
    <2>2. QED
      BY <2>1
  <1>5. ASSUME AtMostOnePrepare(s), Head(s).type = "Prepare", NEW i \in 1..Len(Tail(s)),
               Tail(s)[i].type = "Prepare"
        PROVE  FALSE
    <2>1. i + 1 = 1
      BY <1>1, <1>2, <1>5 DEF AtMostOnePrepare
    <2>2. QED
      BY <2>1
  <1>6. QED
    BY <1>1, <1>2, <1>3, <1>4, <1>5 DEF AtMostOnePrepare, PrepareAt

----------------------------------------------------------------------------
(* What add_vote does to a transaction's state.                            *)

\* add_vote leaves the state alone, decides to roll back, or counts a 'yes'.
LEMMA AddVoteEffect ==
  ASSUME NEW x \in XactType, NEW v \in Vote
  PROVE  /\ AddVote(x, v).kind = x.kind
         /\ AddVote(x, v).votes = x.votes
         /\ \/ AddVote(x, v) = x /\ (x.status # "Waiting" \/ v.reason = None \/ v.from \notin Participants)
            \/ /\ x.status = "Waiting" /\ v.from \in Participants /\ v.reason # None
               /\ AddVote(x, v).status = "Rollbacking"
               /\ AddVote(x, v).info = [by |-> v.from, reason |-> v.reason]
               /\ AddVote(x, v).voted = x.voted
            \/ /\ x.status = "Waiting" /\ v.from \in Participants /\ v.reason = None
               /\ AddVote(x, v).voted = x.voted \cup {v.from}
               /\ AddVote(x, v).info = x.info
               /\ \/ AddVote(x, v).status = "Waiting"
                  \/ AddVote(x, v).status = "Committing" /\ AddVote(x, v).voted = Participants
  <1>1. CASE v.from \notin Participants \/ x.status # "Waiting"
    BY <1>1 DEF AddVote
  <1>2. CASE v.from \in Participants /\ x.status = "Waiting" /\ v.reason # None
    BY <1>2 DEF AddVote, XactType
  <1>3. CASE v.from \in Participants /\ x.status = "Waiting" /\ v.reason = None
    BY <1>3 DEF AddVote, XactType
  <1>4. QED
    BY <1>1, <1>2, <1>3

----------------------------------------------------------------------------
(* Steps that end a task.                                                  *)

\* A task that ends without an answer, with some of its calls lost, keeps IInv.
LEMMA AbandonInv ==
  ASSUME IInv, TypeOK', NEW n \in Node, NEW how \in Stopped, Abandon(n, how),
         net' \subseteq net,
         UNCHANGED <<xact, localRx, remoteRx, pg, ballot, cause>>
  PROVE  IInv'
  <1>1. /\ task' = [task EXCEPT ![n] = how]
        /\ chan' = [chan EXCEPT ![n] = <<>>]
        /\ client' = IF n = Coordinator /\ client.state = "waiting"
                       THEN [client EXCEPT !.state = "error"] ELSE client
    BY DEF Abandon, Stop, Goto, DropCommitTx
  <1>2. how \notin Running /\ how # "absent" /\ how \in Stopped
    BY DEF Running, Stopped
  <1>3. TrueMessages'
    <2>1. HistoryGrows
      BY DEF HistoryGrows
    <2>2. \A k \in Node : \A i \in 1..Len(chan'[k]) :
            \E j \in 1..Len(chan[k]) : chan'[k][i] = chan[k][j]
      BY <1>1 DEF IInv, TypeOK
    <2>3. QED
      BY <2>1, <2>2, MessagesKept DEF IInv
  <1>4. PrepareOnce'
    BY <1>1, SMTT(20) DEF IInv, TypeOK, PrepareOnce, PrepareInNet, PrepareAt, AtMostOnePrepare
  <1>5. SentOnce'
    <2>1. client'.state = "idle" => client.state = "idle"
      BY <1>1 DEF IInv, TypeOK, ClientState
    <2>2. chan'[Coordinator] = chan[Coordinator] \/ chan'[Coordinator] = <<>>
      BY <1>1 DEF IInv, TypeOK
    <2>3. task'[Coordinator] = "existing" => task[Coordinator] = "existing"
      BY <1>1, <1>2 DEF IInv, TypeOK, Running
    <2>4. NothingSent => NothingSent'
      BY <1>1 DEF IInv, TypeOK, NothingSent
    <2>5. QED
      BY <2>1, <2>2, <2>3, <2>4 DEF IInv, SentOnce
  <1>6. TaskMatchesVotes'
    <2>1. ASSUME NEW k \in Node, task'[k] \in Running
          PROVE  task[k] = task'[k]
      BY <1>1, <1>2, <2>1 DEF IInv, TypeOK
    <2>2. ASSUME NEW k \in Node, NEW v, task'[k] \in Running, TrueYes(k, v)
          PROVE  TrueYes(k, v)'
      BY <2>1, <2>2 DEF TrueYes
    <2>3. ASSUME NEW k \in Node, TrueNo(k)
          PROVE  TrueNo(k)'
      BY <2>1, <2>3 DEF TrueNo, RealReason
    <2>4. QED
      BY <2>1, <2>2, <2>3 DEF IInv, TaskMatchesVotes
  <1>7. TaskMatchesLabel'
    BY <1>1, <1>2 DEF IInv, TypeOK, TaskMatchesLabel, Running
  <1>8. OutcomeMatchesVotes'
    BY <1>1 DEF IInv, TypeOK, OutcomeMatchesVotes, AllYes, SomeNo, RealReason, ClientState
  <1>9. QED
    BY <1>3, <1>4, <1>5, <1>6, <1>7, <1>8 DEF IInv

----------------------------------------------------------------------------
(* Watcher, Manager and network.                                           *)

\* The submission keeps IInv.
LEMMA SubmitInv ==
  ASSUME IInv, TypeOK', Submit
  PROVE  IInv'
  <1>1. /\ client.state = "idle"
        /\ client' = [client EXCEPT !.state = "waiting"]
        /\ localRx' = Append(localRx, LocalXact)
        /\ UNCHANGED <<task, xact, chan, remoteRx, net, pg, faults, ballot, cause>>
    BY DEF Submit
  <1>2. TrueMessages'
    BY <1>1 DEF IInv, TrueMessages, TrueMessage, TrueVote, RealReason
  <1>3. PrepareOnce'
    BY <1>1 DEF IInv, PrepareOnce, PrepareInNet, PrepareAt, AtMostOnePrepare
  <1>4. SentOnce'
    <2>1. NothingSent' /\ localRx' = <<LocalXact>> /\ client'.state = "waiting"
      BY <1>1 DEF IInv, SentOnce, NothingSent, TypeOK, ClientState
    <2>2. /\ Len(localRx') = 1 /\ localRx'[1] = LocalXact /\ chan'[Coordinator] = <<>>
          /\ xact'[Coordinator].kind = "unknown"
      BY <1>1, <2>1 DEF IInv, SentOnce
    <2>3. QED
      BY <2>1, <2>2 DEF SentOnce
  <1>5. TaskMatchesVotes'
    BY <1>1 DEF IInv, TaskMatchesVotes, TrueYes, TrueNo, RealReason
  <1>6. TaskMatchesLabel'
    BY <1>1 DEF IInv, TaskMatchesLabel
  <1>7. OutcomeMatchesVotes'
    BY <1>1 DEF IInv, TypeOK, OutcomeMatchesVotes, AllYes, SomeNo, RealReason, ClientState
  <1>8. QED
    BY <1>2, <1>3, <1>4, <1>5, <1>6, <1>7 DEF IInv

\* Giving a message to a task that has not ended, or starting the task, keeps
\* what IInv says of tasks.
LEMMA DispatchTasks ==
  ASSUME IInv, NEW n \in Node, NEW m \in Message, Dispatch(n, m), task[n] \notin Stopped,
         UNCHANGED <<xact, pg, ballot, cause>>
  PROVE  TaskMatchesVotes' /\ TaskMatchesLabel'
  <1>1. /\ task' = [task EXCEPT ![n] = IF task[n] = "absent" THEN "recv" ELSE task[n]]
        /\ chan' = [chan EXCEPT ![n] = Append(chan[n], m)]
    BY DEF Dispatch
  <1>2. \A k \in Node : \/ task'[k] = task[k] /\ (task[k] = "absent" => k # n /\ chan'[k] = chan[k])
                        \/ task[k] = "absent" /\ task'[k] = "recv"
    BY <1>1 DEF IInv, TypeOK
  <1>3. \A k \in Node : task[k] = "absent" =>
          /\ xact[k].kind = "unknown" /\ xact[k].votes = <<>> /\ chan[k] = <<>>
          /\ xact[k].status = "Uninitialized" /\ xact[k].voted = {}
    BY DEF IInv, TaskMatchesLabel, TaskMatchesVotes
  <1>4. TaskMatchesVotes'
    <2>1. ASSUME NEW k \in Node, NEW v, task'[k] = task[k], TrueYes(k, v)
          PROVE  TrueYes(k, v)'
      BY <2>1 DEF TrueYes
    <2>2. ASSUME NEW k \in Node, task'[k] = task[k], TrueNo(k)
          PROVE  TrueNo(k)'
      BY <2>2 DEF TrueNo, RealReason
    <2>3. QED
      BY <1>2, <1>3, <2>1, <2>2 DEF IInv, TaskMatchesVotes
  <1>5. TaskMatchesLabel'
    <2> SUFFICES ASSUME NEW k \in Node
                 PROVE  TaskMatchesLabel!(k)'
      BY DEF TaskMatchesLabel
    <2>1. CASE task'[k] = task[k] /\ (task[k] = "absent" => k # n /\ chan'[k] = chan[k])
      BY <2>1 DEF IInv, TaskMatchesLabel
    <2>2. CASE task[k] = "absent" /\ task'[k] = "recv"
      BY <1>3, <2>2 DEF IInv, TaskMatchesLabel, Running, Stopped
    <2>3. QED
      BY <1>2, <2>1, <2>2
  <1>6. QED
    BY <1>4, <1>5

\* Starting the coordinator's task keeps IInv.
LEMMA ManagerLocalInv ==
  ASSUME IInv, TypeOK', ManagerLocal
  PROVE  IInv'
  <1>1. /\ NothingSent /\ Len(localRx) = 1 /\ localRx[1] = LocalXact
        /\ chan[Coordinator] = <<>> /\ xact[Coordinator].kind = "unknown"
    BY DEF ManagerLocal, IInv, SentOnce
  <1>2. localRx' = <<>> /\ Head(localRx) = LocalXact
    BY <1>1 DEF ManagerLocal, IInv, TypeOK
  <1>3. UNCHANGED <<xact, remoteRx, net, pg, faults, ballot, cause>>
    BY DEF ManagerLocal
  <1>4. CASE task[Coordinator] \in Stopped
    <2>1. /\ UNCHANGED <<task, chan>>
          /\ client' = IF client.state = "waiting" THEN [client EXCEPT !.state = "error"] ELSE client
      BY <1>4 DEF ManagerLocal, Dispatch, DropCommitTx
    <2>2. TrueMessages'
      BY <2>1, <1>3 DEF IInv, TrueMessages, TrueMessage, TrueVote, RealReason
    <2>3. PrepareOnce'
      BY <2>1, <1>3 DEF IInv, PrepareOnce, PrepareInNet, PrepareAt, AtMostOnePrepare
    <2>4. SentOnce'
      BY <1>1, <1>2, <1>3, <2>1 DEF IInv, SentOnce, NothingSent, TypeOK, ClientState
    <2>5. TaskMatchesVotes'
      BY <1>3, <2>1 DEF IInv, TaskMatchesVotes, TrueYes, TrueNo, RealReason
    <2>6. TaskMatchesLabel'
      BY <1>3, <2>1 DEF IInv, TaskMatchesLabel
    <2>7. OutcomeMatchesVotes'
      BY <1>3, <2>1 DEF IInv, TypeOK, OutcomeMatchesVotes, AllYes, SomeNo, RealReason, ClientState
    <2>8. QED
      BY <2>2, <2>3, <2>4, <2>5, <2>6, <2>7 DEF IInv
  <1>5. CASE task[Coordinator] \notin Stopped
    <2>1. /\ task' = [task EXCEPT ![Coordinator] = IF task[Coordinator] = "absent" THEN "recv"
                                                    ELSE task[Coordinator]]
          /\ chan' = [chan EXCEPT ![Coordinator] = <<LocalXact>>]
          /\ client' = client
      BY <1>1, <1>2, <1>5 DEF ManagerLocal, Dispatch
    <2>2. TrueMessages'
      BY <1>1, <1>3, <2>1
         DEF IInv, TypeOK, TrueMessages, TrueMessage, NothingSent, LocalXact
    <2>3. PrepareOnce'
      BY <1>1, <1>3, <2>1
         DEF IInv, TypeOK, PrepareOnce, PrepareInNet, PrepareAt, AtMostOnePrepare, NothingSent, LocalXact
    <2>4. SentOnce'
      <3>1. client'.state # "idle"
        BY <2>1 DEF ManagerLocal, IInv, SentOnce
      <3>2. NothingSent' /\ Len(chan'[Coordinator]) = 1 /\ xact'[Coordinator].kind = "unknown"
        BY <1>1, <1>3, <2>1 DEF IInv, TypeOK, NothingSent
      <3>3. QED
        BY <1>2, <3>1, <3>2 DEF SentOnce
    <2>5. TaskMatchesVotes'
      BY <1>2, <1>3, <1>5, DispatchTasks DEF ManagerLocal, LocalXact, Message
    <2>6. TaskMatchesLabel'
      BY <1>2, <1>3, <1>5, DispatchTasks DEF ManagerLocal, LocalXact, Message
    <2>7. OutcomeMatchesVotes'
      BY <1>3, <2>1 DEF IInv, TypeOK, OutcomeMatchesVotes, AllYes, SomeNo, RealReason
    <2>8. QED
      BY <2>2, <2>3, <2>4, <2>5, <2>6, <2>7 DEF IInv
  <1>6. QED
    BY <1>4, <1>5

\* The arrival of a call's message keeps IInv.
LEMMA DeliverInv ==
  ASSUME IInv, TypeOK', NEW m \in net, Deliver(m)
  PROVE  IInv'
  <1>1. /\ net' = net \ {m}
        /\ remoteRx' = [remoteRx EXCEPT ![m.to] = Append(remoteRx[m.to], m)]
        /\ UNCHANGED <<task, xact, chan, localRx, pg, client, faults, ballot, cause>>
    BY DEF Deliver
  <1>2. m \in Message /\ m.to \in Node /\ m.type # "LocalXact" /\ TrueMessage(m, m.to)
    BY DEF IInv, TypeOK, TrueMessages, Message
  <1>3. TrueMessages'
    <2>1. \A k \in Node : \A i \in 1..Len(remoteRx'[k]) :
            \/ i \in 1..Len(remoteRx[k]) /\ remoteRx'[k][i] = remoteRx[k][i]
            \/ k = m.to /\ remoteRx'[k][i] = m
      BY <1>1, <1>2 DEF IInv, TypeOK
    <2>2. HistoryGrows
      BY <1>1 DEF HistoryGrows
    <2>3. \A k \in Node : \A i \in 1..Len(remoteRx'[k]) :
            remoteRx'[k][i].type # "LocalXact" /\ TrueMessage(remoteRx'[k][i], k)
      BY <1>2, <2>1 DEF IInv, TrueMessages
    <2>4. QED
      BY <1>1, <2>2, <2>3, HistoryMessage, HistoryVote DEF IInv, TrueMessages
  <1>4. PrepareOnce'
    <2> SUFFICES ASSUME NEW k \in Node
                 PROVE  PrepareOnce!(k)'
      BY DEF PrepareOnce
    <2>1. CASE k # m.to \/ m.type # "Prepare"
      <3>1. PrepareInNet(k)' = PrepareInNet(k)
        BY <1>1, <2>1 DEF PrepareInNet
      <3>2. PrepareAt(remoteRx'[k]) = PrepareAt(remoteRx[k])
        BY <1>1, <1>2, <2>1 DEF PrepareAt, IInv, TypeOK
      <3>3. AtMostOnePrepare(remoteRx'[k])
        <4>1. AtMostOnePrepare(remoteRx[k])
          BY DEF IInv, PrepareOnce
        <4>2. \A i \in 1..Len(remoteRx'[k]) :
                \/ i \in 1..Len(remoteRx[k]) /\ remoteRx'[k][i] = remoteRx[k][i]
                \/ remoteRx'[k][i].type # "Prepare"
          BY <1>1, <1>2, <2>1 DEF IInv, TypeOK
        <4>3. QED
          BY <4>1, <4>2 DEF AtMostOnePrepare
      <3>4. QED
        BY <1>1, <3>1, <3>2, <3>3 DEF IInv, PrepareOnce
    <2>2. CASE k = m.to /\ m.type = "Prepare"
      <3>1. PrepareInNet(k) /\ ~PrepareAt(remoteRx[k]) /\ ~PrepareAt(chan[k])
        BY <2>2 DEF PrepareInNet, IInv, PrepareOnce
      <3>2. ~PrepareInNet(k)'
        <4>1. ASSUME NEW q \in net, q.type = "Prepare", q.to = k
              PROVE  q = [type |-> "Prepare", from |-> Coordinator, to |-> k, reason |-> None]
          <5>1. q \in Message /\ q.from = Coordinator /\ q.reason = None
            BY <4>1 DEF IInv, TypeOK, TrueMessages, TrueMessage
          <5>2. QED
            BY <4>1, <5>1 DEF Message
        <4>2. \A q \in net : q.type = "Prepare" /\ q.to = k => q = m
          BY <2>2, <4>1
        <4>3. QED
          BY <1>1, <4>2 DEF PrepareInNet
      <3>3. AtMostOnePrepare(remoteRx'[k])
        BY <1>1, <1>2, <2>2, <3>1 DEF AtMostOnePrepare, PrepareAt, IInv, TypeOK
      <3>4. QED
        BY <1>1, <3>1, <3>2, <3>3 DEF IInv, PrepareOnce
    <2>3. QED
      BY <2>1, <2>2
  <1>5. SentOnce'
    BY <1>1 DEF IInv, SentOnce, NothingSent
  <1>6. TaskMatchesVotes'
    BY <1>1 DEF IInv, TaskMatchesVotes, TrueYes, TrueNo, RealReason
  <1>7. TaskMatchesLabel'
    BY <1>1 DEF IInv, TaskMatchesLabel
  <1>8. OutcomeMatchesVotes'
    BY <1>1 DEF IInv, OutcomeMatchesVotes, AllYes, SomeNo, RealReason
  <1>9. QED
    BY <1>3, <1>4, <1>5, <1>6, <1>7, <1>8 DEF IInv

\* Passing a message to a task keeps IInv.
LEMMA ManagerRemoteInv ==
  ASSUME IInv, TypeOK', NEW n \in Node, ManagerRemote(n)
  PROVE  IInv'
  <1> DEFINE m == remoteRx[n][1]
  <1>1. /\ remoteRx[n] # <<>> /\ Head(remoteRx[n]) = m
        /\ remoteRx' = [remoteRx EXCEPT ![n] = Tail(remoteRx[n])]
        /\ Dispatch(n, m)
        /\ UNCHANGED <<xact, localRx, net, pg, client, faults, ballot, cause>>
    BY DEF ManagerRemote, IInv, TypeOK
  <1>2. 1 \in 1..Len(remoteRx[n]) /\ m \in Message /\ m.type # "LocalXact" /\ TrueMessage(m, n)
    BY <1>1 DEF IInv, TypeOK, TrueMessages
  <1>3. ~NothingSent
    BY <1>1 DEF NothingSent
  <1>4. /\ \A i \in 1..Len(remoteRx'[n]) :
               i + 1 \in 1..Len(remoteRx[n]) /\ remoteRx'[n][i] = remoteRx[n][i + 1]
        /\ \A k \in Node \ {n} : remoteRx'[k] = remoteRx[k]
    BY <1>1, <1>2 DEF IInv, TypeOK
  <1>5. /\ PrepareAt(remoteRx'[n]) => PrepareAt(remoteRx[n])
        /\ AtMostOnePrepare(remoteRx'[n])
        /\ m.type = "Prepare" => ~PrepareAt(remoteRx'[n])
    <2>1. remoteRx[n] \in Seq(Message) /\ AtMostOnePrepare(remoteRx[n])
      BY DEF IInv, TypeOK, PrepareOnce
    <2>2. /\ PrepareAt(Tail(remoteRx[n])) => PrepareAt(remoteRx[n])
          /\ AtMostOnePrepare(Tail(remoteRx[n]))
          /\ m.type = "Prepare" => ~PrepareAt(Tail(remoteRx[n]))
      BY <1>1, <2>1, PrepareInTail
    <2>3. remoteRx'[n] = Tail(remoteRx[n])
      BY <1>1 DEF IInv, TypeOK
    <2>4. QED
      BY <2>2, <2>3
  <1>6. CASE task[n] \in Stopped
    <2>1. UNCHANGED <<task, chan>>
      BY <1>1, <1>6 DEF Dispatch
    <2>2. TrueMessages'
      <3>1. HistoryGrows
        BY <1>1 DEF HistoryGrows
      <3>2. QED
        BY <1>1, <1>4, <2>1, <3>1, MessagesKept DEF IInv
    <2>3. PrepareOnce'
      <3> SUFFICES ASSUME NEW k \in Node
                   PROVE  PrepareOnce!(k)'
        BY DEF PrepareOnce
      <3>1. PrepareInNet(k)' = PrepareInNet(k)
        BY <1>1 DEF PrepareInNet
      <3>2. CASE k # n
        BY <1>1, <1>4, <2>1, <3>1, <3>2 DEF IInv, PrepareOnce
      <3>3. CASE k = n
        BY <1>1, <1>5, <2>1, <3>1, <3>3 DEF IInv, PrepareOnce
      <3>4. QED
        BY <3>2, <3>3
    <2>4. SentOnce'
      BY <1>1, <1>3, <2>1 DEF IInv, SentOnce
    <2>5. TaskMatchesVotes'
      BY <1>1, <2>1 DEF IInv, TaskMatchesVotes, TrueYes, TrueNo, RealReason
    <2>6. TaskMatchesLabel'
      BY <1>1, <2>1 DEF IInv, TaskMatchesLabel
    <2>7. OutcomeMatchesVotes'
      BY <1>1 DEF IInv, OutcomeMatchesVotes, AllYes, SomeNo, RealReason
    <2>8. QED
      BY <2>2, <2>3, <2>4, <2>5, <2>6, <2>7 DEF IInv
  <1>7. CASE task[n] \notin Stopped
    <2>1. /\ task' = [task EXCEPT ![n] = IF task[n] = "absent" THEN "recv" ELSE task[n]]
          /\ chan' = [chan EXCEPT ![n] = Append(chan[n], m)]
      BY <1>1, <1>7 DEF Dispatch
    <2>2. \A k \in Node : \A i \in 1..Len(chan'[k]) :
            \/ i \in 1..Len(chan[k]) /\ chan'[k][i] = chan[k][i]
            \/ k = n /\ i = Len(chan[k]) + 1 /\ chan'[k][i] = m
      BY <1>2, <2>1, SMTT(20) DEF IInv, TypeOK
    <2> HIDE DEF m
    <2>3. TrueMessages'
      <3>1. HistoryGrows
        BY <1>1 DEF HistoryGrows
      <3>2. \A k \in Node : \A i \in 1..Len(chan'[k]) : TrueMessage(chan'[k][i], k)
        BY <1>2, <2>2 DEF IInv, TrueMessages
      <3>3. \A k \in Node : \A i \in 1..Len(remoteRx'[k]) :
              remoteRx'[k][i].type # "LocalXact" /\ TrueMessage(remoteRx'[k][i], k)
        BY <1>4 DEF IInv, TrueMessages
      <3>4. QED
        BY <1>1, <3>1, <3>2, <3>3, HistoryMessage, HistoryVote DEF IInv, TrueMessages
    <2>4. PrepareOnce'
      <3> SUFFICES ASSUME NEW k \in Node
                   PROVE  PrepareOnce!(k)'
        BY DEF PrepareOnce
      <3>1. PrepareInNet(k)' = PrepareInNet(k)
        BY <1>1 DEF PrepareInNet
      <3>2. CASE k # n
        BY <1>1, <1>4, <2>1, <3>1, <3>2 DEF IInv, TypeOK, PrepareOnce
      <3>3. CASE k = n /\ m.type # "Prepare"
        <4>1. /\ PrepareAt(remoteRx'[k]) => PrepareAt(remoteRx[k])
              /\ PrepareAt(chan'[k]) => PrepareAt(chan[k])
          BY <1>2, <1>4, <2>2, <3>3 DEF PrepareAt
        <4>2. AtMostOnePrepare(remoteRx'[k]) /\ AtMostOnePrepare(chan'[k])
          <5>1. AtMostOnePrepare(remoteRx[k]) /\ AtMostOnePrepare(chan[k])
            BY DEF IInv, PrepareOnce
          <5>2. AtMostOnePrepare(remoteRx'[k])
            BY <1>5, <3>3
          <5>3. AtMostOnePrepare(chan'[k])
            BY <2>2, <3>3, <5>1 DEF AtMostOnePrepare
          <5>4. QED
            BY <5>2, <5>3
        <4>3. QED
          BY <1>1, <3>1, <4>1, <4>2 DEF IInv, PrepareOnce
      <3>4. CASE k = n /\ m.type = "Prepare"
        <4>1. PrepareAt(remoteRx[k]) /\ ~PrepareAt(chan[k]) /\ ~PrepareInNet(k)
          BY <1>2, <3>4 DEF PrepareAt, IInv, PrepareOnce, m
        <4>2. ~PrepareAt(remoteRx'[k])
          BY <1>5, <3>4
        <4>3. AtMostOnePrepare(remoteRx'[k]) /\ AtMostOnePrepare(chan'[k])
          BY <2>2, <3>4, <4>1, <4>2 DEF AtMostOnePrepare, PrepareAt
        <4>4. QED
          BY <1>1, <3>1, <4>1, <4>2, <4>3 DEF IInv, PrepareOnce
      <3>5. QED
        BY <3>2, <3>3, <3>4
    <2>5. SentOnce'
      BY <1>1, <1>2, <1>3, <2>1, <2>2 DEF IInv, TypeOK, SentOnce
    <2>6. TaskMatchesVotes' /\ TaskMatchesLabel'
      BY <1>1, <1>2, <1>7, DispatchTasks
    <2>7. OutcomeMatchesVotes'
      BY <1>1 DEF IInv, OutcomeMatchesVotes, AllYes, SomeNo, RealReason
    <2>8. QED
      BY <2>3, <2>4, <2>5, <2>6, <2>7 DEF IInv
  <1>8. QED
    BY <1>6, <1>7

----------------------------------------------------------------------------
(* Steps of a task.                                                        *)

\* A step of one task leaves what IInv says of another.
LEMMA OtherTask ==
  ASSUME IInv, HistoryGrows, NEW k \in Node,
         task'[k] = task[k], xact'[k] = xact[k], chan'[k] = chan[k],
         pg'[k] = pg[k], ballot'[k] = ballot[k], cause'[k] = cause[k]
  PROVE  TaskMatchesVotes!(k)' /\ TaskMatchesLabel!(k)'
  <1>1. \A v : TrueYes(k, v) => TrueYes(k, v)'
    BY DEF TrueYes, HistoryGrows, Surrogates
  <1>2. TrueNo(k) => TrueNo(k)'
    BY HistoryReason DEF TrueNo, HistoryGrows, Surrogates
  <1>3. TaskMatchesVotes!(k)'
    BY <1>1, <1>2 DEF IInv, TaskMatchesVotes
  <1>4. TaskMatchesLabel!(k)'
    BY DEF IInv, TaskMatchesLabel
  <1>5. QED
    BY <1>3, <1>4

\* The state after init_as_local or init_as_surrogate, before execution.
LEMMA InitAsEffect ==
  ASSUME NEW x \in XactType, x.voted = {}, x.info = NoInfo,
         NEW kind \in {"local", "surrogate"}, NEW y,
         y = AddVote(Initialized(x, kind), YesVote(Coordinator))
  PROVE  /\ y.kind = kind /\ y.votes = x.votes /\ y.info = NoInfo
         /\ y.voted \subseteq {Coordinator}
         /\ \/ y.status = "Waiting"
            \/ y.status = "Committing" /\ y.voted = Participants
  BY DEF AddVote, Initialized, YesVote, VoteOf, XactType

\* The coordinator's task takes up the transaction.
LEMMA HandleLocalXactInv ==
  ASSUME IInv, TypeOK', NEW n \in Node, HandleLocalXact(n)
  PROVE  IInv'
  <1>1. CASE xact[n].kind = "unknown"
    <2>1. /\ task' = [task EXCEPT ![n] = "existing"]
          /\ chan' = [chan EXCEPT ![n] = Tail(chan[n])]
          /\ xact' = [xact EXCEPT ![n] = InitAsLocal(xact[n])]
          /\ chan[n] # <<>> /\ Head(chan[n]).type = "LocalXact"
          /\ UNCHANGED <<localRx, remoteRx, net, pg, client, faults, ballot, cause>>
      BY <1>1 DEF HandleLocalXact, Receives, Goto, Dequeue
    <2>2. 1 \in 1..Len(chan[n]) /\ chan[n][1].type = "LocalXact"
      BY <2>1 DEF IInv, TypeOK
    <2>3. n = Coordinator
      BY <2>2 DEF IInv, TrueMessages, TrueMessage
    <2>4. NothingSent /\ localRx = <<>> /\ Len(chan[n]) = 1 /\ client.state # "idle"
      BY <2>1, <2>2, <2>3 DEF IInv, SentOnce
    <2>5. chan'[n] = <<>>
      BY <2>1, <2>4, EmptyTail DEF IInv, TypeOK
    <2> DEFINE y == xact'[n]
    <2>6. /\ y.kind = "local" /\ y.votes = xact[n].votes /\ y.info = NoInfo
          /\ y.voted \subseteq {Coordinator}
          /\ \/ y.status = "Waiting"
             \/ y.status = "Committing" /\ y.voted = Participants
      <3>1. xact[n] \in XactType /\ xact[n].voted = {} /\ xact[n].info = NoInfo
        BY <1>1 DEF IInv, TypeOK, TaskMatchesVotes
      <3>2. y = AddVote(Initialized(xact[n], "local"), YesVote(Coordinator))
        BY <2>1 DEF InitAsLocal, IInv, TypeOK
      <3> HIDE DEF y
      <3>3. QED
        BY <3>1, <3>2, InitAsEffect
    <2>7. HistoryGrows
      BY <2>1 DEF HistoryGrows
    <2>8. \A k \in Node \ {n} : task'[k] = task[k] /\ xact'[k] = xact[k] /\ chan'[k] = chan[k]
      BY <2>1 DEF IInv, TypeOK
    <2>9. NothingSent'
      BY <2>1, <2>3, <2>4, <2>6, <2>8 DEF NothingSent
    <2>10. TrueMessages'
      BY <2>3, <2>5, <2>9 DEF TrueMessages, NothingSent
    <2>11. PrepareOnce'
      BY <2>3, <2>5, <2>9 DEF PrepareOnce, PrepareInNet, PrepareAt, AtMostOnePrepare, NothingSent
    <2>12. SentOnce'
      BY <2>1, <2>3, <2>4, <2>5, <2>9 DEF SentOnce
    <2>13. TaskMatchesVotes' /\ TaskMatchesLabel'
      <3> SUFFICES ASSUME NEW k \in Node
                   PROVE  TaskMatchesVotes!(k)' /\ TaskMatchesLabel!(k)'
        BY DEF TaskMatchesVotes, TaskMatchesLabel
      <3>1. CASE k # n
        BY <2>1, <2>7, <2>8, <3>1, OtherTask
      <3>2. CASE k = n
        <4>1. task'[n] = "existing"
          BY <2>1 DEF IInv, TypeOK
        <4>2. QED
          BY <2>3, <2>6, <3>2, <4>1 DEF TrueYes, Stopped
      <3>3. QED
        BY <3>1, <3>2
    <2>14. OutcomeMatchesVotes'
      BY <2>1 DEF IInv, OutcomeMatchesVotes, AllYes, SomeNo, RealReason
    <2>15. QED
      BY <2>10, <2>11, <2>12, <2>13, <2>14 DEF IInv
  <1>2. CASE xact[n].kind # "unknown"
    BY <1>2, AbandonInv, Labels DEF HandleLocalXact
  <1>3. QED
    BY <1>1, <1>2

\* A surrogate's task takes up the transaction.
LEMMA HandlePrepareInv ==
  ASSUME IInv, TypeOK', NEW n \in Node, HandlePrepare(n)
  PROVE  IInv'
  <1>1. CASE n \in Participants /\ xact[n].kind = "unknown"
    <2>1. /\ task' = [task EXCEPT ![n] = "execute"]
          /\ chan' = [chan EXCEPT ![n] = Tail(chan[n])]
          /\ xact' = [xact EXCEPT ![n] = InitAsSurrogate(xact[n])]
          /\ chan[n] # <<>> /\ Head(chan[n]).type = "Prepare"
          /\ UNCHANGED <<localRx, remoteRx, net, pg, client, faults, ballot, cause>>
      BY <1>1 DEF HandlePrepare, Receives, Goto, Dequeue
    <2>2. /\ chan[n] \in Seq(Message) /\ chan'[n] = Tail(chan[n])
          /\ 1 \in 1..Len(chan[n]) /\ chan[n][1].type = "Prepare"
      BY <2>1 DEF IInv, TypeOK
    <2>3. n \in Surrogates
      BY <2>2 DEF IInv, TrueMessages, TrueMessage
    <2> DEFINE y == xact'[n]
    <2>4. /\ y.kind = "surrogate" /\ y.votes = xact[n].votes /\ y.info = NoInfo
          /\ y.voted \subseteq {Coordinator} /\ y.status = "Waiting"
      <3>1. xact[n] \in XactType /\ xact[n].voted = {} /\ xact[n].info = NoInfo
        BY <1>1 DEF IInv, TypeOK, TaskMatchesVotes
      <3>2. y = AddVote(Initialized(xact[n], "surrogate"), YesVote(Coordinator))
        BY <2>1 DEF InitAsSurrogate, IInv, TypeOK
      <3>3. n \in Participants /\ n # Coordinator
        BY <2>3 DEF Surrogates
      <3> HIDE DEF y
      <3>4. /\ y.kind = "surrogate" /\ y.votes = xact[n].votes /\ y.info = NoInfo
            /\ y.voted \subseteq {Coordinator}
            /\ y.status = "Waiting" \/ (y.status = "Committing" /\ y.voted = Participants)
        BY <3>1, <3>2, InitAsEffect
      <3>5. QED
        BY <3>3, <3>4
    <2>5. HistoryGrows
      BY <2>1 DEF HistoryGrows
    <2>6. \A k \in Node \ {n} : task'[k] = task[k] /\ xact'[k] = xact[k] /\ chan'[k] = chan[k]
      BY <2>1 DEF IInv, TypeOK
    <2>7. /\ \A i \in 1..Len(chan'[n]) : i + 1 \in 1..Len(chan[n]) /\ chan'[n][i] = chan[n][i + 1]
          /\ ~PrepareAt(chan'[n]) /\ AtMostOnePrepare(chan'[n])
          /\ ~PrepareInNet(n) /\ ~PrepareAt(remoteRx[n])
          /\ pg[n] = "none" /\ ballot[n] = "unset" /\ cause[n] = None
      BY <2>1, <2>2, PrepareInTail DEF IInv, PrepareOnce
    <2> HIDE DEF y
    <2>8. TrueMessages'
      <3>1. \A k \in Node : \A i \in 1..Len(chan'[k]) :
              \E j \in 1..Len(chan[k]) : chan'[k][i] = chan[k][j]
        BY <2>6, <2>7
      <3>2. \A k \in Node : xact'[k].votes = xact[k].votes
        BY <2>4, <2>6 DEF y
      <3>3. QED
        BY <2>1, <2>5, <3>1, <3>2, MessagesKept DEF IInv
    <2>9. PrepareOnce'
      <3> SUFFICES ASSUME NEW k \in Node
                   PROVE  PrepareOnce!(k)'
        BY DEF PrepareOnce
      <3>1. PrepareInNet(k)' = PrepareInNet(k)
        BY <2>1 DEF PrepareInNet
      <3>2. CASE k = n
        BY <2>1, <2>7, <3>1, <3>2 DEF IInv, PrepareOnce
      <3>3. CASE k # n
        BY <2>1, <2>6, <3>1, <3>3 DEF IInv, PrepareOnce
      <3>4. QED
        BY <3>2, <3>3
    <2>10. SentOnce'
      <3>1. ~NothingSent
        BY <2>2, <2>3 DEF NothingSent, Surrogates
      <3>2. chan'[Coordinator] = chan[Coordinator] /\ xact'[Coordinator] = xact[Coordinator]
            /\ task'[Coordinator] = task[Coordinator]
        BY <2>3, <2>6 DEF Surrogates
      <3>3. QED
        BY <2>1, <3>1, <3>2 DEF IInv, SentOnce
    <2>11. TaskMatchesVotes' /\ TaskMatchesLabel'
      <3> SUFFICES ASSUME NEW k \in Node
                   PROVE  TaskMatchesVotes!(k)' /\ TaskMatchesLabel!(k)'
        BY DEF TaskMatchesVotes, TaskMatchesLabel
      <3>1. CASE k # n
        BY <2>1, <2>5, <2>6, <3>1, OtherTask
      <3>2. CASE k = n
        <4>1. task'[n] = "execute"
          BY <2>1 DEF IInv, TypeOK
        <4>2. QED
          BY <2>1, <2>3, <2>4, <2>7, <3>2, <4>1 DEF TrueYes, Stopped, y
      <3>3. QED
        BY <3>1, <3>2
    <2>12. OutcomeMatchesVotes'
      BY <2>1 DEF IInv, OutcomeMatchesVotes, AllYes, SomeNo, RealReason
    <2>13. QED
      BY <2>8, <2>9, <2>10, <2>11, <2>12 DEF IInv
  <1>2. CASE ~(n \in Participants /\ xact[n].kind = "unknown")
    BY <1>2, AbandonInv, Labels DEF HandlePrepare
  <1>3. QED
    BY <1>1, <1>2

\* execute() returns, with or without an error, and the node votes for itself.
LEMMA OwnVoteInv ==
  ASSUME IInv, TypeOK', NEW n \in Node, NEW r \in Reason \cup {None},
         task[n] = "execute", CastOwnVote(n, r),
         NEW s \in {"prepared", "aborted"}, r = None => s = "prepared",
         pg' = [pg EXCEPT ![n] = s],
         cause' = [cause EXCEPT ![n] = r],
         UNCHANGED <<localRx, remoteRx, net, ballot>>
  PROVE  IInv'
  <1>1. /\ xact[n].kind = "surrogate" /\ xact[n].status = "Waiting"
        /\ xact[n].voted \subseteq {Coordinator}
        /\ pg[n] = "none" /\ ballot[n] = "unset" /\ cause[n] = None
    BY DEF IInv, TaskMatchesLabel
  <1>2. n \in Surrogates /\ n \in Participants /\ n # Coordinator
    BY <1>1 DEF IInv, TaskMatchesVotes, Surrogates
  <1>3. /\ task' = [task EXCEPT ![n] = "existing"]
        /\ xact' = [xact EXCEPT ![n] = AddVote(xact[n], VoteOf(n, r))]
        /\ UNCHANGED <<chan, client>>
    BY <1>1 DEF CastOwnVote, MayAddVote, Goto
  <1>4. /\ \A k \in Node \ {n} : /\ task'[k] = task[k] /\ xact'[k] = xact[k]
                                 /\ pg'[k] = pg[k] /\ cause'[k] = cause[k]
        /\ task'[n] = "existing" /\ pg'[n] = s /\ cause'[n] = r
        /\ xact'[n] = AddVote(xact[n], VoteOf(n, r))
    BY <1>3 DEF IInv, TypeOK
  <1> DEFINE y == xact'[n]
  <1>5. /\ y.kind = "surrogate" /\ y.votes = xact[n].votes
        /\ r # None => /\ y.status = "Rollbacking" /\ y.info = [by |-> n, reason |-> r]
        /\ r = None => /\ y.voted \subseteq {Coordinator, n} /\ y.info = xact[n].info
                       /\ \/ y.status = "Waiting"
                          \/ y.status = "Committing" /\ y.voted = Participants
    <2>1. xact[n] \in XactType
      BY DEF IInv, TypeOK
    <2>2. QED
      BY <1>1, <1>2, <1>4, <2>1 DEF AddVote, VoteOf, XactType
  <1> HIDE DEF y
  <1>6. HistoryGrows
    BY <1>1, <1>4 DEF HistoryGrows
  <1>7. ~NothingSent
    BY <1>1 DEF NothingSent
  <1>8. TrueMessages'
    <2>1. \A k \in Node : xact'[k].votes = xact[k].votes
      BY <1>4, <1>5 DEF y
    <2>2. QED
      BY <1>3, <1>6, <2>1, MessagesKept DEF IInv
  <1>9. PrepareOnce'
    <2> SUFFICES ASSUME NEW k \in Node
                 PROVE  PrepareOnce!(k)'
      BY DEF PrepareOnce
    <2>1. PrepareInNet(k)' = PrepareInNet(k)
      BY DEF PrepareInNet
    <2>2. CASE k = n
      BY <1>1, <1>3, <2>1, <2>2 DEF IInv, PrepareOnce
    <2>3. CASE k # n
      BY <1>3, <1>4, <2>1, <2>3 DEF IInv, PrepareOnce
    <2>4. QED
      BY <2>2, <2>3
  <1>10. SentOnce'
    BY <1>2, <1>3, <1>4, <1>7 DEF IInv, SentOnce
  <1>11. TaskMatchesVotes' /\ TaskMatchesLabel'
    <2> SUFFICES ASSUME NEW k \in Node
                 PROVE  TaskMatchesVotes!(k)' /\ TaskMatchesLabel!(k)'
      BY DEF TaskMatchesVotes, TaskMatchesLabel
    <2>1. CASE k # n
      BY <1>3, <1>4, <1>6, <2>1, OtherTask
    <2>2. CASE k = n
      <3>1. CASE r = None
        <4>1. y.info = NoInfo
          BY <1>1, <1>5, <3>1 DEF IInv, TaskMatchesVotes
        <4>2. QED
          BY <1>1, <1>2, <1>4, <1>5, <2>2, <3>1, <4>1 DEF TrueYes, Stopped, y
      <3>2. CASE r # None
        <4>1. r \in Reason /\ RealReason(r)'
          BY <1>2, <1>4, <3>2 DEF RealReason
        <4>2. TrueNo(n)'
          BY <1>2, <1>4, <1>5, <3>2, <4>1 DEF TrueNo, y
        <4>3. QED
          BY <1>1, <1>2, <1>4, <1>5, <2>2, <3>2, <4>2 DEF Stopped, y
      <3>3. QED
        BY <3>1, <3>2
    <2>3. QED
      BY <2>1, <2>2
  <1>12. OutcomeMatchesVotes'
    <2>1. \A k \in Node : cause[k] # None => cause'[k] = cause[k]
      BY <1>6 DEF HistoryGrows
    <2>2. ~AllYes
      BY <1>1, <1>2 DEF AllYes
    <2>3. \A q : RealReason(q) => RealReason(q)'
      BY <1>6, HistoryReason
    <2>4. (\E k \in Surrogates : cause[k] # None) => \E k \in Surrogates : cause'[k] # None
      BY <2>1 DEF Surrogates
    <2>5. QED
      BY <1>1, <1>2, <1>3, <1>4, <2>1, <2>2, <2>3, <2>4 DEF IInv, OutcomeMatchesVotes, AllYes, SomeNo
  <1>13. QED
    BY <1>8, <1>9, <1>10, <1>11, <1>12 DEF IInv

\* Adding a vote that is true to its sender keeps the state of a live task true.
LEMMA AddTrueVote ==
  ASSUME IInv, NEW n \in Node, NEW v \in Vote, TrueVote(v.from, v.reason),
         task[n] \in Running, NEW y, y = AddVote(xact[n], v)
  PROVE  /\ y.kind = xact[n].kind /\ y.votes = xact[n].votes
         /\ y.status \in {"Committing", "Committed"} => y.voted = Participants
         /\ y.status \in {"Rollbacking", "Rollbacked"} =>
              \/ y.status = xact[n].status /\ y.info = xact[n].info
              \/ /\ y.status = "Rollbacking" /\ y.info.by \in Surrogates
                 /\ ballot[y.info.by] = "no" /\ RealReason(y.info.reason)
         /\ y.status \notin {"Rollbacking", "Rollbacked"} =>
              /\ y.info = NoInfo
              /\ xact[n].status \notin {"Rollbacking", "Rollbacked"}
              /\ \A u \in y.voted : TrueYes(n, u)
              /\ y.status = "Uninitialized" <=> xact[n].status = "Uninitialized"
              /\ y.status \in {"Waiting", "Committing"} => xact[n].status \in {"Waiting", "Committing"}
         /\ y.status \in Terminal => y.status = xact[n].status
         /\ xact[n].status = "Rollbacking" => y.status = "Rollbacking"
         /\ xact[n].status = "Uninitialized" => y = xact[n]
  <1>1. /\ xact[n] \in XactType
        /\ xact[n].status \notin {"Rollbacking", "Rollbacked"} =>
             xact[n].info = NoInfo /\ \A u \in xact[n].voted : TrueYes(n, u)
        /\ xact[n].status \in {"Committing", "Committed"} => xact[n].voted = Participants
    BY DEF IInv, TypeOK, TaskMatchesVotes
  <1>2. CASE y = xact[n]
    BY <1>1, <1>2 DEF Terminal
  <1>3. CASE /\ xact[n].status = "Waiting" /\ v.reason # None
             /\ y = [xact[n] EXCEPT !.status = "Rollbacking",
                                    !.info = [by |-> v.from, reason |-> v.reason]]
    <2>1. y.kind = xact[n].kind /\ y.votes = xact[n].votes /\ y.status = "Rollbacking"
          /\ y.info.by = v.from /\ y.info.reason = v.reason
      BY <1>1, <1>3 DEF XactType
    <2>2. QED
      BY <1>3, <2>1 DEF TrueVote, Terminal
  <1>4. CASE /\ xact[n].status = "Waiting" /\ v.reason = None
             /\ y = [xact[n] EXCEPT !.voted = xact[n].voted \cup {v.from},
                                    !.status = IF xact[n].voted \cup {v.from} = Participants
                                                 THEN "Committing" ELSE xact[n].status]
    <2>1. /\ y.kind = xact[n].kind /\ y.votes = xact[n].votes /\ y.info = xact[n].info
          /\ y.voted = xact[n].voted \cup {v.from}
          /\ y.status = "Waiting" \/ (y.status = "Committing" /\ y.voted = Participants)
      BY <1>1, <1>4 DEF XactType
    <2>2. TrueYes(n, v.from)
      BY <1>4 DEF TrueVote, TrueYes
    <2>3. QED
      BY <1>1, <1>4, <2>1, <2>2 DEF Terminal
  <1>5. QED
    BY <1>2, <1>3, <1>4 DEF AddVote

\* One early vote is added.
LEMMA AddExistingInv ==
  ASSUME IInv, TypeOK', NEW n \in Node, AddExisting(n)
  PROVE  IInv'
  <1>1. CASE MayAddVote(xact[n])
    <2>1. /\ task[n] = "existing" /\ xact[n].votes # <<>>
          /\ xact' = [xact EXCEPT ![n] = AddExistingVote(xact[n])]
          /\ UNCHANGED <<task, chan, client, localRx, remoteRx, net, pg, faults, ballot, cause>>
      BY <1>1 DEF AddExisting
    <2> DEFINE v == Head(xact[n].votes)
               y == AddVote(xact[n], v)
    <2>2. /\ xact[n] \in XactType /\ xact[n].votes \in Seq(Vote) /\ v \in Vote
          /\ 1 \in 1..Len(xact[n].votes) /\ v = xact[n].votes[1]
      BY <2>1 DEF IInv, TypeOK, XactType
    <2>3. TrueVote(v.from, v.reason)
      BY <2>2 DEF IInv, TrueMessages
    <2>4. task[n] \in Running
      BY <2>1 DEF Running
    <2>5. y \in XactType
      BY <2>2, AddVoteType
    <2>6. /\ xact'[n].kind = y.kind /\ xact'[n].status = y.status /\ xact'[n].info = y.info
          /\ xact'[n].voted = y.voted /\ xact'[n].votes = Tail(xact[n].votes)
          /\ \A k \in Node \ {n} : xact'[k] = xact[k]
      BY <2>1, <2>5 DEF AddExistingVote, IInv, TypeOK, XactType
    <2>7. \A i \in 1..Len(xact'[n].votes) : i + 1 \in 1..Len(xact[n].votes)
                                            /\ xact'[n].votes[i] = xact[n].votes[i + 1]
      <3>1. \A i \in 1..Len(Tail(xact[n].votes)) : i + 1 \in 1..Len(xact[n].votes)
                                            /\ Tail(xact[n].votes)[i] = xact[n].votes[i + 1]
        BY <2>1, <2>2, TailItems
      <3>2. QED
        BY <2>6, <3>1
    <2> HIDE DEF v, y
    <2>8. /\ y.kind = xact[n].kind
          /\ y.status \in {"Committing", "Committed"} => y.voted = Participants
          /\ y.status \in {"Rollbacking", "Rollbacked"} =>
               \/ y.status = xact[n].status /\ y.info = xact[n].info
               \/ /\ y.status = "Rollbacking" /\ y.info.by \in Surrogates
                  /\ ballot[y.info.by] = "no" /\ RealReason(y.info.reason)
          /\ y.status \notin {"Rollbacking", "Rollbacked"} =>
               y.info = NoInfo /\ \A u \in y.voted : TrueYes(n, u)
          /\ y.status \in Terminal => y.status = xact[n].status
          /\ xact[n].status = "Rollbacking" => y.status = "Rollbacking"
      BY <2>2, <2>3, <2>4, AddTrueVote DEF y
    <2>9. HistoryGrows
      BY <2>1 DEF HistoryGrows
    <2>10. TrueMessages'
      <3>1. \A k \in Node : \A i \in 1..Len(xact'[k].votes) :
              \E j \in 1..Len(xact[k].votes) : xact'[k].votes[i] = xact[k].votes[j]
        <4> TAKE k \in Node
        <4> TAKE i \in 1..Len(xact'[k].votes)
        <4>1. CASE k = n
          BY <2>7, <4>1
        <4>2. CASE k # n
          BY <2>6, <4>2
        <4>3. QED
          BY <4>1, <4>2
      <3>2. QED
        BY <2>1, <2>9, <3>1, MessagesKept DEF IInv
    <2>11. \A k \in Node : xact'[k].kind = xact[k].kind
      BY <2>6, <2>8
    <2>12. PrepareOnce'
      BY <2>1, <2>11 DEF IInv, PrepareOnce, PrepareInNet
    <2>13. SentOnce'
      <3>1. ~NothingSent
        BY <2>1 DEF NothingSent
      <3>2. QED
        BY <2>1, <2>11, <3>1 DEF IInv, SentOnce
    <2>14. TaskMatchesVotes' /\ TaskMatchesLabel'
      <3> SUFFICES ASSUME NEW k \in Node
                   PROVE  TaskMatchesVotes!(k)' /\ TaskMatchesLabel!(k)'
        BY DEF TaskMatchesVotes, TaskMatchesLabel
      <3>1. CASE k # n
        BY <2>1, <2>6, <2>9, <3>1, OtherTask
      <3>2. CASE k = n
        <4>1. \A u : TrueYes(n, u) => TrueYes(n, u)'
          BY <2>1 DEF TrueYes
        <4>2. y.status \in {"Rollbacking", "Rollbacked"} => TrueNo(n)'
          BY <2>1, <2>6, <2>8 DEF TrueNo, RealReason, IInv, TaskMatchesVotes
        <4>3. xact[n].kind # "unknown" /\ y.status \notin Terminal
          BY <2>1, <2>8 DEF IInv, TaskMatchesLabel, Terminal, Stopped
        <4>4. TaskMatchesVotes!(n)'
          BY <2>1, <2>6, <2>8, <4>1, <4>2, <4>3 DEF IInv, TaskMatchesVotes
        <4>5. TaskMatchesLabel!(n)'
          BY <2>1, <2>6, <2>8, <4>3 DEF IInv, TaskMatchesLabel, Terminal
        <4>6. QED
          BY <3>2, <4>4, <4>5
      <3>3. QED
        BY <3>1, <3>2
    <2>15. OutcomeMatchesVotes'
      BY <2>1 DEF IInv, OutcomeMatchesVotes, AllYes, SomeNo, RealReason
    <2>16. QED
      BY <2>10, <2>12, <2>13, <2>14, <2>15 DEF IInv
  <1>2. CASE ~MayAddVote(xact[n])
    BY <1>2, AbandonInv, Labels DEF AddExisting
  <1>3. QED
    BY <1>1, <1>2

\* The coordinator sends its Prepare messages.
LEMMA SendPrepareInv ==
  ASSUME IInv, TypeOK', NEW n \in Node, SendPrepare(n)
  PROVE  IInv'
  <1>1. CASE xact[n].status = "Waiting"
    <2>1. /\ task[n] = "existing" /\ xact[n].kind = "local" /\ xact[n].votes = <<>>
          /\ net' = net \cup {PrepareMessage(n, p) : p \in OthersThan(n)}
          /\ task' = [task EXCEPT ![n] = "send"]
          /\ UNCHANGED <<chan, client, xact, localRx, remoteRx, pg, faults, ballot, cause>>
      BY <1>1 DEF SendPrepare, Goto
    <2>2. n = Coordinator
      BY <2>1 DEF IInv, TaskMatchesVotes
    <2>3. NothingSent /\ localRx = <<>> /\ chan[Coordinator] = <<>> /\ client.state # "idle"
      BY <2>1, <2>2 DEF IInv, SentOnce
    <2>4. \A k \in Node : /\ remoteRx'[k] = <<>> /\ chan'[k] = <<>> /\ xact'[k].votes = <<>>
                          /\ pg'[k] = "none" /\ ballot'[k] = "unset" /\ cause'[k] = None
      BY <2>1, <2>3 DEF NothingSent
    <2>5. \A m \in net' : /\ m.type = "Prepare" /\ m.from = Coordinator /\ m.reason = None
                          /\ m.to \in Surrogates
      BY <2>1, <2>2, <2>3 DEF NothingSent, PrepareMessage, OthersThan, Surrogates
    <2>6. TrueMessages'
      BY <2>4, <2>5 DEF TrueMessages, TrueMessage
    <2>7. PrepareOnce'
      <3> SUFFICES ASSUME NEW k \in Node
                   PROVE  PrepareOnce!(k)'
        BY DEF PrepareOnce
      <3>1. AtMostOnePrepare(<<>>) /\ ~PrepareAt(<<>>)
        BY DEF AtMostOnePrepare, PrepareAt
      <3>2. PrepareInNet(k)' => k \in Surrogates
        BY <2>5 DEF PrepareInNet
      <3>3. k \in Surrogates => xact[k].kind = "unknown"
        BY <2>3 DEF NothingSent, Surrogates, IInv, TypeOK, XactType, TaskMatchesVotes
      <3>4. QED
        BY <2>1, <2>4, <3>1, <3>2, <3>3
    <2>8. SentOnce'
      <3>1. task'[Coordinator] = "send"
        BY <2>1, <2>2 DEF IInv, TypeOK
      <3>2. QED
        BY <2>1, <2>3, <2>4, <3>1 DEF SentOnce
    <2>9. HistoryGrows
      BY <2>1 DEF HistoryGrows
    <2>10. TaskMatchesVotes' /\ TaskMatchesLabel'
      <3> SUFFICES ASSUME NEW k \in Node
                   PROVE  TaskMatchesVotes!(k)' /\ TaskMatchesLabel!(k)'
        BY DEF TaskMatchesVotes, TaskMatchesLabel
      <3>1. CASE k # n
        <4>1. task'[k] = task[k]
          BY <2>1, <3>1 DEF IInv, TypeOK
        <4>2. QED
          BY <2>1, <2>9, <4>1, OtherTask
      <3>2. CASE k = n
        <4>1. task'[n] = "send" /\ task[n] \in Running
          BY <2>1 DEF IInv, TypeOK, Running
        <4>2. \A u : TrueYes(n, u) => TrueYes(n, u)'
          BY <2>1, <2>2 DEF TrueYes, Surrogates
        <4>3. TaskMatchesVotes!(n)'
          BY <1>1, <2>1, <4>1, <4>2 DEF IInv, TaskMatchesVotes
        <4>4. TaskMatchesLabel!(n)'
          BY <1>1, <2>1, <4>1 DEF IInv, TaskMatchesLabel
        <4>5. QED
          BY <3>2, <4>3, <4>4
      <3>3. QED
        BY <3>1, <3>2
    <2>11. OutcomeMatchesVotes'
      BY <2>1 DEF IInv, OutcomeMatchesVotes, AllYes, SomeNo, RealReason
    <2>12. QED
      BY <2>6, <2>7, <2>8, <2>10, <2>11 DEF IInv
  <1>2. CASE xact[n].status # "Waiting"
    BY <1>2, AbandonInv, Labels DEF SendPrepare
  <1>3. QED
    BY <1>1, <1>2

\* A surrogate sends its vote.
LEMMA SendVoteInv ==
  ASSUME IInv, TypeOK', NEW n \in Node, SendVote(n)
  PROVE  IInv'
  <1>0. PICK r, b : r = RollbackReason(xact[n]) /\ b = IF r = None THEN "yes" ELSE "no"
    OBVIOUS
  <1>1. /\ task[n] = "existing" /\ xact[n].kind = "surrogate" /\ xact[n].votes = <<>>
        /\ net' = net \cup {VoteMessage(n, p, r) : p \in OthersThan(n)}
        /\ ballot' = [ballot EXCEPT ![n] = b]
        /\ task' = [task EXCEPT ![n] = "send"]
        /\ UNCHANGED <<xact, chan, localRx, remoteRx, pg, client, faults, cause>>
    BY <1>0 DEF SendVote, Goto
  <1>2. n \in Surrogates
    BY <1>1 DEF IInv, TaskMatchesVotes
  <1>3. /\ ballot[n] = "unset" /\ pg[n] \in {"prepared", "aborted"}
        /\ cause[n] = None => pg[n] = "prepared"
        /\ cause[n] # None => xact[n].status = "Rollbacking"
    BY <1>1 DEF IInv, TaskMatchesLabel
  <1>4. /\ xact[n].status \notin {"Committed", "Rollbacked"}
        /\ task[n] \in Running
    BY <1>1 DEF IInv, TaskMatchesLabel, Stopped, Running
  <1>5. /\ xact[n].status = "Rollbacking" => /\ r = xact[n].info.reason /\ r # None
                                             /\ RealReason(r) /\ b = "no"
        /\ xact[n].status # "Rollbacking" => r = None /\ b = "yes" /\ cause[n] = None
    BY <1>0, <1>3 DEF IInv, TaskMatchesVotes, TrueNo, RealReason, RollbackReason
  <1>6. /\ ballot'[n] = b /\ task'[n] = "send"
        /\ \A k \in Node \ {n} : ballot'[k] = ballot[k] /\ task'[k] = task[k]
    BY <1>1 DEF IInv, TypeOK
  <1>7. HistoryGrows
    BY <1>1, <1>3, <1>6 DEF HistoryGrows
  <1>8. \A m \in net' : m \in net \/ (m.type = "Vote" /\ m.from = n /\ m.reason = r /\ m.to \in Participants)
    BY <1>1 DEF VoteMessage, OthersThan
  <1>9. TrueMessages'
    <2>1. TrueVote(n, r)'
      BY <1>2, <1>5, <1>6, <1>7, HistoryReason DEF TrueVote
    <2>2. \A m \in net' : m.type # "LocalXact" /\ TrueMessage(m, m.to)'
      <3> SUFFICES ASSUME NEW m \in net'
                   PROVE  m.type # "LocalXact" /\ TrueMessage(m, m.to)'
        OBVIOUS
      <3>1. CASE m \in net
        BY <1>7, <3>1, HistoryMessage DEF IInv, TrueMessages
      <3>2. CASE m.type = "Vote" /\ m.from = n /\ m.reason = r /\ m.to \in Participants
        BY <2>1, <3>2 DEF TrueMessage
      <3>3. QED
        BY <1>8, <3>1, <3>2
    <2>3. QED
      BY <1>1, <1>7, <2>2, HistoryMessage, HistoryVote DEF IInv, TrueMessages
  <1>10. PrepareOnce'
    <2> SUFFICES ASSUME NEW k \in Node
                 PROVE  PrepareOnce!(k)'
      BY DEF PrepareOnce
    <2>1. PrepareInNet(k)' => PrepareInNet(k)
      BY <1>8 DEF PrepareInNet
    <2>2. CASE k = n
      BY <1>1, <2>1, <2>2 DEF IInv, PrepareOnce
    <2>3. CASE k # n
      BY <1>1, <1>6, <2>1, <2>3 DEF IInv, PrepareOnce
    <2>4. QED
      BY <2>2, <2>3
  <1>11. SentOnce'
    <2>1. ~NothingSent
      BY <1>1 DEF NothingSent
    <2>2. task'[Coordinator] = task[Coordinator]
      BY <1>2, <1>6 DEF Surrogates
    <2>3. QED
      BY <1>1, <2>1, <2>2 DEF IInv, SentOnce
  <1>12. TaskMatchesVotes' /\ TaskMatchesLabel'
    <2> SUFFICES ASSUME NEW k \in Node
                 PROVE  TaskMatchesVotes!(k)' /\ TaskMatchesLabel!(k)'
      BY DEF TaskMatchesVotes, TaskMatchesLabel
    <2>1. CASE k # n
      BY <1>1, <1>6, <1>7, <2>1, OtherTask
    <2>2. CASE k = n
      <3>1. \A u : TrueYes(n, u) /\ b = "yes" => TrueYes(n, u)'
        BY <1>1, <1>2, <1>6 DEF TrueYes, Surrogates
      <3>2. xact[n].status = "Rollbacking" => TrueNo(n)'
        <4>1. xact[n].status = "Rollbacking" => TrueNo(n)
          BY DEF IInv, TaskMatchesVotes
        <4>2. QED
          BY <1>1, <1>5, <1>6, <1>7, <4>1, HistoryReason DEF TrueNo, HistoryGrows, Surrogates
      <3>3. TaskMatchesVotes!(n)'
        BY <1>1, <1>4, <1>5, <3>1, <3>2 DEF IInv, TaskMatchesVotes
      <3>4. TaskMatchesLabel!(n)'
        BY <1>1, <1>3, <1>4, <1>5, <1>6 DEF IInv, TaskMatchesLabel
      <3>5. QED
        BY <2>2, <3>3, <3>4
    <2>3. QED
      BY <2>1, <2>2
  <1>13. OutcomeMatchesVotes'
    <2>1. ~AllYes
      BY <1>2, <1>3 DEF AllYes
    <2>2. SomeNo => SomeNo'
      BY <1>3, <1>6 DEF SomeNo, Surrogates
    <2>3. b = "no" => \E s \in Surrogates : cause[s] # None
      BY <1>5 DEF RealReason
    <2>4. \A q : RealReason(q) => RealReason(q)'
      BY <1>7, HistoryReason
    <2>5. b = "yes" => cause[n] = None /\ pg[n] # "none"
      BY <1>3, <1>5
    <2>6. QED
      BY <1>1, <1>2, <1>3, <1>6, <2>1, <2>2, <2>3, <2>4, <2>5 DEF IInv, OutcomeMatchesVotes
  <1>14. QED
    BY <1>9, <1>10, <1>11, <1>12, <1>13 DEF IInv

\* A step that only moves a live task past its votes, between labels that IInv
\* treats alike, keeps IInv.
LEMMA MoveInv ==
  ASSUME IInv, TypeOK', NEW n \in Node, task[n] \in {"send", "finish", "recv"},
         NEW label \in {"send", "finish", "recv"},
         label = "send" => xact[n].kind # "unknown",
         task' = [task EXCEPT ![n] = label],
         UNCHANGED <<xact, chan, localRx, remoteRx, net, pg, client, ballot, cause>>
  PROVE  IInv'
  <1>1. task'[n] = label /\ \A k \in Node \ {n} : task'[k] = task[k]
    BY DEF IInv, TypeOK
  <1>2. HistoryGrows
    BY DEF HistoryGrows
  <1>3. TrueMessages' /\ PrepareOnce'
    BY <1>2, HistoryMessage, HistoryVote DEF IInv, TrueMessages, PrepareOnce, PrepareInNet
  <1>4. SentOnce'
    <2>1. NothingSent => NothingSent'
      BY DEF NothingSent
    <2>2. QED
      BY <1>1, <2>1 DEF IInv, SentOnce
  <1>5. TaskMatchesVotes' /\ TaskMatchesLabel'
    <2> SUFFICES ASSUME NEW k \in Node
                 PROVE  TaskMatchesVotes!(k)' /\ TaskMatchesLabel!(k)'
      BY DEF TaskMatchesVotes, TaskMatchesLabel
    <2>1. CASE k # n
      BY <1>1, <1>2, <2>1, OtherTask
    <2>2. CASE k = n
      <3>1. task[n] \in Running /\ label \in Running
        BY DEF Running
      <3>2. \A u : TrueYes(n, u) => TrueYes(n, u)'
        BY <1>1 DEF TrueYes
      <3>3. TrueNo(n) => TrueNo(n)'
        BY <1>1, <3>1 DEF TrueNo, RealReason
      <3>4. TaskMatchesVotes!(n)'
        BY <1>1, <3>1, <3>2, <3>3 DEF IInv, TaskMatchesVotes
      <3>5. TaskMatchesLabel!(n)'
        BY <1>1 DEF IInv, TaskMatchesLabel, Stopped
      <3>6. QED
        BY <2>2, <3>4, <3>5
    <2>3. QED
      BY <2>1, <2>2
  <1>6. OutcomeMatchesVotes'
    BY DEF IInv, OutcomeMatchesVotes, AllYes, SomeNo, RealReason
  <1>7. QED
    BY <1>3, <1>4, <1>5, <1>6 DEF IInv

\* A vote arrives.
LEMMA HandleVoteInv ==
  ASSUME IInv, TypeOK', NEW n \in Node, HandleVote(n)
  PROVE  IInv'
  <1>1. PICK m : m = Head(chan[n])
    OBVIOUS
  <1>2. PICK v : v = VoteOf(m.from, m.reason)
    OBVIOUS
  <1>3. CASE xact[n].kind = "unknown" \/ MayAddVote(xact[n])
    <2>1. PICK y : y = IF xact[n].kind = "unknown" THEN KeepVote(xact[n], v) ELSE AddVote(xact[n], v)
      OBVIOUS
    <2>2. /\ task[n] = "recv" /\ chan[n] # <<>> /\ m.type = "Vote"
          /\ task' = [task EXCEPT ![n] = "finish"]
          /\ chan' = [chan EXCEPT ![n] = Tail(chan[n])]
          /\ xact' = [xact EXCEPT ![n] = y]
          /\ UNCHANGED <<localRx, remoteRx, net, pg, client, faults, ballot, cause>>
      BY <1>1, <1>2, <1>3, <2>1 DEF HandleVote, Receives, Goto, Dequeue
    <2>3. /\ chan[n] \in Seq(Message) /\ m \in Message /\ 1 \in 1..Len(chan[n]) /\ m = chan[n][1]
          /\ xact[n] \in XactType
      BY <1>1, <2>2 DEF IInv, TypeOK
    <2>4. v \in Vote /\ v.from = m.from /\ v.reason = m.reason /\ TrueVote(v.from, v.reason)
      BY <1>2, <2>2, <2>3 DEF IInv, TrueMessages, TrueMessage, VoteOf, Vote, Message
    <2>5. /\ task'[n] = "finish" /\ chan'[n] = Tail(chan[n]) /\ xact'[n] = y
          /\ \A k \in Node \ {n} : task'[k] = task[k] /\ chan'[k] = chan[k] /\ xact'[k] = xact[k]
      BY <2>2 DEF IInv, TypeOK
    <2>6. /\ \A i \in 1..Len(chan'[n]) : i + 1 \in 1..Len(chan[n]) /\ chan'[n][i] = chan[n][i + 1]
          /\ PrepareAt(chan'[n]) => PrepareAt(chan[n])
          /\ AtMostOnePrepare(chan[n]) => AtMostOnePrepare(chan'[n])
      <3>1. /\ \A i \in 1..Len(Tail(chan[n])) :
                 i + 1 \in 1..Len(chan[n]) /\ Tail(chan[n])[i] = chan[n][i + 1]
            /\ PrepareAt(Tail(chan[n])) => PrepareAt(chan[n])
            /\ AtMostOnePrepare(chan[n]) => AtMostOnePrepare(Tail(chan[n]))
        BY <2>2, <2>3, PrepareInTail
      <3>2. QED
        BY <2>5, <3>1
    <2>7. HistoryGrows
      BY <2>2 DEF HistoryGrows
    <2>8. ~NothingSent \/ n = Coordinator
      BY <2>2 DEF NothingSent
    <2>9. /\ y.kind = xact[n].kind
          /\ \A i \in 1..Len(y.votes) : \/ i \in 1..Len(xact[n].votes) /\ y.votes[i] = xact[n].votes[i]
                                        \/ y.votes[i] = v
          /\ xact[n].kind = "unknown" => y.status = xact[n].status /\ y.voted = xact[n].voted
                                         /\ y.info = xact[n].info
          /\ xact[n].kind # "unknown" => y = AddVote(xact[n], v) /\ y.votes = xact[n].votes
      <3>1. CASE xact[n].kind = "unknown"
        BY <2>1, <2>3, <2>4, <3>1 DEF KeepVote, XactType
      <3>2. CASE xact[n].kind # "unknown"
        BY <2>1, <2>3, <2>4, <3>2, AddVoteEffect
      <3>3. QED
        BY <3>1, <3>2
    <2>10. TrueMessages'
      <3>1. \A k \in Node : \A i \in 1..Len(chan'[k]) : TrueMessage(chan'[k][i], k)
        <4> TAKE k \in Node
        <4> TAKE i \in 1..Len(chan'[k])
        <4>1. CASE k = n
          <5>1. i + 1 \in 1..Len(chan[n]) /\ chan'[n][i] = chan[n][i + 1]
            BY <2>6, <4>1
          <5>2. TrueMessage(chan[n][i + 1], n)
            BY <5>1 DEF IInv, TrueMessages
          <5>3. QED
            BY <4>1, <5>1, <5>2
        <4>2. CASE k # n
          BY <2>5, <4>2 DEF IInv, TrueMessages
        <4>3. QED
          BY <4>1, <4>2
      <3>2. \A k \in Node : \A i \in 1..Len(xact'[k].votes) :
              TrueVote(xact'[k].votes[i].from, xact'[k].votes[i].reason)
        BY <2>4, <2>5, <2>9, SMTT(20) DEF IInv, TrueMessages
      <3>3. QED
        BY <2>2, <2>7, <3>1, <3>2, HistoryMessage, HistoryVote DEF IInv, TrueMessages
    <2>11. PrepareOnce'
      <3> SUFFICES ASSUME NEW k \in Node
                   PROVE  PrepareOnce!(k)'
        BY DEF PrepareOnce
      <3>1. PrepareInNet(k)' = PrepareInNet(k)
        BY <2>2 DEF PrepareInNet
      <3>2. CASE k = n
        BY <2>2, <2>5, <2>6, <2>9, <3>1, <3>2 DEF IInv, PrepareOnce
      <3>3. CASE k # n
        BY <2>2, <2>5, <3>1, <3>3 DEF IInv, PrepareOnce
      <3>4. QED
        BY <3>2, <3>3
    <2>12. SentOnce'
      <3>1. ~NothingSent
        <4>1. TrueVote(v.from, v.reason)
          BY <2>4
        <4>2. QED
          BY <4>1 DEF TrueVote, NothingSent, Surrogates
      <3>2. xact'[Coordinator].kind = xact[Coordinator].kind
        BY <2>5, <2>9
      <3>3. \A i \in 1..Len(chan'[Coordinator]) :
              \E j \in 1..Len(chan[Coordinator]) : chan'[Coordinator][i] = chan[Coordinator][j]
        <4>1. CASE n = Coordinator
          BY <2>6, <4>1
        <4>2. CASE n # Coordinator
          BY <2>5, <4>2
        <4>3. QED
          BY <4>1, <4>2
      <3>4. QED
        BY <2>2, <2>5, <3>1, <3>2, <3>3 DEF IInv, SentOnce
    <2>13. TaskMatchesVotes' /\ TaskMatchesLabel'
      <3> SUFFICES ASSUME NEW k \in Node
                   PROVE  TaskMatchesVotes!(k)' /\ TaskMatchesLabel!(k)'
        BY DEF TaskMatchesVotes, TaskMatchesLabel
      <3>1. CASE k # n
        BY <2>2, <2>5, <2>7, <3>1, OtherTask
      <3>2. CASE k = n /\ xact[n].kind = "unknown"
        BY <2>2, <2>5, <2>9, <3>2 DEF IInv, TaskMatchesVotes, TaskMatchesLabel
      <3>3. CASE k = n /\ xact[n].kind # "unknown"
        <4>1. task[n] \in Running
          BY <2>2 DEF Running
        <4>2. /\ y.status \in {"Committing", "Committed"} => y.voted = Participants
              /\ y.status \in {"Rollbacking", "Rollbacked"} =>
                   \/ y.status = xact[n].status /\ y.info = xact[n].info
                   \/ /\ y.status = "Rollbacking" /\ y.info.by \in Surrogates
                      /\ ballot[y.info.by] = "no" /\ RealReason(y.info.reason)
              /\ y.status \notin {"Rollbacking", "Rollbacked"} =>
                   y.info = NoInfo /\ \A u \in y.voted : TrueYes(n, u)
              /\ y.status \in {"Waiting", "Committing"} => xact[n].status \in {"Waiting", "Committing"}
              /\ y.status \in Terminal => y.status = xact[n].status
          BY <2>4, <2>9, <3>3, <4>1, AddTrueVote
        <4>3. y.status \notin Terminal
          BY <2>2, <4>2 DEF IInv, TaskMatchesLabel, Terminal, Stopped
        <4>4. \A u : TrueYes(n, u) => TrueYes(n, u)'
          BY <2>2, <2>5 DEF TrueYes
        <4>5. y.status \in {"Rollbacking", "Rollbacked"} => TrueNo(n)'
          BY <2>2, <2>5, <4>1, <4>2 DEF TrueNo, RealReason, IInv, TaskMatchesVotes
        <4>6. TaskMatchesVotes!(n)'
          BY <2>5, <2>9, <3>3, <4>2, <4>4, <4>5 DEF IInv, TaskMatchesVotes
        <4>7. TaskMatchesLabel!(n)'
          BY <2>2, <2>5, <2>9, <4>2, <4>3 DEF IInv, TaskMatchesLabel, Terminal
        <4>8. QED
          BY <3>3, <4>6, <4>7
      <3>4. QED
        BY <3>1, <3>2, <3>3
    <2>14. OutcomeMatchesVotes'
      BY <2>2 DEF IInv, OutcomeMatchesVotes, AllYes, SomeNo, RealReason
    <2>15. QED
      BY <2>10, <2>11, <2>12, <2>13, <2>14 DEF IInv
  <1>4. CASE ~(xact[n].kind = "unknown" \/ MayAddVote(xact[n]))
    BY <1>4, AbandonInv, Labels DEF HandleVote
  <1>5. QED
    BY <1>3, <1>4

\* The calls of a task have all returned, or try_finish has nothing to do.
LEMMA SentInv ==
  ASSUME IInv, TypeOK', NEW n \in Node, Sent(n) \/ KeepWaiting(n)
  PROVE  IInv'
  <1>1. CASE Sent(n)
    <2>1. xact[n].kind \in {"local", "surrogate"} /\ task[n] = "send"
      BY <1>1 DEF Sent, IInv, TypeOK, XactType, TaskMatchesLabel
    <2>2. xact[n].status \notin Terminal
      BY <2>1 DEF IInv, TaskMatchesLabel, Terminal, Stopped
    <2>3. QED
      BY <1>1, <2>1, <2>2, MoveInv DEF Sent, Goto
  <1>2. CASE KeepWaiting(n)
    BY <1>2, MoveInv DEF KeepWaiting, Goto
  <1>3. QED
    BY <1>1, <1>2

----------------------------------------------------------------------------
(* The end of a task, and of a node.                                       *)

\* A task that has decided to commit has a 'yes' of every surrogate, and one
\* that has decided to roll back the 'no' of one.
LEMMA DecisionHolds ==
  ASSUME IInv, NEW n \in Node, task[n] = "finish"
  PROVE  /\ xact[n].status = "Committing" => AllYes /\ xact[n].info = NoInfo
         /\ xact[n].status = "Rollbacking" =>
              /\ SomeNo
              /\ xact[n].info.by \in Surrogates
              /\ ballot[xact[n].info.by] = "no"
              /\ RealReason(xact[n].info.reason)
  <1>1. task[n] \in Running /\ task[n] # "existing"
    BY DEF Running
  <1>2. ASSUME xact[n].status = "Committing"
        PROVE  AllYes /\ xact[n].info = NoInfo
    <2>1. /\ xact[n].voted = Participants /\ xact[n].info = NoInfo
          /\ \A v \in xact[n].voted : TrueYes(n, v)
      BY <1>1, <1>2 DEF IInv, TaskMatchesVotes
    <2>2. QED
      BY <1>1, <2>1 DEF AllYes, TrueYes, Surrogates
  <1>3. ASSUME xact[n].status = "Rollbacking"
        PROVE  /\ SomeNo
               /\ xact[n].info.by \in Surrogates
               /\ ballot[xact[n].info.by] = "no"
               /\ RealReason(xact[n].info.reason)
    <2>1. TrueNo(n)
      BY <1>3 DEF IInv, TaskMatchesVotes
    <2>2. QED
      BY <1>1, <2>1 DEF TrueNo, SomeNo
  <1>4. QED
    BY <1>2, <1>3

\* A task that stops with its decision, whether or not it has recorded it in
\* its own state, keeps IInv if what it told PostgreSQL or the client does.
LEMMA StopInv ==
  ASSUME IInv, TypeOK', NEW n \in Node, NEW how \in Stopped, Stop(n, how),
         NEW x \in {xact[n], Finished(xact[n])}, xact' = [xact EXCEPT ![n] = x],
         task[n] = "finish", xact[n].kind # "unknown",
         UNCHANGED <<localRx, remoteRx, net, ballot, cause>>,
         OutcomeMatchesVotes',
         n # Coordinator => client' = client,
         n = Coordinator => client'.state # "idle",
         \A k \in Node : k # n \/ n = Coordinator => pg'[k] = pg[k]
  PROVE  IInv'
  <1>1. /\ task' = [task EXCEPT ![n] = how]
        /\ chan' = [chan EXCEPT ![n] = <<>>]
    BY DEF Stop, Goto
  <1>2. /\ task'[n] = how /\ chan'[n] = <<>> /\ xact'[n] = x
        /\ \A k \in Node \ {n} : task'[k] = task[k] /\ chan'[k] = chan[k] /\ xact'[k] = xact[k]
    BY <1>1 DEF IInv, TypeOK
  <1>3. /\ x.kind = xact[n].kind /\ x.votes = xact[n].votes /\ x.info = xact[n].info
        /\ x.voted = xact[n].voted
        /\ x.status \in {"Committing", "Committed"} <=> xact[n].status \in {"Committing", "Committed"}
        /\ x.status \in {"Rollbacking", "Rollbacked"} <=> xact[n].status \in {"Rollbacking", "Rollbacked"}
    BY DEF Finished, IInv, TypeOK, XactType
  <1>4. HistoryGrows
    BY DEF HistoryGrows
  <1>5. how \notin Running /\ how # "absent" /\ how \in Stopped
    BY DEF Running, Stopped
  <1>6. TrueMessages'
    <2>1. \A k \in Node : \A i \in 1..Len(chan'[k]) :
            \E j \in 1..Len(chan[k]) : chan'[k][i] = chan[k][j]
      BY <1>2
    <2>2. \A k \in Node : \A i \in 1..Len(xact'[k].votes) :
            \E j \in 1..Len(xact[k].votes) : xact'[k].votes[i] = xact[k].votes[j]
      BY <1>2, <1>3
    <2>3. QED
      BY <1>4, <2>1, <2>2, MessagesKept DEF IInv
  <1>7. PrepareOnce'
    <2> SUFFICES ASSUME NEW k \in Node
                 PROVE  PrepareOnce!(k)'
      BY DEF PrepareOnce
    <2>1. PrepareInNet(k)' = PrepareInNet(k)
      BY DEF PrepareInNet
    <2>2. CASE k = n
      <3>1. ~PrepareInNet(n) /\ ~PrepareAt(remoteRx[n])
        BY DEF IInv, PrepareOnce
      <3>2. ~PrepareAt(chan'[n]) /\ AtMostOnePrepare(chan'[n])
        BY <1>2 DEF PrepareAt, AtMostOnePrepare
      <3>3. QED
        BY <2>1, <2>2, <3>1, <3>2 DEF IInv, PrepareOnce
    <2>3. CASE k # n
      BY <1>2, <2>1, <2>3 DEF IInv, PrepareOnce
    <2>4. QED
      BY <2>2, <2>3
  <1>8. SentOnce'
    <2>1. chan'[Coordinator] = chan[Coordinator] \/ chan'[Coordinator] = <<>>
      BY <1>2
    <2>2. /\ task'[Coordinator] = "existing" => task[Coordinator] = "existing"
          /\ xact'[Coordinator].kind = xact[Coordinator].kind
      BY <1>2, <1>3, <1>5 DEF Running
    <2>3. CASE n = Coordinator
      <3>1. xact[Coordinator].kind # "unknown" /\ xact'[Coordinator].kind # "unknown"
        BY <2>2, <2>3
      <3>2. localRx = <<>> /\ localRx' = <<>>
        BY <3>1 DEF IInv, SentOnce
      <3>3. chan'[Coordinator] = <<>> /\ task'[Coordinator] # "existing"
        BY <1>2, <1>5, <2>3 DEF Running
      <3>4. QED
        BY <2>3, <3>1, <3>2, <3>3 DEF SentOnce
    <2>4. CASE n # Coordinator
      <3>1. ~NothingSent
        BY <2>4 DEF IInv, TypeOK, XactType, TaskMatchesVotes, NothingSent
      <3>2. QED
        BY <1>2, <2>4, <3>1 DEF IInv, SentOnce
    <2>5. QED
      BY <2>3, <2>4
  <1>9. TaskMatchesVotes' /\ TaskMatchesLabel'
    <2> SUFFICES ASSUME NEW k \in Node
                 PROVE  TaskMatchesVotes!(k)' /\ TaskMatchesLabel!(k)'
      BY DEF TaskMatchesVotes, TaskMatchesLabel
    <2>1. CASE k # n
      BY <1>2, <1>4, <2>1, OtherTask
    <2>2. CASE k = n
      <3>1. TrueNo(n) => TrueNo(n)'
        BY <1>2, <1>3, <1>5 DEF TrueNo, RealReason
      <3>2. TaskMatchesVotes!(n)'
        BY <1>2, <1>3, <1>5, <3>1 DEF IInv, TaskMatchesVotes
      <3>3. TaskMatchesLabel!(n)'
        BY <1>2, <1>3, <1>5 DEF IInv, TaskMatchesLabel, Running
      <3>4. QED
        BY <2>2, <3>2, <3>3
    <2>3. QED
      BY <2>1, <2>2
  <1>10. QED
    BY <1>6, <1>7, <1>8, <1>9 DEF IInv

\* The coordinator answers its client.
LEMMA FinishLocalInv ==
  ASSUME IInv, TypeOK', NEW n \in Node, FinishLocal(n)
  PROVE  IInv'
  <1>1. /\ task[n] = "finish" /\ xact[n].kind = "local"
        /\ xact[n].status \in {"Committing", "Rollbacking"}
        /\ client' = [state |-> IF xact[n].status = "Committing" THEN "committed"
                                                                 ELSE "rollbacked",
                      info |-> xact[n].info]
        /\ xact' = [xact EXCEPT ![n] = Finished(xact[n])]
        /\ UNCHANGED <<localRx, remoteRx, net, pg, faults, ballot, cause>>
    BY DEF FinishLocal, Decided
  <1>2. n = Coordinator
    BY <1>1 DEF IInv, TaskMatchesVotes
  <1>3. OutcomeMatchesVotes'
    <2>1. /\ client'.state = "committed" => AllYes
          /\ client'.state = "rollbacked" => SomeNo
          /\ client'.info # NoInfo => client'.state = "rollbacked"
          /\ client'.info # NoInfo => /\ client'.info.by \in Surrogates
                                      /\ ballot[client'.info.by] = "no"
                                      /\ RealReason(client'.info.reason)
      BY <1>1, DecisionHolds
    <2>2. QED
      BY <1>1, <2>1 DEF IInv, OutcomeMatchesVotes, AllYes, SomeNo, RealReason
  <1>4. Stop(n, "done")
    BY DEF FinishLocal
  <1>5. client'.state # "idle"
    BY <1>1
  <1>6. QED
    BY <1>1, <1>2, <1>3, <1>4, <1>5, StopInv, Labels

\* A surrogate's PostgreSQL carries out the decision, whether or not its answer
\* reaches the task.
LEMMA PgFinishInv ==
  ASSUME IInv, TypeOK', NEW n \in Node, Decided(n, "surrogate"), NEW how \in Stopped, Stop(n, how),
         NEW x \in {xact[n], Finished(xact[n])}, xact' = [xact EXCEPT ![n] = x],
         pg' = [pg EXCEPT ![n] = AfterFinish(n)],
         UNCHANGED <<localRx, remoteRx, net, client, ballot, cause>>
  PROVE  IInv'
  <1>1. /\ task[n] = "finish" /\ xact[n].kind = "surrogate"
        /\ xact[n].status \in {"Committing", "Rollbacking"}
    BY DEF Decided
  <1>2. n \in Surrogates /\ n # Coordinator
    BY <1>1 DEF IInv, TaskMatchesVotes, Surrogates
  <1>3. /\ \A k \in Node \ {n} : pg'[k] = pg[k]
        /\ pg'[n] = AfterFinish(n)
    BY DEF IInv, TypeOK
  <1>4. /\ AfterFinish(n) = "committed" => pg[n] = "committed" \/ AllYes
        /\ AfterFinish(n) = "aborted" => pg[n] = "aborted" \/ SomeNo
        /\ pg[n] # "none" => AfterFinish(n) # "none"
    BY <1>1, DecisionHolds DEF AfterFinish
  <1>5. OutcomeMatchesVotes'
    <2>1. \A k \in Node :
            /\ pg'[k] # "none" => k \in Surrogates
            /\ ballot[k] = "yes" => pg'[k] # "none"
            /\ pg'[k] = "committed" => AllYes
            /\ pg'[k] = "aborted" => cause[k] # None \/ SomeNo
      BY <1>2, <1>3, <1>4 DEF IInv, OutcomeMatchesVotes
    <2>2. QED
      BY <2>1 DEF IInv, OutcomeMatchesVotes, AllYes, SomeNo, RealReason
  <1>6. QED
    BY <1>1, <1>2, <1>3, <1>5, StopInv

\* try_finish at a surrogate.
LEMMA FinishSurrogateInv ==
  ASSUME IInv, TypeOK', NEW n \in Node, FinishSurrogate(n)
  PROVE  IInv'
  <1>1. CASE xact[n].status = "Committing" /\ pg[n] # "prepared"
    BY <1>1, AbandonInv, Labels DEF FinishSurrogate
  <1>2. CASE ~(xact[n].status = "Committing" /\ pg[n] # "prepared")
    BY <1>2, PgFinishInv, Labels DEF FinishSurrogate
  <1>3. QED
    BY <1>1, <1>2

\* try_finish at a surrogate returns an error.
LEMMA FinishErrorInv ==
  ASSUME IInv, TypeOK', NEW n \in Node, FinishError(n)
  PROVE  IInv'
  <1>1. /\ Decided(n, "surrogate") /\ Abandon(n, "failed")
        /\ UNCHANGED <<xact, localRx, remoteRx, net, ballot, cause>>
    BY DEF FinishError
  <1>2. CASE UNCHANGED pg
    BY <1>1, <1>2, AbandonInv, Labels
  <1>3. CASE pg' = [pg EXCEPT ![n] = AfterFinish(n)]
    <2>1. n # Coordinator
      BY <1>1 DEF Decided, IInv, TaskMatchesVotes, Surrogates
    <2>2. Stop(n, "failed") /\ UNCHANGED client
      BY <1>1, <2>1 DEF Abandon, DropCommitTx
    <2>3. xact' = [xact EXCEPT ![n] = xact[n]]
      BY <1>1 DEF IInv, TypeOK
    <2>4. QED
      BY <1>1, <1>3, <2>2, <2>3, PgFinishInv, Labels
  <1>4. QED
    BY <1>2, <1>3 DEF FinishError

\* A node that is restarted has forgotten the transaction, but not what it said
\* of it, and IInv still holds.
LEMMA CrashRestartInv ==
  ASSUME IInv, TypeOK', NEW n \in Node, CrashRestart(n)
  PROVE  IInv'
  <1>1. /\ task' = [task EXCEPT ![n] = "absent"]
        /\ xact' = [xact EXCEPT ![n] = Unknown]
        /\ chan' = [chan EXCEPT ![n] = <<>>]
        /\ remoteRx' = [remoteRx EXCEPT ![n] = <<>>]
        /\ localRx' = IF n = Coordinator THEN <<>> ELSE localRx
        /\ net' \subseteq net
        /\ client' = IF n = Coordinator /\ client.state = "waiting"
                       THEN [client EXCEPT !.state = "error"] ELSE client
        /\ UNCHANGED <<pg, ballot, cause>>
    BY DEF CrashRestart, DropCommitTx
  <1>2. /\ task'[n] = "absent" /\ xact'[n] = Unknown /\ chan'[n] = <<>> /\ remoteRx'[n] = <<>>
        /\ \A k \in Node \ {n} : /\ task'[k] = task[k] /\ xact'[k] = xact[k]
                                 /\ chan'[k] = chan[k] /\ remoteRx'[k] = remoteRx[k]
    BY <1>1 DEF IInv, TypeOK
  <1>3. HistoryGrows
    BY <1>1 DEF HistoryGrows
  <1>4. /\ Unknown.kind = "unknown" /\ Unknown.votes = <<>> /\ Unknown.voted = {}
        /\ Unknown.status = "Uninitialized" /\ Unknown.info = NoInfo
    BY DEF Unknown
  <1>5. TrueMessages'
    <2>1. \A k \in Node : \A i \in 1..Len(remoteRx'[k]) :
            \E j \in 1..Len(remoteRx[k]) : remoteRx'[k][i] = remoteRx[k][j]
      BY <1>2
    <2>2. \A k \in Node : \A i \in 1..Len(chan'[k]) :
            \E j \in 1..Len(chan[k]) : chan'[k][i] = chan[k][j]
      BY <1>2
    <2>3. \A k \in Node : \A i \in 1..Len(xact'[k].votes) :
            \E j \in 1..Len(xact[k].votes) : xact'[k].votes[i] = xact[k].votes[j]
      BY <1>2, <1>4
    <2>4. QED
      BY <1>1, <1>3, <2>1, <2>2, <2>3, MessagesKept DEF IInv
  <1>6. PrepareOnce'
    <2> SUFFICES ASSUME NEW k \in Node
                 PROVE  PrepareOnce!(k)'
      BY DEF PrepareOnce
    <2>1. PrepareInNet(k)' => PrepareInNet(k)
      BY <1>1 DEF PrepareInNet
    <2>2. CASE k = n
      <3>1. /\ ~PrepareAt(chan'[n]) /\ AtMostOnePrepare(chan'[n])
            /\ ~PrepareAt(remoteRx'[n]) /\ AtMostOnePrepare(remoteRx'[n])
        BY <1>2 DEF PrepareAt, AtMostOnePrepare
      <3>2. QED
        BY <1>1, <1>2, <1>4, <2>1, <2>2, <3>1 DEF IInv, PrepareOnce
    <2>3. CASE k # n
      BY <1>1, <1>2, <2>1, <2>3 DEF IInv, PrepareOnce
    <2>4. QED
      BY <2>2, <2>3
  <1>7. SentOnce'
    <2>1. NothingSent => NothingSent'
      <3> SUFFICES ASSUME NothingSent
                   PROVE  NothingSent'
        OBVIOUS
      <3>1. net' = {}
        BY <1>1 DEF NothingSent
      <3>2. \A k \in Node : /\ remoteRx'[k] = <<>> /\ xact'[k].kind # "surrogate"
                            /\ xact'[k].votes = <<>>
                            /\ k # Coordinator => chan'[k] = <<>>
        BY <1>2, <1>4 DEF NothingSent
      <3>3. QED
        BY <1>1, <3>1, <3>2 DEF NothingSent
    <2>2. client'.state = "idle" => client.state = "idle"
      BY <1>1 DEF IInv, TypeOK, ClientState
    <2>3. CASE n = Coordinator
      BY <1>1, <1>2, <1>4, <2>1, <2>2, <2>3 DEF IInv, SentOnce
    <2>4. CASE n # Coordinator
      BY <1>1, <1>2, <2>1, <2>2, <2>4 DEF IInv, SentOnce
    <2>5. QED
      BY <2>3, <2>4
  <1>8. TaskMatchesVotes' /\ TaskMatchesLabel'
    <2> SUFFICES ASSUME NEW k \in Node
                 PROVE  TaskMatchesVotes!(k)' /\ TaskMatchesLabel!(k)'
      BY DEF TaskMatchesVotes, TaskMatchesLabel
    <2>1. CASE k # n
      BY <1>1, <1>2, <1>3, <2>1, OtherTask
    <2>2. CASE k = n
      BY <1>2, <1>4, <2>2 DEF TaskMatchesVotes, TaskMatchesLabel, Running
    <2>3. QED
      BY <2>1, <2>2
  <1>9. OutcomeMatchesVotes'
    BY <1>1 DEF IInv, TypeOK, OutcomeMatchesVotes, AllYes, SomeNo, RealReason, ClientState
  <1>10. QED
    BY <1>5, <1>6, <1>7, <1>8, <1>9 DEF IInv

----------------------------------------------------------------------------
(* The theorems.                                                           *)

\* Every step of a task keeps IInv.
LEMMA TaskStepInv ==
  ASSUME IInv, TypeOK', NEW n \in Node, TaskStep(n)
  PROVE  IInv'
  <1>1. CASE Execute(n)
    <2>1. PICK r \in Reason \cup {None} :
            /\ CastOwnVote(n, r)
            /\ pg' = [pg EXCEPT ![n] = IF r = None THEN "prepared" ELSE "aborted"]
            /\ cause' = [cause EXCEPT ![n] = r]
      BY <1>1 DEF Execute
    <2>2. QED
      BY <1>1, <2>1, OwnVoteInv DEF Execute
  <1>2. QED
    BY <1>1, HandleLocalXactInv, HandlePrepareInv, AddExistingInv, SendPrepareInv, SendVoteInv,
       SentInv, HandleVoteInv, FinishLocalInv, FinishSurrogateInv
       DEF TaskStep

\* Every failure keeps IInv.
LEMMA FaultStepInv ==
  ASSUME IInv, TypeOK', NEW n \in Node, FaultStep(n)
  PROVE  IInv'
  <1>1. CASE DecodeError(n)
    BY <1>1, AbandonInv, Labels DEF DecodeError
  <1>2. CASE ExecuteAnswerLost(n)
    <2>1. PICK r \in Reason :
            /\ CastOwnVote(n, r)
            /\ cause' = [cause EXCEPT ![n] = r]
      BY <1>2 DEF ExecuteAnswerLost
    <2>2. QED
      BY <1>2, <2>1, OwnVoteInv DEF ExecuteAnswerLost
  <1>3. CASE RpcError(n)
    BY <1>3, AbandonInv, Labels DEF RpcError
  <1>4. QED
    BY <1>1, <1>2, <1>3, FinishErrorInv, CrashRestartInv DEF FaultStep

\* IInv is inductive.
LEMMA NextInv == IInv /\ [Next]_vars => IInv'
  <1> SUFFICES ASSUME IInv, [Next]_vars
               PROVE  IInv'
    OBVIOUS
  <1>1. TypeOK'
    BY NextType DEF IInv
  <1>2. CASE UNCHANGED vars
    <2>1. TrueMessages'
      BY <1>2 DEF vars, IInv, TrueMessages, TrueMessage, TrueVote, RealReason
    <2>2. PrepareOnce'
      BY <1>2 DEF vars, IInv, PrepareOnce, PrepareInNet
    <2>3. SentOnce'
      BY <1>2 DEF vars, IInv, SentOnce, NothingSent
    <2>4. TaskMatchesVotes' /\ TaskMatchesLabel'
      BY <1>2 DEF vars, IInv, TaskMatchesVotes, TaskMatchesLabel, TrueYes, TrueNo, RealReason
    <2>5. OutcomeMatchesVotes'
      BY <1>2 DEF vars, IInv, OutcomeMatchesVotes, AllYes, SomeNo, RealReason
    <2>6. QED
      BY <1>1, <2>1, <2>2, <2>3, <2>4, <2>5 DEF IInv
  <1>3. CASE \E m \in net : Deliver(m)
    BY <1>1, <1>3, DeliverInv
  <1>4. CASE \E n \in Node : ManagerRemote(n) \/ TaskStep(n) \/ FaultStep(n)
    BY <1>1, <1>4, ManagerRemoteInv, TaskStepInv, FaultStepInv
  <1>5. QED
    BY <1>1, <1>2, <1>3, <1>4, SubmitInv, ManagerLocalInv DEF Next

\* The initial state satisfies IInv.
LEMMA InitInv == Init => IInv
  <1> SUFFICES ASSUME Init
               PROVE  IInv
    OBVIOUS
  <1>1. TypeOK
    BY InitType
  <1>2. \A n \in Node : /\ task[n] = "absent" /\ xact[n] = Unknown /\ chan[n] = <<>>
                        /\ remoteRx[n] = <<>> /\ pg[n] = "none" /\ ballot[n] = "unset"
                        /\ cause[n] = None
    BY DEF Init
  <1>3. localRx = <<>> /\ net = {} /\ client.state = "idle" /\ client.info = NoInfo
    BY DEF Init
  <1>4. /\ Unknown.kind = "unknown" /\ Unknown.votes = <<>> /\ Unknown.voted = {}
        /\ Unknown.status = "Uninitialized" /\ Unknown.info = NoInfo
    BY DEF Unknown
  <1>5. TrueMessages /\ PrepareOnce
    BY <1>2, <1>3, <1>4 DEF TrueMessages, PrepareOnce, PrepareInNet, PrepareAt, AtMostOnePrepare
  <1>6. SentOnce
    BY <1>2, <1>3, <1>4 DEF SentOnce, NothingSent
  <1>7. TaskMatchesVotes /\ TaskMatchesLabel
    BY <1>2, <1>3, <1>4 DEF TaskMatchesVotes, TaskMatchesLabel, Running
  <1>8. OutcomeMatchesVotes
    BY <1>2, <1>3 DEF OutcomeMatchesVotes
  <1>9. QED
    BY <1>1, <1>5, <1>6, <1>7, <1>8 DEF IInv

\* The inductive invariant holds in every state of the protocol, failures
\* included (manager.rs and xact/state.rs).
THEOREM InvariantHolds == Spec => []IInv
  BY InitInv, NextInv, PTL DEF Spec

\* IInv excludes that a node commits while another rolls back: the first needs a
\* 'yes' of every surrogate, the second a 'no' or an error, and nobody votes 'yes'
\* after an error.
LEMMA InvAgreement == IInv => Agreement
  <1> SUFFICES ASSUME IInv, NEW m \in Node, NEW n \in Node, Committed(m), Aborted(n)
               PROVE  FALSE
    BY DEF Agreement
  <1>1. AllYes
    BY DEF IInv, OutcomeMatchesVotes, Committed
  <1>2. SomeNo \/ (pg[n] = "aborted" /\ cause[n] # None)
    BY DEF IInv, OutcomeMatchesVotes, Aborted
  <1>3. CASE SomeNo
    BY <1>1, <1>3 DEF AllYes, SomeNo
  <1>4. CASE pg[n] = "aborted" /\ cause[n] # None
    BY <1>1, <1>4 DEF AllYes, IInv, OutcomeMatchesVotes
  <1>5. QED
    BY <1>2, <1>3, <1>4

\* No region commits what another region, or the client, is told to roll back
\* (state.rs add_vote and try_finish), for any nodes, participants and failures.
THEOREM AgreementHolds == Spec => []Agreement
  BY InvariantHolds, InvAgreement, PTL

\* IInv makes a commit one that every surrogate has prepared.
LEMMA InvCommitIsPrepared == IInv => CommitIsPrepared
  <1> SUFFICES ASSUME IInv, NEW m \in Node, Committed(m), NEW n \in Surrogates
               PROVE  pg[n] \in {"prepared", "committed"}
    BY DEF CommitIsPrepared
  <1>1. AllYes /\ n \in Node
    BY DEF IInv, OutcomeMatchesVotes, Committed, Surrogates
  <1>2. pg[n] # "none" /\ cause[n] = None /\ ~SomeNo
    BY <1>1 DEF AllYes, SomeNo, IInv, OutcomeMatchesVotes
  <1>3. pg[n] # "aborted"
    BY <1>1, <1>2 DEF IInv, OutcomeMatchesVotes
  <1>4. QED
    BY <1>1, <1>2, <1>3 DEF IInv, TypeOK

\* Once it is committed anywhere, the transaction can be committed at every
\* surrogate: all have it prepared (controller.rs execute and commit).
THEOREM CommitIsPreparedHolds == Spec => []CommitIsPrepared
  BY InvariantHolds, InvCommitIsPrepared, PTL

\* IInv traces every rollback to an execution that failed.
LEMMA InvRollbackHasCause == IInv => RollbackHasCause
  <1> SUFFICES ASSUME IInv,
                      NEW i \in {client.info} \cup {xact[n].info : n \in Node}, i # NoInfo
               PROVE  /\ i.by \in Surrogates
                      /\ cause[i.by] # None \/ ballot[i.by] = "no"
                      /\ \E m \in Surrogates : cause[m] = i.reason
    BY DEF RollbackHasCause
  <1>1. CASE i = client.info
    BY <1>1 DEF IInv, OutcomeMatchesVotes, RealReason
  <1>2. ASSUME NEW n \in Node, i = xact[n].info
        PROVE  /\ i.by \in Surrogates
               /\ cause[i.by] # None \/ ballot[i.by] = "no"
               /\ \E m \in Surrogates : cause[m] = i.reason
    <2>1. TrueNo(n)
      BY <1>2 DEF IInv, TaskMatchesVotes
    <2>2. QED
      BY <1>2, <2>1 DEF TrueNo, RealReason
  <1>3. QED
    BY <1>1, <1>2

\* A rollback is never invented, however its reason was passed on
\* (manager.rs handle_prepare_msg).
THEOREM RollbackHasCauseHolds == Spec => []RollbackHasCause
  BY InvariantHolds, InvRollbackHasCause, PTL

\* A step that changes a ballot is the first vote of its node.
LEMMA VoteOnceStep ==
  ASSUME IInv, Next, NEW n \in Node, ballot[n] # "unset"
  PROVE  ballot'[n] = ballot[n]
  <1>1. CASE \E k \in Node : SendVote(k)
    <2>1. PICK k \in Node : SendVote(k)
      BY <1>1
    <2>2. ballot[k] = "unset"
      BY <2>1 DEF SendVote, IInv, TaskMatchesLabel
    <2>3. QED
      BY <2>1, <2>2 DEF SendVote, IInv, TypeOK
  <1>2. CASE UNCHANGED ballot
    BY <1>2
  <1>3. (\E k \in Node : SendVote(k)) \/ UNCHANGED ballot
    BY DEF Next, Submit, ManagerLocal, Deliver, ManagerRemote, TaskStep, FaultStep,
       HandleLocalXact, HandlePrepare, Execute, AddExisting, SendPrepare, Sent, HandleVote,
       KeepWaiting, FinishLocal, FinishSurrogate, DecodeError, ExecuteAnswerLost, RpcError,
       FinishError, CrashRestart
  <1>4. QED
    BY <1>1, <1>2, <1>3

\* No node ever changes its vote, not even after a restart, since its Prepare
\* reaches it at most once (manager.rs handle_prepare_msg).
THEOREM VoteOnceHolds == Spec => VoteOnce
  <1>1. IInv /\ [Next]_vars => [\A n \in Node : ballot[n] # "unset" => ballot'[n] = ballot[n]]_vars
    BY VoteOnceStep
  <1>2. QED
    BY <1>1, InvariantHolds, PTL DEF Spec, VoteOnce

----------------------------------------------------------------------------
(* What a step does to the client, to PostgreSQL and to the errors.        *)

\* Only five kinds of step decide, execute or submit; any other one leaves
\* PostgreSQL alone and at most drops the commit_tx of the client.
LEMMA StepEffects ==
  ASSUME IInv, Next
  PROVE  \/ Submit
         \/ \E n \in Node : FinishLocal(n)
         \/ \E n \in Node : Execute(n) \/ ExecuteAnswerLost(n)
         \/ \E n \in Node : FinishSurrogate(n) \/ FinishError(n)
         \/ /\ UNCHANGED <<pg, cause>>
            /\ UNCHANGED client \/ DropCommitTx(Coordinator)
  <1>1. ASSUME NEW n \in Node, NEW how, Abandon(n, how)
        PROVE  UNCHANGED client \/ DropCommitTx(Coordinator)
    BY <1>1 DEF Abandon, DropCommitTx
  <1>2. ASSUME NEW n \in Node, DropCommitTx(n)
        PROVE  UNCHANGED client \/ DropCommitTx(Coordinator)
    BY <1>2 DEF DropCommitTx
  <1>3. ASSUME NEW n \in Node,
               \/ HandleLocalXact(n) \/ HandlePrepare(n) \/ AddExisting(n) \/ SendPrepare(n)
               \/ SendVote(n) \/ Sent(n) \/ HandleVote(n) \/ KeepWaiting(n)
        PROVE  UNCHANGED <<pg, cause>> /\ (UNCHANGED client \/ DropCommitTx(Coordinator))
    BY <1>1, <1>3 DEF HandleLocalXact, HandlePrepare, AddExisting, SendPrepare, SendVote, Sent,
       HandleVote, KeepWaiting
  <1>4. ASSUME NEW n \in Node, DecodeError(n) \/ RpcError(n) \/ CrashRestart(n)
        PROVE  UNCHANGED <<pg, cause>> /\ (UNCHANGED client \/ DropCommitTx(Coordinator))
    BY <1>1, <1>2, <1>4 DEF DecodeError, RpcError, CrashRestart
  <1>5. ASSUME NEW n \in Node, ManagerRemote(n)
        PROVE  UNCHANGED <<pg, cause, client>>
    BY <1>5 DEF ManagerRemote
  <1>6. ASSUME NEW m \in net, Deliver(m)
        PROVE  UNCHANGED <<pg, cause, client>>
    BY <1>6 DEF Deliver
  <1>7. ASSUME ManagerLocal
        PROVE  UNCHANGED <<pg, cause>> /\ (UNCHANGED client \/ DropCommitTx(Coordinator))
    BY <1>7 DEF ManagerLocal
  <1>8. QED
    BY <1>3, <1>4, <1>5, <1>6, <1>7 DEF Next, TaskStep, FaultStep

\* A node that executes is a surrogate of which nothing is known yet, and its
\* step leaves the client alone.
LEMMA ExecuteEffect ==
  ASSUME IInv, NEW n \in Node, Execute(n) \/ ExecuteAnswerLost(n)
  PROVE  /\ n \in Surrogates /\ pg[n] = "none" /\ cause[n] = None
         /\ UNCHANGED client
         /\ \/ pg' = [pg EXCEPT ![n] = "prepared"] /\ UNCHANGED cause
            \/ \E r \in Reason : /\ cause' = [cause EXCEPT ![n] = r]
                                 /\ \/ pg' = [pg EXCEPT ![n] = "prepared"]
                                    \/ pg' = [pg EXCEPT ![n] = "aborted"]
  <1>1. task[n] = "execute"
    BY DEF Execute, ExecuteAnswerLost
  <1>2. n \in Surrogates /\ pg[n] = "none" /\ cause[n] = None /\ n # Coordinator
    BY <1>1 DEF IInv, TaskMatchesLabel, TaskMatchesVotes, Surrogates
  <1>3. ASSUME NEW r, CastOwnVote(n, r)
        PROVE  UNCHANGED client
    BY <1>2, <1>3 DEF CastOwnVote, Abandon, DropCommitTx
  <1>4. CASE Execute(n)
    <2>1. PICK r \in Reason \cup {None} :
            /\ CastOwnVote(n, r)
            /\ pg' = [pg EXCEPT ![n] = IF r = None THEN "prepared" ELSE "aborted"]
            /\ cause' = [cause EXCEPT ![n] = r]
      BY <1>4 DEF Execute
    <2>2. CASE r = None
      <3>1. cause' = cause
        BY <1>2, <2>1, <2>2 DEF IInv, TypeOK
      <3>2. QED
        BY <1>2, <1>3, <2>1, <2>2, <3>1
    <2>3. CASE r \in Reason
      BY <1>2, <1>3, <2>1, <2>3
    <2>4. QED
      BY <2>1, <2>2, <2>3
  <1>5. CASE ExecuteAnswerLost(n)
    BY <1>2, <1>3, <1>5 DEF ExecuteAnswerLost
  <1>6. QED
    BY <1>4, <1>5

----------------------------------------------------------------------------
(* The client.                                                             *)

\* Only surrogates refuse: the invariant is inductive.
LEMMA RefuseStep ==
  ASSUME IInv, OnlySurrogatesRefuse, Next
  PROVE  OnlySurrogatesRefuse'
  <1>1. CASE UNCHANGED cause
    BY <1>1 DEF OnlySurrogatesRefuse, Surrogates
  <1>2. ASSUME NEW n \in Node, Execute(n) \/ ExecuteAnswerLost(n)
        PROVE  OnlySurrogatesRefuse'
    BY <1>2, ExecuteEffect DEF OnlySurrogatesRefuse, Surrogates, IInv, TypeOK
  <1>3. QED
    BY <1>1, <1>2, StepEffects DEF Submit, FinishLocal, FinishSurrogate, FinishError

\* A task that ends without an answer drops the commit_tx if it has it.
LEMMA AbandonClient ==
  ASSUME IInv, ClientMatchesTask, NEW n \in Node, NEW how \in Stopped, Abandon(n, how),
         UNCHANGED <<xact, localRx>>, n = Coordinator => localRx = <<>>
  PROVE  ClientMatchesTask'
  <1>1. how \notin Running
    BY DEF Running, Stopped
  <1>2. CASE n = Coordinator
    <2>1. client'.state # "waiting"
      BY <1>2 DEF Abandon, DropCommitTx, IInv, TypeOK, ClientState
    <2>2. /\ task'[Coordinator] = how
          /\ chan'[Coordinator] = <<>>
          /\ localRx' = <<>>
      BY <1>2 DEF Abandon, Stop, Goto, IInv, TypeOK
    <2>3. QED
      BY <1>1, <2>1, <2>2 DEF ClientMatchesTask, ClientIsServed, LocalXactAt
  <1>3. CASE n # Coordinator
    <2>1. /\ UNCHANGED <<client, localRx>>
          /\ task'[Coordinator] = task[Coordinator]
          /\ chan'[Coordinator] = chan[Coordinator]
          /\ xact'[Coordinator] = xact[Coordinator]
      BY <1>3 DEF Abandon, Stop, Goto, DropCommitTx, IInv, TypeOK
    <2>2. QED
      BY <2>1 DEF ClientMatchesTask, ClientIsServed, LocalXactAt
  <1>4. QED
    BY <1>2, <1>3

\* A step that leaves the client alone, and the coordinator's task alive if it
\* was, keeps what is known of the client.
LEMMA ClientKept ==
  ASSUME ClientMatchesTask, UNCHANGED <<client, localRx>>,
         LocalXactAt(chan'[Coordinator]) => LocalXactAt(chan[Coordinator]),
         task[Coordinator] \in Running <=> task'[Coordinator] \in Running,
         \/ xact'[Coordinator].kind = xact[Coordinator].kind
         \/ xact'[Coordinator].kind = "local" => LocalXactAt(chan[Coordinator])
  PROVE  ClientMatchesTask'
  BY DEF ClientMatchesTask, ClientIsServed

\* Taking a message out of a channel leaves no LocalXact that was not there.
LEMMA LocalXactInTail ==
  ASSUME NEW s \in Seq(Message), s # <<>>
  PROVE  /\ LocalXactAt(Tail(s)) => LocalXactAt(s)
         /\ Head(s).type = "LocalXact" => LocalXactAt(s)
         /\ Head(s) = s[1] /\ 1 \in 1..Len(s)
  <1>1. \A i \in 1..Len(Tail(s)) : i + 1 \in 1..Len(s) /\ Tail(s)[i] = s[i + 1]
    BY TailItems
  <1>2. Head(s) = s[1] /\ 1 \in 1..Len(s)
    OBVIOUS
  <1>3. QED
    BY <1>1, <1>2 DEF LocalXactAt

\* Every step of a task keeps what is known of the client.
LEMMA TaskStepClient ==
  ASSUME IInv, ClientMatchesTask, NEW n \in Node, TaskStep(n)
  PROVE  ClientMatchesTask'
  <1>0. /\ task \in [Node -> TaskState] /\ xact \in [Node -> XactType]
        /\ chan \in [Node -> Seq(Message)] /\ client \in ClientState
        /\ xact[n] \in XactType /\ chan[n] \in Seq(Message)
    BY DEF IInv, TypeOK
  <1>1. ASSUME NEW how \in Stopped, Abandon(n, how), UNCHANGED <<xact, localRx>>,
               chan[n] # <<>> \/ xact[n].kind # "unknown"
        PROVE  ClientMatchesTask'
    BY <1>1, AbandonClient DEF IInv, SentOnce
  <1>2. ASSUME UNCHANGED <<client, localRx>>, NEW l \in Running, NEW y,
               task' = [task EXCEPT ![n] = l], task[n] \in Running,
               xact' = [xact EXCEPT ![n] = y],
               y.kind = xact[n].kind \/ (y.kind = "local" => Receives(n, "LocalXact")),
               \/ UNCHANGED chan
               \/ chan[n] # <<>> /\ chan' = [chan EXCEPT ![n] = Tail(chan[n])]
        PROVE  ClientMatchesTask'
    <2>1. LocalXactAt(chan'[Coordinator]) => LocalXactAt(chan[Coordinator])
      <3>1. chan[n] # <<>> => (LocalXactAt(Tail(chan[n])) => LocalXactAt(chan[n]))
        BY <1>0, LocalXactInTail
      <3>2. \/ chan'[Coordinator] = chan[Coordinator]
            \/ Coordinator = n /\ chan[n] # <<>> /\ chan'[Coordinator] = Tail(chan[n])
        <4>1. \/ UNCHANGED chan
              \/ chan[n] # <<>> /\ chan' = [chan EXCEPT ![n] = Tail(chan[n])]
          BY <1>2
        <4>2. QED
          BY <1>0, <4>1
      <3>3. QED
        BY <3>1, <3>2
    <2>2. task[Coordinator] \in Running <=> task'[Coordinator] \in Running
      BY <1>0, <1>2
    <2>3. \/ xact'[Coordinator].kind = xact[Coordinator].kind
          \/ xact'[Coordinator].kind = "local" => LocalXactAt(chan[Coordinator])
      <3>1. Receives(n, "LocalXact") => LocalXactAt(chan[n])
        BY <1>0, LocalXactInTail DEF Receives
      <3>2. QED
        BY <1>0, <1>2, <3>1
    <2>4. QED
      BY <1>2, <2>1, <2>2, <2>3, ClientKept
  <1>3. xact = [xact EXCEPT ![n] = xact[n]]
    BY <1>0
  <1>4. CASE HandleLocalXact(n)
    <2>1. CASE xact[n].kind = "unknown"
      <3>1. /\ UNCHANGED <<client, localRx>> /\ Receives(n, "LocalXact")
            /\ xact' = [xact EXCEPT ![n] = InitAsLocal(xact[n])]
            /\ task' = [task EXCEPT ![n] = "existing"] /\ task[n] = "recv"
            /\ chan[n] # <<>> /\ chan' = [chan EXCEPT ![n] = Tail(chan[n])]
        BY <1>4, <2>1 DEF HandleLocalXact, Goto, Dequeue, Receives
      <3>2. QED
        BY <1>2, <3>1 DEF Running
    <2>2. CASE xact[n].kind # "unknown"
      BY <1>1, <1>4, <2>2, Labels DEF HandleLocalXact
    <2>3. QED
      BY <2>1, <2>2
  <1>5. CASE HandlePrepare(n)
    <2>1. CASE n \in Participants /\ xact[n].kind = "unknown"
      <3>1. /\ UNCHANGED <<client, localRx>>
            /\ xact' = [xact EXCEPT ![n] = InitAsSurrogate(xact[n])]
            /\ task' = [task EXCEPT ![n] = "execute"] /\ task[n] = "recv"
            /\ chan[n] # <<>> /\ chan' = [chan EXCEPT ![n] = Tail(chan[n])]
        BY <1>5, <2>1 DEF HandlePrepare, Goto, Dequeue, Receives
      <3>2. xact[n].voted = {} /\ xact[n].info = NoInfo
        BY <2>1 DEF IInv, TaskMatchesVotes
      <3>3. InitAsSurrogate(xact[n]).kind # "local"
        BY <1>0, <3>2, InitAsEffect DEF InitAsSurrogate
      <3>4. QED
        BY <1>2, <3>1, <3>3 DEF Running
    <2>2. CASE ~(n \in Participants /\ xact[n].kind = "unknown")
      BY <1>1, <1>5, <2>2, Labels DEF HandlePrepare, Receives
    <2>3. QED
      BY <2>1, <2>2
  <1>6. CASE Execute(n)
    <2>1. PICK r \in Reason \cup {None} : CastOwnVote(n, r)
      BY <1>6 DEF Execute
    <2>2. task[n] = "execute" /\ UNCHANGED localRx /\ xact[n].kind = "surrogate"
      BY <1>6 DEF Execute, IInv, TaskMatchesLabel
    <2>3. CASE MayAddVote(xact[n])
      <3>1. VoteOf(n, r) \in Vote
        BY DEF VoteOf, Vote
      <3>2. AddVote(xact[n], VoteOf(n, r)).kind = xact[n].kind
        BY <1>0, <3>1, AddVoteEffect
      <3>3. QED
        BY <1>2, <2>1, <2>2, <2>3, <3>2 DEF CastOwnVote, Goto, Running
    <2>4. CASE ~MayAddVote(xact[n])
      BY <1>1, <2>1, <2>2, <2>4, Labels DEF CastOwnVote
    <2>5. QED
      BY <2>3, <2>4
  <1>7. CASE AddExisting(n)
    <2>1. task[n] = "existing" /\ xact[n].votes # <<>> /\ UNCHANGED localRx
      BY <1>7 DEF AddExisting
    <2>2. CASE MayAddVote(xact[n])
      <3>1. Head(xact[n].votes) \in Vote
        BY <1>0, <2>1 DEF XactType
      <3>2. AddExistingVote(xact[n]).kind = xact[n].kind
        <4>1. /\ AddVote(xact[n], Head(xact[n].votes)) \in XactType
              /\ AddVote(xact[n], Head(xact[n].votes)).kind = xact[n].kind
          BY <1>0, <3>1, AddVoteEffect, AddVoteType
        <4>2. QED
          BY <4>1 DEF AddExistingVote, XactType
      <3>3. task' = [task EXCEPT ![n] = "existing"]
        BY <1>0, <1>7, <2>1, <2>2 DEF AddExisting
      <3>4. QED
        BY <1>2, <1>7, <2>1, <2>2, <3>2, <3>3 DEF AddExisting, Running
    <2>3. CASE ~MayAddVote(xact[n])
      <3>1. xact[n].kind # "unknown"
        BY <2>1 DEF IInv, TaskMatchesLabel
      <3>2. QED
        BY <1>1, <1>7, <2>3, <3>1, Labels DEF AddExisting
    <2>4. QED
      BY <2>2, <2>3
  <1>8. CASE SendPrepare(n)
    <2>1. CASE xact[n].status = "Waiting"
      BY <1>2, <1>3, <1>8, <2>1 DEF SendPrepare, Goto, Running
    <2>2. CASE xact[n].status # "Waiting"
      BY <1>1, <1>8, <2>2, Labels DEF SendPrepare
    <2>3. QED
      BY <2>1, <2>2
  <1>9. CASE SendVote(n)
    BY <1>2, <1>3, <1>9 DEF SendVote, Goto, Running
  <1>10. CASE Sent(n)
    BY <1>2, <1>3, <1>10 DEF Sent, Goto, Running
  <1>11. CASE HandleVote(n)
    <2>1. /\ task[n] = "recv" /\ chan[n] # <<>> /\ UNCHANGED localRx
          /\ Head(chan[n]) \in Message
      BY <1>0, <1>11 DEF HandleVote, Receives
    <2> DEFINE vote == VoteOf(Head(chan[n]).from, Head(chan[n]).reason)
    <2>2. vote \in Vote
      BY <2>1 DEF VoteOf, Vote, Message
    <2>3. CASE xact[n].kind = "unknown" \/ MayAddVote(xact[n])
      <3> DEFINE y == IF xact[n].kind = "unknown" THEN KeepVote(xact[n], vote)
                                                  ELSE AddVote(xact[n], vote)
      <3>1. y.kind = xact[n].kind
        BY <1>0, <2>2, AddVoteEffect DEF KeepVote, XactType
      <3>2. /\ xact' = [xact EXCEPT ![n] = y] /\ UNCHANGED client
            /\ task' = [task EXCEPT ![n] = "finish"]
            /\ chan' = [chan EXCEPT ![n] = Tail(chan[n])]
        BY <1>11, <2>3 DEF HandleVote, Goto, Dequeue
      <3> HIDE DEF y
      <3>3. QED
        BY <1>2, <2>1, <3>1, <3>2 DEF Running
    <2>4. CASE ~(xact[n].kind = "unknown" \/ MayAddVote(xact[n]))
      BY <1>1, <1>11, <2>1, <2>4, Labels DEF HandleVote
    <2>5. QED
      BY <2>3, <2>4
  <1>12. CASE KeepWaiting(n)
    BY <1>2, <1>3, <1>12 DEF KeepWaiting, Goto, Running
  <1>13. CASE FinishLocal(n)
    <2>1. n = Coordinator /\ xact[n].kind = "local" /\ task[n] = "finish" /\ UNCHANGED localRx
      BY <1>13 DEF FinishLocal, Decided, IInv, TaskMatchesVotes
    <2>2. localRx = <<>>
      BY <2>1 DEF IInv, SentOnce
    <2>3. /\ task'[Coordinator] = "done" /\ chan'[Coordinator] = <<>>
          /\ client'.state # "waiting"
      BY <1>0, <1>13, <2>1 DEF FinishLocal, Stop, Goto
    <2>4. QED
      BY <2>1, <2>2, <2>3 DEF ClientMatchesTask, ClientIsServed, LocalXactAt, Running
  <1>14. CASE FinishSurrogate(n)
    <2>1. n # Coordinator /\ xact[n].kind = "surrogate" /\ UNCHANGED localRx
      BY <1>14 DEF FinishSurrogate, Decided, IInv, TaskMatchesVotes, Surrogates
    <2>2. CASE xact[n].status = "Committing" /\ pg[n] # "prepared"
      BY <1>1, <1>14, <2>1, <2>2, Labels DEF FinishSurrogate
    <2>3. CASE ~(xact[n].status = "Committing" /\ pg[n] # "prepared")
      <3>1. /\ UNCHANGED client /\ task'[Coordinator] = task[Coordinator]
            /\ chan'[Coordinator] = chan[Coordinator]
            /\ xact'[Coordinator] = xact[Coordinator]
        <4>1. /\ UNCHANGED client /\ xact' = [xact EXCEPT ![n] = Finished(xact[n])]
              /\ task' = [task EXCEPT ![n] = "done"] /\ chan' = [chan EXCEPT ![n] = <<>>]
          BY <1>14, <2>3 DEF FinishSurrogate, Stop, Goto
        <4>2. QED
          BY <1>0, <2>1, <4>1
      <3>2. QED
        BY <2>1, <3>1, ClientKept
    <2>4. QED
      BY <2>2, <2>3
  <1>15. QED
    BY <1>4, <1>5, <1>6, <1>7, <1>8, <1>9, <1>10, <1>11, <1>12, <1>13, <1>14 DEF TaskStep

\* Every failure keeps what is known of the client.
LEMMA FaultStepClient ==
  ASSUME IInv, ClientMatchesTask, NEW n \in Node, FaultStep(n)
  PROVE  ClientMatchesTask'
  <1>0. /\ task \in [Node -> TaskState] /\ xact \in [Node -> XactType]
        /\ chan \in [Node -> Seq(Message)] /\ client \in ClientState
        /\ xact[n] \in XactType /\ chan[n] \in Seq(Message)
    BY DEF IInv, TypeOK
  <1>1. ASSUME NEW how \in Stopped, Abandon(n, how), UNCHANGED <<xact, localRx>>,
               chan[n] # <<>> \/ xact[n].kind # "unknown"
        PROVE  ClientMatchesTask'
    BY <1>1, AbandonClient DEF IInv, SentOnce
  <1>2. CASE DecodeError(n)
    BY <1>1, <1>2, Labels DEF DecodeError, Receives
  <1>3. CASE ExecuteAnswerLost(n)
    <2>1. PICK r \in Reason : CastOwnVote(n, r)
      BY <1>3 DEF ExecuteAnswerLost
    <2>2. UNCHANGED <<localRx, client>> /\ n # Coordinator
      BY <1>3, ExecuteEffect DEF ExecuteAnswerLost, Surrogates
    <2>3. /\ xact'[Coordinator] = xact[Coordinator] /\ task'[Coordinator] = task[Coordinator]
          /\ chan'[Coordinator] = chan[Coordinator]
      BY <1>0, <2>1, <2>2 DEF CastOwnVote, Abandon, Stop, Goto
    <2>4. QED
      BY <2>2, <2>3, ClientKept
  <1>4. CASE RpcError(n)
    <2>1. xact[n].kind # "unknown"
      BY <1>4 DEF RpcError, IInv, TaskMatchesLabel
    <2>2. QED
      BY <1>1, <1>4, <2>1, Labels DEF RpcError
  <1>5. CASE FinishError(n)
    BY <1>1, <1>5, Labels DEF FinishError, Decided
  <1>6. CASE CrashRestart(n)
    <2>1. CASE n = Coordinator
      <3>1. /\ localRx' = <<>> /\ task'[Coordinator] = "absent" /\ chan'[Coordinator] = <<>>
            /\ client'.state # "waiting"
        BY <1>0, <1>6, <2>1 DEF CrashRestart, DropCommitTx, ClientState
      <3>2. QED
        BY <3>1 DEF ClientMatchesTask, ClientIsServed, LocalXactAt, Running
    <2>2. CASE n # Coordinator
      <3>1. /\ UNCHANGED <<client, localRx>>
            /\ xact'[Coordinator] = xact[Coordinator] /\ task'[Coordinator] = task[Coordinator]
            /\ chan'[Coordinator] = chan[Coordinator]
        BY <1>0, <1>6, <2>2 DEF CrashRestart, DropCommitTx
      <3>2. QED
        BY <3>1, ClientKept
    <2>3. QED
      BY <2>1, <2>2
  <1>7. QED
    BY <1>2, <1>3, <1>4, <1>5, <1>6 DEF FaultStep

\* The watcher, the Manager and the network keep what is known of the client.
LEMMA ManagerClient ==
  ASSUME IInv, ClientMatchesTask,
         Submit \/ ManagerLocal \/ (\E m \in net : Deliver(m)) \/ \E n \in Node : ManagerRemote(n)
  PROVE  ClientMatchesTask'
  <1>0. /\ task \in [Node -> TaskState] /\ chan \in [Node -> Seq(Message)]
        /\ client \in ClientState /\ localRx \in Seq(Message)
        /\ remoteRx \in [Node -> Seq(Message)]
    BY DEF IInv, TypeOK
  <1>1. CASE Submit
    <2>1. /\ client'.state = "waiting" /\ localRx' # <<>>
          /\ UNCHANGED <<xact, task, chan>>
      BY <1>0, <1>1 DEF Submit, ClientState
    <2>2. QED
      BY <2>1 DEF ClientMatchesTask, ClientIsServed
  <1>2. CASE ManagerLocal
    <2>1. /\ localRx # <<>> /\ Len(localRx) = 1 /\ chan[Coordinator] = <<>>
          /\ xact[Coordinator].kind = "unknown" /\ client.state = "waiting" /\ UNCHANGED xact
      BY <1>2 DEF ManagerLocal, IInv, SentOnce, ClientMatchesTask
    <2>2. localRx' = <<>>
      BY <1>0, <1>2, <2>1, EmptyTail DEF ManagerLocal
    <2>3. CASE task[Coordinator] \in Stopped
      <3>1. client'.state = "error" /\ UNCHANGED <<task, chan>>
        BY <1>0, <1>2, <2>1, <2>3 DEF ManagerLocal, Dispatch, DropCommitTx, ClientState
      <3>2. QED
        BY <2>1, <2>2, <3>1 DEF ClientMatchesTask, ClientIsServed, LocalXactAt
    <2>4. CASE task[Coordinator] \notin Stopped
      <3>1. UNCHANGED client /\ task'[Coordinator] \in Running
        BY <1>0, <1>2, <2>4 DEF ManagerLocal, Dispatch, TaskState, Running
      <3>2. QED
        BY <2>1, <2>2, <3>1 DEF ClientMatchesTask, ClientIsServed
    <2>5. QED
      BY <2>3, <2>4
  <1>3. ASSUME NEW m \in net, Deliver(m)
        PROVE  ClientMatchesTask'
    BY <1>3, ClientKept DEF Deliver
  <1>4. ASSUME NEW n \in Node, ManagerRemote(n)
        PROVE  ClientMatchesTask'
    <2>1. UNCHANGED <<client, localRx, xact>>
      BY <1>4 DEF ManagerRemote
    <2>2. remoteRx[n] \in Seq(Message) /\ remoteRx[n] # <<>> /\ Dispatch(n, Head(remoteRx[n]))
      BY <1>0, <1>4 DEF ManagerRemote
    <2> DEFINE m == Head(remoteRx[n])
    <2>3. m.type # "LocalXact"
      <3>1. m = remoteRx[n][1] /\ 1 \in 1..Len(remoteRx[n])
        BY <2>2
      <3>2. QED
        BY <3>1 DEF IInv, TrueMessages
    <2> HIDE DEF m
    <2>4. CASE task[n] \in Stopped
      BY <2>1, <2>2, <2>4, ClientKept DEF Dispatch
    <2>5. CASE task[n] \notin Stopped /\ n # Coordinator
      <3>1. task'[Coordinator] = task[Coordinator] /\ chan'[Coordinator] = chan[Coordinator]
        BY <1>0, <2>2, <2>5 DEF Dispatch
      <3>2. QED
        BY <2>1, <3>1, ClientKept
    <2>6. CASE task[n] \notin Stopped /\ n = Coordinator
      <3>1. /\ task'[n] = IF task[n] = "absent" THEN "recv" ELSE task[n]
            /\ chan'[n] = Append(chan[n], m)
        BY <1>0, <2>2, <2>6 DEF Dispatch, m
      <3>2. LocalXactAt(chan'[n]) => LocalXactAt(chan[n])
        <4>1. chan[n] \in Seq(Message)
          BY <1>0
        <4>2. \A i \in 1..Len(chan'[n]) : \/ i \in 1..Len(chan[n]) /\ chan'[n][i] = chan[n][i]
                                          \/ chan'[n][i] = m
          BY <3>1, <4>1
        <4>3. QED
          BY <2>3, <4>2 DEF LocalXactAt
      <3>3. /\ task'[n] \in Running
            /\ task[n] \in Running \/ task[n] = "absent"
            /\ task[n] = "absent" => xact[n].kind = "unknown"
        BY <1>0, <2>6, <3>1 DEF TaskState, Running, IInv, TaskMatchesLabel
      <3>4. QED
        BY <2>1, <2>6, <3>2, <3>3 DEF ClientMatchesTask, ClientIsServed
    <2>7. QED
      BY <2>4, <2>5, <2>6
  <1>5. QED
    BY <1>1, <1>2, <1>3, <1>4

\* What is known of the client, and of who refuses, is inductive.
LEMMA ClientStep ==
  ASSUME IInv, ClientMatchesTask, OnlySurrogatesRefuse, [Next]_vars
  PROVE  ClientMatchesTask' /\ OnlySurrogatesRefuse'
  <1>1. CASE UNCHANGED vars
    BY <1>1 DEF vars, ClientMatchesTask, ClientIsServed, OnlySurrogatesRefuse, Surrogates
  <1>2. CASE Next
    BY <1>2, RefuseStep, ManagerClient, TaskStepClient, FaultStepClient DEF Next
  <1>3. QED
    BY <1>1, <1>2

\* The commit_tx of a waiting client is always where it can be answered or
\* dropped, and only surrogates refuse (manager.rs, pg/controller.rs).
THEOREM ClientInvariantHolds == Spec => [](IInv /\ ClientMatchesTask /\ OnlySurrogatesRefuse)
  <1>1. Init => ClientMatchesTask /\ OnlySurrogatesRefuse
    BY DEF Init, ClientMatchesTask, ClientIsServed, OnlySurrogatesRefuse, Unknown, LocalXactAt,
       Running
  <1>2. QED
    BY <1>1, InitInv, NextInv, ClientStep, PTL DEF Spec

\* No error path of the coordinator, and no crash, leaves the connection of the
\* client waiting on nothing (watcher.rs process_query).
THEOREM ClientIsServedHolds == Spec => []ClientIsServed
  <1>1. ClientMatchesTask => ClientIsServed
    BY DEF ClientMatchesTask
  <1>2. QED
    BY <1>1, ClientInvariantHolds, PTL

----------------------------------------------------------------------------
(* The refinement of AtomicCommit.                                         *)

Regions == Participants \cup {Coordinator}

\* What RegionState reads off the client and off PostgreSQL.
LEMMA RegionStates ==
  ASSUME TypeOK
  PROVE  /\ client.state = "idle" <=> RegionState(Coordinator) = "working"
         /\ client.state = "waiting" <=> RegionState(Coordinator) = "prepared"
         /\ client.state = "committed" <=> RegionState(Coordinator) = "committed"
         /\ client.state = "rollbacked" <=> RegionState(Coordinator) = "aborted"
         /\ client.state = "error" <=> RegionState(Coordinator) = "indoubt"
         /\ RegionState(Coordinator) \in AC!RMState
         /\ \A n \in Surrogates : /\ RegionState(n) = IF pg[n] = "none" THEN "working" ELSE pg[n]
                                  /\ RegionState(n) \in AC!RMState \ {"indoubt"}
  <1>1. client.state \in {"idle", "waiting", "committed", "rollbacked", "error"}
    BY DEF TypeOK, ClientState
  <1>2. \A n \in Surrogates : RegionState(n) = IF pg[n] = "none" THEN "working" ELSE pg[n]
    BY DEF RegionState, Surrogates
  <1>3. \A n \in Surrogates : pg[n] \in {"none", "prepared", "committed", "aborted"}
    BY DEF TypeOK, Surrogates
  <1>4. RegionState(Coordinator) =
          [idle |-> "working", waiting |-> "prepared", committed |-> "committed",
           rollbacked |-> "aborted", error |-> "indoubt"][client.state]
    BY DEF RegionState
  <1>5. QED
    BY <1>1, <1>2, <1>3, <1>4 DEF AC!RMState

\* The same for the submitting region after a step.
LEMMA RegionAfter ==
  /\ client'.state = "waiting" => RegionState(Coordinator)' = "prepared"
  /\ client'.state = "committed" => RegionState(Coordinator)' = "committed"
  /\ client'.state = "rollbacked" => RegionState(Coordinator)' = "aborted"
  /\ client'.state = "error" => RegionState(Coordinator)' = "indoubt"
  BY DEF RegionState

\* A step that moves one region is a Become of AtomicCommit.
LEMMA OneRegionMoves ==
  ASSUME NEW r \in Regions, NEW s, RegionState(r)' = s,
         \A n \in Regions \ {r} : RegionState(n)' = RegionState(n)
  PROVE  AC!Become(r, s)
  BY DEF AC!Become, Regions

\* A step that changes neither PostgreSQL, nor the client, nor the errors is a
\* stuttering step of AtomicCommit.
LEMMA RegionsStutter ==
  ASSUME UNCHANGED cause,
         \A n \in Regions : RegionState(n)' = RegionState(n)
  PROVE  UNCHANGED AC!acVars
  BY DEF AC!acVars, Regions

\* The step of a client or of a surrogate moves no other region.
LEMMA OtherRegions ==
  ASSUME TypeOK
  PROVE  /\ UNCHANGED pg => \A n \in Regions \ {Coordinator} : RegionState(n)' = RegionState(n)
         /\ UNCHANGED client => RegionState(Coordinator)' = RegionState(Coordinator)
         /\ \A n \in Surrogates : \A s :
              UNCHANGED client /\ pg' = [pg EXCEPT ![n] = s] =>
                /\ \A m \in Regions \ {n} : RegionState(m)' = RegionState(m)
                /\ s # "none" => RegionState(n)' = s
  BY DEF RegionState, Regions, Surrogates, TypeOK

\* Every region may commit once every surrogate has voted 'yes', and none may
\* when one has voted 'no'.
LEMMA VotesDecide ==
  ASSUME IInv, OnlySurrogatesRefuse
  PROVE  /\ AllYes /\ client.state # "idle" =>
              /\ \A s \in Regions : RegionState(s) \in {"prepared", "committed", "indoubt"}
              /\ {n \in Node : cause[n] # None} = {}
         /\ SomeNo =>
              /\ \A s \in Regions : RegionState(s) # "committed"
              /\ {n \in Node : cause[n] # None} # {}
  <1>1. TypeOK /\ Surrogates \subseteq Node /\ Regions = Surrogates \cup {Coordinator}
    BY DEF IInv, Regions, Surrogates
  <1>2. ASSUME AllYes, client.state # "idle"
        PROVE  /\ \A s \in Regions : RegionState(s) \in {"prepared", "committed", "indoubt"}
               /\ {n \in Node : cause[n] # None} = {}
    <2>1. ~SomeNo
      BY <1>2 DEF AllYes, SomeNo
    <2>2. client.state # "rollbacked"
      BY <2>1 DEF IInv, OutcomeMatchesVotes
    <2>3. RegionState(Coordinator) \in {"prepared", "committed", "indoubt"}
      BY <1>1, <1>2, <2>2, RegionStates DEF TypeOK, ClientState
    <2>4. \A n \in Surrogates : cause[n] = None
      BY <1>1, <1>2 DEF AllYes, IInv, OutcomeMatchesVotes
    <2>5. \A n \in Surrogates : pg[n] \in {"prepared", "committed"}
      BY <1>1, <1>2, <2>1, <2>4 DEF AllYes, IInv, OutcomeMatchesVotes, TypeOK
    <2>6. \A n \in Surrogates : RegionState(n) \in {"prepared", "committed"}
      BY <1>1, <2>5, RegionStates
    <2>7. QED
      BY <1>1, <2>3, <2>4, <2>6 DEF OnlySurrogatesRefuse
  <1>3. ASSUME SomeNo
        PROVE  /\ \A s \in Regions : RegionState(s) # "committed"
               /\ {n \in Node : cause[n] # None} # {}
    <2>1. ~AllYes
      BY <1>3 DEF AllYes, SomeNo
    <2>2. client.state # "committed" /\ \A n \in Surrogates : pg[n] # "committed"
      BY <1>1, <2>1 DEF IInv, OutcomeMatchesVotes
    <2>3. \A s \in Regions : RegionState(s) # "committed"
      BY <1>1, <2>2, RegionStates
    <2>4. \E n \in Surrogates : cause[n] # None
      BY <1>1, <1>3 DEF SomeNo, IInv, OutcomeMatchesVotes
    <2>5. QED
      BY <1>1, <2>3, <2>4
  <1>4. QED
    BY <1>2, <1>3

\* The commit_tx is dropped: the submitting region is left in doubt.
LEMMA DropRefines ==
  ASSUME TypeOK, TypeOK', UNCHANGED <<pg, cause>>, UNCHANGED client \/ DropCommitTx(Coordinator)
  PROVE  [AC!Next]_(AC!acVars)
  <1>1. Coordinator \in Regions
    BY DEF Regions
  <1>2. CASE UNCHANGED client
    BY <1>1, <1>2, OtherRegions, RegionsStutter
  <1>3. CASE client.state = "waiting" /\ client'.state = "error"
    <2>1. RegionState(Coordinator) = "prepared" /\ RegionState(Coordinator)' = "indoubt"
      BY <1>3, RegionStates, RegionAfter
    <2>2. AC!Become(Coordinator, "indoubt")
      BY <1>1, <2>1, OtherRegions, OneRegionMoves
    <2>3. AC!LoseTouch(Coordinator)
      BY <1>1, <2>1, <2>2 DEF AC!LoseTouch, Regions
    <2>4. QED
      BY <1>1, <2>3 DEF AC!Next, Regions
  <1>4. QED
    BY <1>2, <1>3 DEF DropCommitTx, TypeOK, ClientState

\* A surrogate that has decided commits or gives up what it has prepared, or
\* finds nothing to give up.
LEMMA SurrogateRefines ==
  ASSUME IInv, OnlySurrogatesRefuse, NEW n \in Node, Decided(n, "surrogate"),
         UNCHANGED <<client, cause>>,
         xact[n].status = "Committing" => pg[n] = "prepared",
         pg' = [pg EXCEPT ![n] = AfterFinish(n)]
  PROVE  [AC!Next]_(AC!acVars)
  <1>1. /\ n \in Surrogates /\ n \in Regions /\ task[n] = "finish" /\ TypeOK
        /\ xact[n].kind = "surrogate"
        /\ xact[n].status \in {"Committing", "Rollbacking"}
    BY DEF Decided, IInv, TaskMatchesVotes, Surrogates, Regions
  <1>2. CASE xact[n].status = "Committing"
    <2>1. AllYes
      BY <1>1, <1>2, DecisionHolds
    <2>2. client.state # "idle"
      BY <1>1 DEF IInv, SentOnce, NothingSent
    <2>3. RegionState(n) = "prepared"
      BY <1>1, <1>2, RegionStates
    <2>4. RegionState(n)' = "committed" /\ \A m \in Regions \ {n} : RegionState(m)' = RegionState(m)
      BY <1>1, <1>2, OtherRegions DEF AfterFinish
    <2>5. AC!Become(n, "committed")
      BY <1>1, <2>4, OneRegionMoves
    <2>6. AC!Commit(n)
      BY <1>1, <2>1, <2>2, <2>3, <2>5, VotesDecide DEF AC!Commit, Regions
    <2>7. QED
      BY <1>1, <2>6 DEF AC!Next, Regions
  <1>3. CASE xact[n].status = "Rollbacking" /\ pg[n] = "prepared"
    <2>1. SomeNo
      BY <1>1, <1>3, DecisionHolds
    <2>2. RegionState(n) = "prepared"
      BY <1>1, <1>3, RegionStates
    <2>3. RegionState(n)' = "aborted" /\ \A m \in Regions \ {n} : RegionState(m)' = RegionState(m)
      BY <1>1, <1>3, OtherRegions DEF AfterFinish
    <2>4. AC!Become(n, "aborted")
      BY <1>1, <2>3, OneRegionMoves
    <2>5. AC!Abort(n)
      BY <1>1, <2>1, <2>2, <2>4, VotesDecide DEF AC!Abort, Regions
    <2>6. QED
      BY <1>1, <2>5 DEF AC!Next, Regions
  <1>4. CASE xact[n].status = "Rollbacking" /\ pg[n] # "prepared"
    <2>1. pg' = pg
      BY <1>1, <1>4 DEF AfterFinish, TypeOK, Surrogates
    <2>2. QED
      BY <1>1, <2>1, OtherRegions, RegionsStutter
  <1>5. QED
    BY <1>1, <1>2, <1>3, <1>4

\* Every step of the protocol is a step of AtomicCommit, or changes nothing that
\* AtomicCommit sees.
LEMMA NextRefines ==
  ASSUME IInv, TypeOK', ClientMatchesTask, OnlySurrogatesRefuse, [Next]_vars
  PROVE  [AC!Next]_(AC!acVars)
  <1>1. TypeOK /\ Coordinator \in Regions
    BY DEF IInv, Regions
  <1>2. CASE UNCHANGED vars
    BY <1>1, <1>2, DropRefines DEF vars
  <1>3. CASE Submit
    <2>1. client.state = "idle" /\ client'.state = "waiting" /\ UNCHANGED <<pg, cause>>
      BY <1>1, <1>3 DEF Submit, TypeOK, ClientState
    <2>2. RegionState(Coordinator) = "working" /\ RegionState(Coordinator)' = "prepared"
      BY <1>1, <2>1, RegionStates, RegionAfter
    <2>3. AC!Become(Coordinator, "prepared")
      BY <1>1, <2>1, <2>2, OtherRegions, OneRegionMoves
    <2>4. AC!Prepare(Coordinator)
      BY <1>1, <2>1, <2>2, <2>3 DEF AC!Prepare, Regions
    <2>5. QED
      BY <1>1, <2>4 DEF AC!Next, Regions
  <1>4. ASSUME NEW n \in Node, FinishLocal(n)
        PROVE  [AC!Next]_(AC!acVars)
    <2>1. /\ n = Coordinator /\ task[n] = "finish" /\ client.state = "waiting"
          /\ xact[n].status \in {"Committing", "Rollbacking"} /\ UNCHANGED <<pg, cause>>
      BY <1>4 DEF FinishLocal, Decided, IInv, TaskMatchesVotes, ClientMatchesTask, Running
    <2>2. RegionState(n) = "prepared" /\ client.state # "idle"
      BY <1>1, <2>1, RegionStates
    <2>3. CASE xact[n].status = "Committing"
      <3>1. AllYes
        BY <2>1, <2>3, DecisionHolds
      <3>2. RegionState(n)' = "committed"
        BY <1>4, <2>1, <2>3, RegionAfter DEF FinishLocal
      <3>3. AC!Become(n, "committed")
        BY <1>1, <2>1, <3>2, OtherRegions, OneRegionMoves
      <3>4. AC!Commit(n)
        BY <2>1, <2>2, <3>1, <3>3, VotesDecide DEF AC!Commit, Regions
      <3>5. QED
        BY <1>1, <2>1, <3>4 DEF AC!Next, Regions
    <2>4. CASE xact[n].status = "Rollbacking"
      <3>1. SomeNo
        BY <2>1, <2>4, DecisionHolds
      <3>2. RegionState(n)' = "aborted"
        BY <1>4, <2>1, <2>4, RegionAfter DEF FinishLocal
      <3>3. AC!Become(n, "aborted")
        BY <1>1, <2>1, <3>2, OtherRegions, OneRegionMoves
      <3>4. AC!Abort(n)
        BY <2>1, <2>2, <3>1, <3>3, VotesDecide DEF AC!Abort, Regions
      <3>5. QED
        BY <1>1, <2>1, <3>4 DEF AC!Next, Regions
    <2>5. QED
      BY <2>1, <2>3, <2>4
  <1>5. ASSUME NEW n \in Node, Execute(n) \/ ExecuteAnswerLost(n)
        PROVE  [AC!Next]_(AC!acVars)
    <2>1. /\ n \in Surrogates /\ n \in Regions /\ pg[n] = "none" /\ cause[n] = None
          /\ UNCHANGED client
      BY <1>5, ExecuteEffect DEF Regions, Surrogates
    <2>2. RegionState(n) = "working"
      BY <1>1, <2>1, RegionStates
    <2>3. ASSUME NEW s \in {"prepared", "aborted"}, pg' = [pg EXCEPT ![n] = s]
          PROVE  AC!Become(n, s)
      BY <1>1, <2>1, <2>3, OtherRegions, OneRegionMoves
    <2>4. CASE pg' = [pg EXCEPT ![n] = "prepared"] /\ UNCHANGED cause
      <3>1. AC!Prepare(n)
        BY <2>1, <2>2, <2>3, <2>4 DEF AC!Prepare, Regions
      <3>2. QED
        BY <2>1, <3>1 DEF AC!Next, Regions
    <2>5. ASSUME NEW r \in Reason, cause' = [cause EXCEPT ![n] = r],
                 NEW s \in {"prepared", "aborted"}, pg' = [pg EXCEPT ![n] = s]
          PROVE  [AC!Next]_(AC!acVars)
      <3>1. {m \in Node : cause'[m] # None} = {m \in Node : cause[m] # None} \cup {n}
        BY <1>1, <2>1, <2>5 DEF TypeOK
      <3>2. AC!Become(n, s)
        BY <2>3, <2>5
      <3>3. AC!Refuse(n)
        BY <2>1, <2>2, <3>1, <3>2 DEF AC!Refuse, Regions
      <3>4. QED
        BY <2>1, <3>3 DEF AC!Next, Regions
    <2>6. QED
      BY <1>5, <2>4, <2>5, ExecuteEffect
  <1>6. ASSUME NEW n \in Node, FinishSurrogate(n) \/ FinishError(n)
        PROVE  [AC!Next]_(AC!acVars)
    <2>1. Decided(n, "surrogate") /\ UNCHANGED cause /\ n # Coordinator
      BY <1>6 DEF FinishSurrogate, FinishError, Decided, IInv, TaskMatchesVotes, Surrogates
    <2>2. UNCHANGED client
      BY <1>6, <2>1 DEF FinishSurrogate, FinishError, Abandon, DropCommitTx
    <2>3. \/ UNCHANGED pg
          \/ /\ xact[n].status = "Committing" => pg[n] = "prepared"
             /\ pg' = [pg EXCEPT ![n] = AfterFinish(n)]
      BY <1>6 DEF FinishSurrogate, FinishError
    <2>4. QED
      BY <1>1, <2>1, <2>2, <2>3, DropRefines, SurrogateRefines
  <1>7. CASE UNCHANGED <<pg, cause>> /\ (UNCHANGED client \/ DropCommitTx(Coordinator))
    BY <1>1, <1>7, DropRefines
  <1>8. QED
    BY <1>2, <1>3, <1>4, <1>5, <1>6, <1>7, StepEffects

\* The protocol, with any number of failures, implements atomic commitment among
\* the regions (manager.rs, xact/state.rs, pg/controller.rs).
THEOREM ImplementsAtomicCommitHolds == Spec => ImplementsAtomicCommit
  <1>1. Init => AC!Init
    <2> SUFFICES ASSUME Init
                 PROVE  AC!Init
      OBVIOUS
    <2>1. TypeOK /\ client.state = "idle" /\ \A n \in Node : pg[n] = "none" /\ cause[n] = None
      BY InitType DEF Init
    <2>2. \A n \in Regions : RegionState(n) = "working"
      BY <2>1, RegionStates DEF Regions, RegionState
    <2>3. QED
      BY <2>1, <2>2 DEF AC!Init, Regions
  <1>2. IInv /\ IInv' /\ ClientMatchesTask /\ OnlySurrogatesRefuse /\ [Next]_vars
          => [AC!Next]_(AC!acVars)
    BY NextRefines DEF IInv
  <1>3. QED
    BY <1>1, <1>2, ClientInvariantHolds, PTL DEF Spec, ImplementsAtomicCommit, AC!Spec

----------------------------------------------------------------------------
(* Where a vote is after a message has moved.                              *)

\* Taking the first message takes the one vote it may be.
LEMMA VoteInTail ==
  ASSUME NEW s \in Seq(Message), s # <<>>, NEW v
  PROVE  /\ VoteAt(Tail(s), v) => VoteAt(s, v)
         /\ AtMostOneVote(s, v) => AtMostOneVote(Tail(s), v)
         /\ AtMostOneVote(s, v) /\ IsVoteOf(Head(s), v) => ~VoteAt(Tail(s), v)
         /\ IsVoteOf(Head(s), v) => VoteAt(s, v)
  <1>1. \A i \in 1..Len(Tail(s)) : i + 1 \in 1..Len(s) /\ Tail(s)[i] = s[i + 1]
    BY TailItems
  <1>2. 1 \in 1..Len(s) /\ Head(s) = s[1] /\ Len(s) \in Nat
    OBVIOUS
  <1>3. ASSUME AtMostOneVote(s, v), NEW i \in 1..Len(Tail(s)), NEW j \in 1..Len(Tail(s)),
               IsVoteOf(Tail(s)[i], v), IsVoteOf(Tail(s)[j], v)
        PROVE  i = j
    <2>1. i + 1 = j + 1
      BY <1>1, <1>3 DEF AtMostOneVote
    <2>2. QED
      BY <2>1
  <1>4. ASSUME AtMostOneVote(s, v), IsVoteOf(Head(s), v), NEW i \in 1..Len(Tail(s)),
               IsVoteOf(Tail(s)[i], v)
        PROVE  FALSE
    <2>1. i + 1 = 1
      BY <1>1, <1>2, <1>4 DEF AtMostOneVote
    <2>2. QED
      BY <2>1
  <1>5. VoteAt(Tail(s), v) => VoteAt(s, v)
    BY <1>1 DEF VoteAt
  <1>6. QED
    BY <1>2, <1>3, <1>4, <1>5 DEF AtMostOneVote, VoteAt

\* Adding a message adds the vote it may be.
LEMMA VoteInAppend ==
  ASSUME NEW s \in Seq(Message), NEW m, NEW v
  PROVE  /\ VoteAt(Append(s, m), v) <=> VoteAt(s, v) \/ IsVoteOf(m, v)
         /\ AtMostOneVote(s, v) /\ (IsVoteOf(m, v) => ~VoteAt(s, v)) =>
              AtMostOneVote(Append(s, m), v)
  <1>1. /\ Len(Append(s, m)) = Len(s) + 1 /\ Len(s) \in Nat
        /\ \A i \in 1..Len(s) : Append(s, m)[i] = s[i]
        /\ Append(s, m)[Len(s) + 1] = m
    OBVIOUS
  <1>2. \A i \in 1..Len(Append(s, m)) : i \in 1..Len(s) \/ i = Len(s) + 1
    BY <1>1
  <1>3. 1..Len(s) \subseteq 1..Len(Append(s, m)) /\ Len(s) + 1 \in 1..Len(Append(s, m))
    BY <1>1
  <1>4. VoteAt(Append(s, m), v) <=> VoteAt(s, v) \/ IsVoteOf(m, v)
    BY <1>1, <1>2, <1>3 DEF VoteAt
  <1>5. ASSUME AtMostOneVote(s, v), IsVoteOf(m, v) => ~VoteAt(s, v)
        PROVE  AtMostOneVote(Append(s, m), v)
    BY <1>1, <1>2, <1>5 DEF AtMostOneVote, VoteAt
  <1>6. QED
    BY <1>4, <1>5

\* The same for the votes that a task keeps.
LEMMA KeptInTail ==
  ASSUME NEW s \in Seq(Vote), s # <<>>, NEW v
  PROVE  /\ VoteKept(Tail(s), v) => VoteKept(s, v)
         /\ AtMostOneKept(s, v) => AtMostOneKept(Tail(s), v)
         /\ AtMostOneKept(s, v) /\ Head(s).from = v => ~VoteKept(Tail(s), v)
         /\ Head(s).from = v => VoteKept(s, v)
  <1>1. \A i \in 1..Len(Tail(s)) : i + 1 \in 1..Len(s) /\ Tail(s)[i] = s[i + 1]
    BY TailItems
  <1>2. 1 \in 1..Len(s) /\ Head(s) = s[1] /\ Len(s) \in Nat
    OBVIOUS
  <1>3. ASSUME AtMostOneKept(s, v), NEW i \in 1..Len(Tail(s)), NEW j \in 1..Len(Tail(s)),
               Tail(s)[i].from = v, Tail(s)[j].from = v
        PROVE  i = j
    <2>1. i + 1 = j + 1
      BY <1>1, <1>3 DEF AtMostOneKept
    <2>2. QED
      BY <2>1
  <1>4. ASSUME AtMostOneKept(s, v), Head(s).from = v, NEW i \in 1..Len(Tail(s)),
               Tail(s)[i].from = v
        PROVE  FALSE
    <2>1. i + 1 = 1
      BY <1>1, <1>2, <1>4 DEF AtMostOneKept
    <2>2. QED
      BY <2>1
  <1>5. VoteKept(Tail(s), v) => VoteKept(s, v)
    BY <1>1 DEF VoteKept
  <1>6. QED
    BY <1>2, <1>3, <1>4, <1>5 DEF AtMostOneKept, VoteKept

\* And when a vote that came too early is kept.
LEMMA KeptInAppend ==
  ASSUME NEW s \in Seq(Vote), NEW m, NEW v
  PROVE  /\ VoteKept(Append(s, m), v) <=> VoteKept(s, v) \/ m.from = v
         /\ AtMostOneKept(s, v) /\ (m.from = v => ~VoteKept(s, v)) =>
              AtMostOneKept(Append(s, m), v)
  <1>1. /\ Len(Append(s, m)) = Len(s) + 1 /\ Len(s) \in Nat
        /\ \A i \in 1..Len(s) : Append(s, m)[i] = s[i]
        /\ Append(s, m)[Len(s) + 1] = m
    OBVIOUS
  <1>2. \A i \in 1..Len(Append(s, m)) : i \in 1..Len(s) \/ i = Len(s) + 1
    BY <1>1
  <1>3. 1..Len(s) \subseteq 1..Len(Append(s, m)) /\ Len(s) + 1 \in 1..Len(Append(s, m))
    BY <1>1
  <1>4. VoteKept(Append(s, m), v) <=> VoteKept(s, v) \/ m.from = v
    BY <1>1, <1>2, <1>3 DEF VoteKept
  <1>5. ASSUME AtMostOneKept(s, v), m.from = v => ~VoteKept(s, v)
        PROVE  AtMostOneKept(Append(s, m), v)
    BY <1>1, <1>2, <1>5 DEF AtMostOneKept, VoteKept
  <1>6. QED
    BY <1>4, <1>5

\* A vote for n that is not counted yet is a surrogate's, and was sent.
LEMMA PendingVote ==
  ASSUME IInv, NEW n \in Node, NEW v,
         \/ VoteInNet(n, v) \/ VoteAt(remoteRx[n], v) \/ VoteAt(chan[n], v)
         \/ VoteKept(xact[n].votes, v)
  PROVE  v \in Surrogates /\ v # Coordinator /\ ballot[v] # "unset"
  <1>1. \A r : TrueVote(v, r) => v \in Surrogates /\ v # Coordinator /\ ballot[v] # "unset"
    BY DEF TrueVote, Surrogates
  <1>2. \A m : TrueMessage(m, n) /\ IsVoteOf(m, v) => TrueVote(v, m.reason)
    BY DEF TrueMessage, IsVoteOf
  <1>3. CASE VoteInNet(n, v)
    BY <1>1, <1>2, <1>3 DEF IInv, TrueMessages, VoteInNet
  <1>4. CASE VoteAt(remoteRx[n], v)
    BY <1>1, <1>2, <1>4 DEF IInv, TrueMessages, VoteAt
  <1>5. CASE VoteAt(chan[n], v)
    BY <1>1, <1>2, <1>5 DEF IInv, TrueMessages, VoteAt
  <1>6. CASE VoteKept(xact[n].votes, v)
    BY <1>1, <1>6 DEF IInv, TrueMessages, VoteKept
  <1>7. QED
    BY <1>3, <1>4, <1>5, <1>6

\* No vote is in an empty sequence.
LEMMA NoVoteInEmpty ==
  ASSUME NEW v
  PROVE  ~VoteAt(<<>>, v) /\ AtMostOneVote(<<>>, v) /\ ~VoteKept(<<>>, v) /\ AtMostOneKept(<<>>, v)
  BY DEF VoteAt, AtMostOneVote, VoteKept, AtMostOneKept

\* A step that only takes messages and kept votes away, and counts at most the
\* vote of the node itself or the assumed one, keeps a vote in one place.
LEMMA VotesTaken ==
  ASSUME IInv, NEW n \in Node, NEW v \in Node, VoteArrivesOnce(n, v),
         net' \subseteq net, HistoryGrows,
         remoteRx'[n] \in {remoteRx[n], <<>>},
         chan'[n] \in {chan[n], <<>>} \/ (chan[n] # <<>> /\ chan'[n] = Tail(chan[n])),
         xact'[n].votes \in {xact[n].votes, <<>>},
         xact'[n].voted \subseteq xact[n].voted \cup {n, Coordinator}
  PROVE  VoteArrivesOnce(n, v)'
  <1>1. chan[n] \in Seq(Message)
    BY DEF IInv, TypeOK
  <1>2. VoteInNet(n, v)' => VoteInNet(n, v)
    BY DEF VoteInNet
  <1>3. VoteAt(remoteRx'[n], v) => VoteAt(remoteRx[n], v)
    BY NoVoteInEmpty
  <1>4. AtMostOneVote(remoteRx'[n], v)
    BY NoVoteInEmpty DEF VoteArrivesOnce
  <1>5. VoteAt(chan'[n], v) => VoteAt(chan[n], v)
    BY <1>1, NoVoteInEmpty, VoteInTail
  <1>6. AtMostOneVote(chan'[n], v)
    BY <1>1, NoVoteInEmpty, VoteInTail DEF VoteArrivesOnce
  <1>7. VoteKept(xact'[n].votes, v) => VoteKept(xact[n].votes, v)
    BY NoVoteInEmpty
  <1>8. AtMostOneKept(xact'[n].votes, v)
    BY NoVoteInEmpty DEF VoteArrivesOnce
  <1>9. v \in xact'[n].voted => v \in xact[n].voted \cup {n, Coordinator}
    OBVIOUS
  <1>10. \A m, o \in net' : m.to = n /\ o.to = n /\ IsVoteOf(m, v) /\ IsVoteOf(o, v) => m = o
    BY DEF VoteArrivesOnce
  <1>11. v \in xact'[n].voted => v \in {n, Coordinator} \/ ballot'[v] # "unset"
    BY <1>9 DEF VoteArrivesOnce, HistoryGrows
  <1>12. QED
    BY <1>2, <1>3, <1>4, <1>5, <1>6, <1>7, <1>8, <1>9, <1>10, <1>11, PendingVote
       DEF VoteArrivesOnce

\* A step that leaves node n and the net as they are keeps n's votes where they are.
LEMMA VotesKept ==
  ASSUME NEW n \in Node, NEW v \in Node, VoteArrivesOnce(n, v), HistoryGrows,
         VoteInNet(n, v)' => VoteInNet(n, v),
         \A m, o \in net' : m.to = n /\ o.to = n /\ IsVoteOf(m, v) /\ IsVoteOf(o, v) => m = o,
         remoteRx'[n] = remoteRx[n], chan'[n] = chan[n],
         xact'[n].votes = xact[n].votes, xact'[n].voted = xact[n].voted
  PROVE  VoteArrivesOnce(n, v)'
  BY DEF VoteArrivesOnce, HistoryGrows

----------------------------------------------------------------------------
(* Every step keeps each vote in one place.                                *)

\* The histories only grow.
LEMMA StepHistory ==
  ASSUME IInv, Next
  PROVE  HistoryGrows
  <1>1. ASSUME NEW n \in Node, ballot[n] # "unset"
        PROVE  ballot'[n] = ballot[n]
    BY <1>1, VoteOnceStep
  <1>2. ASSUME NEW n \in Node, cause[n] # None
        PROVE  cause'[n] = cause[n]
    <2>1. CASE UNCHANGED cause
      BY <2>1
    <2>2. ASSUME NEW k \in Node, Execute(k) \/ ExecuteAnswerLost(k)
          PROVE  cause'[n] = cause[n]
      BY <1>2, <2>2, ExecuteEffect DEF IInv, TypeOK
    <2>3. QED
      BY <2>1, <2>2, StepEffects DEF Submit, FinishLocal, FinishSurrogate, FinishError
  <1>3. QED
    BY <1>1, <1>2 DEF HistoryGrows

\* The Manager moves a message from its queue to the channel, or drops it.
LEMMA ManagerVotes ==
  ASSUME IInv, VotesArriveOnce, HistoryGrows, NEW k \in Node, ManagerRemote(k)
  PROVE  VotesArriveOnce'
  <1> SUFFICES ASSUME NEW n \in Node, NEW v \in Node
               PROVE  VoteArrivesOnce(n, v)'
    BY DEF VotesArriveOnce
  <1>0. VoteArrivesOnce(n, v)
    BY DEF VotesArriveOnce
  <1>1. /\ remoteRx \in [Node -> Seq(Message)] /\ chan \in [Node -> Seq(Message)]
        /\ remoteRx[k] \in Seq(Message) /\ chan[k] \in Seq(Message)
    BY DEF IInv, TypeOK
  <1>2. /\ remoteRx[k] # <<>> /\ Dispatch(k, Head(remoteRx[k]))
        /\ remoteRx' = [remoteRx EXCEPT ![k] = Tail(remoteRx[k])]
        /\ UNCHANGED <<xact, net>>
    BY DEF ManagerRemote
  <1>3. UNCHANGED chan \/ chan' = [chan EXCEPT ![k] = Append(chan[k], Head(remoteRx[k]))]
    BY <1>2 DEF Dispatch
  <1>4. CASE n # k
    <2>1. remoteRx'[n] = remoteRx[n] /\ chan'[n] = chan[n]
      BY <1>1, <1>2, <1>3, <1>4
    <2>2. QED
      BY <1>0, <1>2, <2>1, VotesKept DEF VoteInNet, VoteArrivesOnce
  <1>5. CASE n = k
    <2>0. VoteInNet(n, v)' <=> VoteInNet(n, v)
      BY <1>2 DEF VoteInNet
    <2>1. remoteRx'[n] = Tail(remoteRx[n])
      BY <1>1, <1>2, <1>5
    <2>2. /\ VoteAt(remoteRx'[n], v) => VoteAt(remoteRx[n], v) /\ ~IsVoteOf(Head(remoteRx[n]), v)
          /\ AtMostOneVote(remoteRx'[n], v)
          /\ IsVoteOf(Head(remoteRx[n]), v) => VoteAt(remoteRx[n], v)
      BY <1>0, <1>1, <1>2, <1>5, <2>1, VoteInTail DEF VoteArrivesOnce
    <2>3. CASE UNCHANGED chan
      BY <1>0, <1>2, <2>0, <2>2, <2>3 DEF VoteArrivesOnce, HistoryGrows
    <2>4. CASE chan' = [chan EXCEPT ![k] = Append(chan[k], Head(remoteRx[k]))]
      <3>1. chan'[n] = Append(chan[n], Head(remoteRx[n]))
        BY <1>1, <1>5, <2>4
      <3>2. /\ VoteAt(chan'[n], v) <=> VoteAt(chan[n], v) \/ IsVoteOf(Head(remoteRx[n]), v)
            /\ AtMostOneVote(chan'[n], v)
        BY <1>0, <1>1, <1>5, <2>2, <3>1, VoteInAppend DEF VoteArrivesOnce
      <3>3. QED
        BY <1>0, <1>2, <2>0, <2>2, <3>2 DEF VoteArrivesOnce, HistoryGrows
    <2>5. QED
      BY <1>3, <2>3, <2>4
  <1>6. QED
    BY <1>4, <1>5

\* The transaction of the client is no vote.
LEMMA ManagerLocalVotes ==
  ASSUME IInv, VotesArriveOnce, HistoryGrows, ManagerLocal
  PROVE  VotesArriveOnce'
  <1> SUFFICES ASSUME NEW n \in Node, NEW v \in Node
               PROVE  VoteArrivesOnce(n, v)'
    BY DEF VotesArriveOnce
  <1>0. VoteArrivesOnce(n, v) /\ UNCHANGED <<xact, net, remoteRx>>
    BY DEF VotesArriveOnce, ManagerLocal
  <1>1. chan \in [Node -> Seq(Message)] /\ chan[n] \in Seq(Message)
    BY DEF IInv, TypeOK
  <1>2. Dispatch(Coordinator, LocalXact)
    BY DEF ManagerLocal, IInv, SentOnce, TypeOK
  <1>3. chan'[n] = chan[n] \/ chan'[n] = Append(chan[n], LocalXact)
    BY <1>1, <1>2 DEF Dispatch
  <1>4. CASE chan'[n] = chan[n]
    BY <1>0, <1>4, VotesKept DEF VoteInNet, VoteArrivesOnce
  <1>5. CASE chan'[n] = Append(chan[n], LocalXact)
    <2>1. ~IsVoteOf(LocalXact, v)
      BY DEF IsVoteOf, LocalXact
    <2>2. (VoteAt(chan'[n], v) <=> VoteAt(chan[n], v)) /\ AtMostOneVote(chan'[n], v)
      BY <1>0, <1>1, <1>5, <2>1, VoteInAppend DEF VoteArrivesOnce
    <2>3. VoteInNet(n, v)' <=> VoteInNet(n, v)
      BY <1>0 DEF VoteInNet
    <2>4. QED
      BY <1>0, <2>2, <2>3 DEF VoteArrivesOnce, HistoryGrows
  <1>6. QED
    BY <1>3, <1>4, <1>5

\* A call reaches its server.
LEMMA DeliverVotes ==
  ASSUME IInv, VotesArriveOnce, HistoryGrows, NEW o \in net, Deliver(o)
  PROVE  VotesArriveOnce'
  <1> SUFFICES ASSUME NEW n \in Node, NEW v \in Node
               PROVE  VoteArrivesOnce(n, v)'
    BY DEF VotesArriveOnce
  <1>0. /\ VoteArrivesOnce(n, v)
        /\ net' = net \ {o} /\ UNCHANGED <<xact, chan>>
        /\ remoteRx' = [remoteRx EXCEPT ![o.to] = Append(remoteRx[o.to], o)]
    BY DEF VotesArriveOnce, Deliver
  <1>1. remoteRx \in [Node -> Seq(Message)] /\ remoteRx[n] \in Seq(Message)
    BY DEF IInv, TypeOK
  <1>2. VoteInNet(n, v)' => VoteInNet(n, v)
    BY <1>0 DEF VoteInNet
  <1>3. \A m, q \in net' : m.to = n /\ q.to = n /\ IsVoteOf(m, v) /\ IsVoteOf(q, v) => m = q
    BY <1>0 DEF VoteArrivesOnce
  <1>4. CASE o.to # n
    <2>1. remoteRx'[n] = remoteRx[n]
      BY <1>0, <1>1, <1>4
    <2>2. QED
      BY <1>0, <1>2, <1>3, <2>1, VotesKept
  <1>5. CASE o.to = n
    <2>1. remoteRx'[n] = Append(remoteRx[n], o)
      BY <1>0, <1>1, <1>5
    <2>2. IsVoteOf(o, v) => VoteInNet(n, v) /\ ~VoteInNet(n, v)'
      BY <1>0, <1>5 DEF VoteInNet, VoteArrivesOnce
    <2>3. /\ VoteAt(remoteRx'[n], v) <=> VoteAt(remoteRx[n], v) \/ IsVoteOf(o, v)
          /\ AtMostOneVote(remoteRx'[n], v)
      BY <1>0, <1>1, <2>1, <2>2, VoteInAppend DEF VoteArrivesOnce
    <2>4. QED
      BY <1>0, <1>2, <1>3, <2>2, <2>3 DEF VoteArrivesOnce, HistoryGrows
  <1>6. QED
    BY <1>4, <1>5

\* A Prepare is no vote, and a vote is sent when none was.
LEMMA SendVotes ==
  ASSUME IInv, VotesArriveOnce, HistoryGrows, NEW k \in Node,
         \/ SendVote(k)
         \/ SendPrepare(k) /\ xact[k].status = "Waiting"
  PROVE  VotesArriveOnce'
  <1> SUFFICES ASSUME NEW n \in Node, NEW v \in Node
               PROVE  VoteArrivesOnce(n, v)'
    BY DEF VotesArriveOnce
  <1>0. VoteArrivesOnce(n, v) /\ UNCHANGED <<xact, chan, remoteRx>>
    BY DEF VotesArriveOnce, SendVote, SendPrepare
  <1>1. CASE SendPrepare(k) /\ xact[k].status = "Waiting"
    <2>1. net' = net \cup {PrepareMessage(k, p) : p \in OthersThan(k)}
      BY <1>1 DEF SendPrepare
    <2>2. \A m \in net' : IsVoteOf(m, v) => m \in net
      BY <2>1 DEF IsVoteOf, PrepareMessage
    <2>3. QED
      BY <1>0, <2>2, VotesKept DEF VoteInNet, VoteArrivesOnce
  <1>2. CASE SendVote(k)
    <2> DEFINE r == RollbackReason(xact[k])
    <2>1. net' = net \cup {VoteMessage(k, p, r) : p \in OthersThan(k)}
      BY <1>2 DEF SendVote
    <2> HIDE DEF r
    <2>2. ballot[k] = "unset" /\ k # Coordinator
      BY <1>2 DEF SendVote, IInv, TaskMatchesLabel, TaskMatchesVotes, Surrogates
    <2>3. \A m \in net' : m \in net \/ (m = VoteMessage(k, m.to, r) /\ m.to # k)
      <3>1. \A p : VoteMessage(k, p, r).to = p
        BY DEF VoteMessage
      <3>2. \A m \in net' : m \in net \/ \E p \in OthersThan(k) : m = VoteMessage(k, p, r)
        BY <2>1
      <3>3. QED
        BY <3>1, <3>2 DEF OthersThan
    <2>4. CASE v # k \/ n = k
      <3>1. \A m \in net' : IsVoteOf(m, v) /\ m.to = n => m \in net
        BY <2>3, <2>4 DEF IsVoteOf, VoteMessage
      <3>2. QED
        BY <1>0, <3>1, VotesKept DEF VoteInNet, VoteArrivesOnce
    <2>5. CASE v = k /\ n # k
      <3>1. /\ ~VoteInNet(n, v) /\ ~VoteAt(remoteRx[n], v) /\ ~VoteAt(chan[n], v)
            /\ ~VoteKept(xact[n].votes, v)
        BY <2>2, <2>5, PendingVote
      <3>2. v \notin xact[n].voted
        BY <1>0, <2>2, <2>5 DEF VoteArrivesOnce
      <3>3. \A m \in net' : m.to = n /\ IsVoteOf(m, v) => m = VoteMessage(k, n, r)
        BY <2>3, <3>1 DEF VoteInNet
      <3>4. QED
        BY <1>0, <2>5, <3>1, <3>2, <3>3 DEF VoteArrivesOnce
    <2>6. QED
      BY <2>4, <2>5
  <1>3. QED
    BY <1>1, <1>2

\* A vote that is added is counted, if at all, in the name of its sender.
LEMMA AddVoteCounts ==
  ASSUME NEW x \in XactType, NEW w \in Vote
  PROVE  /\ AddVote(x, w).voted \subseteq x.voted \cup {w.from}
         /\ AddVote(x, w).votes = x.votes
  <1>1. CASE w.from \notin Participants \/ x.status # "Waiting"
    BY <1>1 DEF AddVote
  <1>2. CASE w.from \in Participants /\ x.status = "Waiting"
    BY <1>2 DEF AddVote, XactType
  <1>3. QED
    BY <1>1, <1>2

\* A task counts the first of the votes it has kept.
LEMMA AddExistingVotes ==
  ASSUME IInv, VotesArriveOnce, HistoryGrows, NEW k \in Node, AddExisting(k),
         MayAddVote(xact[k])
  PROVE  VotesArriveOnce'
  <1> SUFFICES ASSUME NEW n \in Node, NEW v \in Node
               PROVE  VoteArrivesOnce(n, v)'
    BY DEF VotesArriveOnce
  <1>0. /\ VoteArrivesOnce(n, v) /\ UNCHANGED <<net, chan, remoteRx>>
        /\ xact' = [xact EXCEPT ![k] = AddExistingVote(xact[k])]
        /\ xact[k].votes # <<>>
    BY DEF VotesArriveOnce, AddExisting
  <1>1. xact \in [Node -> XactType] /\ xact[k] \in XactType /\ xact[k].votes \in Seq(Vote)
    BY DEF IInv, TypeOK, XactType
  <1>2. VoteInNet(n, v)' <=> VoteInNet(n, v)
    BY <1>0 DEF VoteInNet
  <1>3. CASE n # k
    BY <1>0, <1>1, <1>2, <1>3, VotesKept DEF VoteArrivesOnce
  <1>4. CASE n = k
    <2> DEFINE w == Head(xact[k].votes)
    <2>1. w \in Vote
      BY <1>0, <1>1
    <2>2. AddVote(xact[k], w) \in XactType
      BY <1>1, <2>1, AddVoteType
    <2>3. /\ xact'[n].votes = Tail(xact[n].votes)
          /\ xact'[n].voted = AddVote(xact[k], w).voted
      BY <1>0, <1>1, <1>4, <2>2 DEF AddExistingVote, XactType
    <2>4. xact'[n].voted \subseteq xact[n].voted \cup {w.from}
      BY <1>1, <1>4, <2>1, <2>3, AddVoteCounts
    <2>5. /\ VoteKept(xact'[n].votes, v) => VoteKept(xact[n].votes, v) /\ w.from # v
          /\ AtMostOneKept(xact'[n].votes, v)
          /\ w.from = v => VoteKept(xact[n].votes, v)
      BY <1>0, <1>1, <1>4, <2>3, KeptInTail DEF VoteArrivesOnce
    <2> HIDE DEF w
    <2>6. v \in xact'[n].voted => v \in xact[n].voted \/ w.from = v
      BY <2>4
    <2>7. w.from = v => ballot'[v] # "unset"
      BY <2>5, PendingVote DEF HistoryGrows
    <2>8. QED
      BY <1>0, <1>2, <2>5, <2>6, <2>7 DEF VoteArrivesOnce, HistoryGrows
  <1>5. QED
    BY <1>3, <1>4

\* A task counts the vote it receives, or keeps it.
LEMMA HandleVoteVotes ==
  ASSUME IInv, VotesArriveOnce, HistoryGrows, NEW k \in Node, HandleVote(k),
         xact[k].kind = "unknown" \/ MayAddVote(xact[k])
  PROVE  VotesArriveOnce'
  <1> SUFFICES ASSUME NEW n \in Node, NEW v \in Node
               PROVE  VoteArrivesOnce(n, v)'
    BY DEF VotesArriveOnce
  <1> DEFINE m == Head(chan[k])
             w == VoteOf(m.from, m.reason)
             y == IF xact[k].kind = "unknown" THEN KeepVote(xact[k], w) ELSE AddVote(xact[k], w)
  <1>0. /\ VoteArrivesOnce(n, v) /\ UNCHANGED <<net, remoteRx>>
        /\ xact' = [xact EXCEPT ![k] = y]
        /\ chan[k] # <<>> /\ m.type = "Vote"
        /\ chan' = [chan EXCEPT ![k] = Tail(chan[k])]
    BY DEF VotesArriveOnce, HandleVote, Receives, Dequeue
  <1>1. /\ xact \in [Node -> XactType] /\ xact[k] \in XactType /\ xact[k].votes \in Seq(Vote)
        /\ chan \in [Node -> Seq(Message)] /\ chan[k] \in Seq(Message)
    BY DEF IInv, TypeOK, XactType
  <1>2. VoteInNet(n, v)' <=> VoteInNet(n, v)
    BY <1>0 DEF VoteInNet
  <1>3. w \in Vote /\ w.from = m.from
    <2>1. m \in Message
      BY <1>0, <1>1
    <2>2. QED
      BY <2>1 DEF VoteOf, Vote, Message
  <1>4. CASE n # k
    <2> HIDE DEF y
    <2>1. QED
      BY <1>0, <1>1, <1>2, <1>4, VotesKept DEF VoteArrivesOnce
  <1>5. CASE n = k
    <2>1. chan'[n] = Tail(chan[n]) /\ xact'[n] = y
      <3> HIDE DEF y
      <3>1. QED
        BY <1>0, <1>1, <1>5
    <2>2. /\ VoteAt(chan'[n], v) => VoteAt(chan[n], v) /\ m.from # v
          /\ AtMostOneVote(chan'[n], v)
          /\ m.from = v => VoteAt(chan[n], v)
      <3>1. IsVoteOf(m, v) <=> m.from = v
        BY <1>0 DEF IsVoteOf
      <3>2. QED
        BY <1>0, <1>1, <1>5, <2>1, <3>1, VoteInTail DEF VoteArrivesOnce
    <2>3. m.from = v => ballot'[v] # "unset"
      BY <2>2, PendingVote DEF HistoryGrows
    <2>4. CASE xact[k].kind = "unknown"
      <3>1. y.votes = Append(xact[n].votes, w) /\ y.voted = xact[n].voted
        BY <1>1, <1>5, <2>4 DEF KeepVote, XactType
      <3>2. /\ VoteKept(xact'[n].votes, v) <=> VoteKept(xact[n].votes, v) \/ m.from = v
            /\ AtMostOneKept(xact'[n].votes, v)
        <4>1. AtMostOneKept(xact[n].votes, v) /\ (m.from = v => ~VoteKept(xact[n].votes, v))
          BY <1>0, <2>2 DEF VoteArrivesOnce
        <4>2. xact'[n].votes = Append(xact[n].votes, w) /\ xact[n].votes \in Seq(Vote)
          BY <1>1, <1>5, <2>1, <3>1
        <4> HIDE DEF w, m
        <4>3. QED
          BY <1>3, <4>1, <4>2, KeptInAppend
      <3> HIDE DEF y, w, m
      <3>3. QED
        BY <1>0, <1>2, <2>1, <2>2, <2>3, <3>1, <3>2 DEF VoteArrivesOnce, HistoryGrows
    <2>5. CASE xact[k].kind # "unknown"
      <3>1. y.votes = xact[n].votes /\ y.voted \subseteq xact[n].voted \cup {m.from}
        BY <1>1, <1>3, <1>5, <2>5, AddVoteCounts
      <3> HIDE DEF y, w, m
      <3>2. v \in xact'[n].voted => v \in xact[n].voted \/ m.from = v
        BY <2>1, <3>1
      <3>3. QED
        BY <1>0, <1>2, <2>1, <2>2, <2>3, <3>1, <3>2 DEF VoteArrivesOnce, HistoryGrows
    <2>6. QED
      BY <2>4, <2>5
  <1>6. QED
    BY <1>4, <1>5

----------------------------------------------------------------------------
(* No step of a task is an error.                                          *)

\* A vote that a task handles can be added: were the transaction committing,
\* every participant's vote would have been counted.
LEMMA VoteCanBeAdded ==
  ASSUME IInv, VotesArriveOnce, NEW n \in Node, NEW v,
         VoteAt(chan[n], v) \/ VoteKept(xact[n].votes, v),
         task[n] \notin Stopped
  PROVE  MayAddVote(xact[n])
  <1>1. v \in Participants /\ v \in Node
    BY PendingVote DEF Surrogates
  <1>2. v \notin xact[n].voted
    BY <1>1 DEF VotesArriveOnce, VoteArrivesOnce
  <1>3. xact[n].status # "Committing"
    BY <1>1, <1>2 DEF IInv, TaskMatchesVotes
  <1>4. xact[n].status # "Committed"
    BY DEF IInv, TaskMatchesLabel
  <1>5. QED
    BY <1>3, <1>4 DEF MayAddVote

\* None of the assertions and error returns of a task's own code is reached,
\* when the coordinator is not the only participant.
LEMMA NoErrorPath ==
  ASSUME SInv, Participants # {Coordinator}, NEW n \in Node
  PROVE  /\ HandleLocalXact(n) => xact[n].kind = "unknown"
         /\ HandlePrepare(n) => n \in Participants /\ xact[n].kind = "unknown"
         /\ Execute(n) \/ ExecuteAnswerLost(n) => MayAddVote(xact[n])
         /\ AddExisting(n) => MayAddVote(xact[n])
         /\ SendPrepare(n) => xact[n].status = "Waiting"
         /\ HandleVote(n) => xact[n].kind = "unknown" \/ MayAddVote(xact[n])
         /\ FinishSurrogate(n) => ~(xact[n].status = "Committing" /\ pg[n] # "prepared")
  <1>0. IInv /\ VotesArriveOnce /\ LocalWaits /\ chan[n] \in Seq(Message) /\ xact[n] \in XactType
    BY DEF SInv, IInv, TypeOK
  <1>1. chan[n] # <<>> => Head(chan[n]) = chan[n][1] /\ 1 \in 1..Len(chan[n])
    BY <1>0
  <1>2. HandleLocalXact(n) => xact[n].kind = "unknown"
    <2> SUFFICES ASSUME HandleLocalXact(n)
                 PROVE  xact[n].kind = "unknown"
      OBVIOUS
    <2>1. chan[n][1].type = "LocalXact" /\ 1 \in 1..Len(chan[n])
      BY <1>1 DEF HandleLocalXact, Receives
    <2>2. n = Coordinator
      BY <1>0, <2>1 DEF IInv, TrueMessages, TrueMessage
    <2>3. QED
      BY <1>0, <2>1, <2>2 DEF IInv, SentOnce
  <1>3. HandlePrepare(n) => n \in Participants /\ xact[n].kind = "unknown"
    <2> SUFFICES ASSUME HandlePrepare(n)
                 PROVE  n \in Participants /\ xact[n].kind = "unknown"
      OBVIOUS
    <2>1. chan[n][1].type = "Prepare" /\ 1 \in 1..Len(chan[n])
      BY <1>1 DEF HandlePrepare, Receives
    <2>2. PrepareAt(chan[n])
      BY <2>1 DEF PrepareAt
    <2>3. n \in Surrogates
      BY <1>0, <2>1 DEF IInv, TrueMessages, TrueMessage
    <2>4. QED
      BY <1>0, <2>2, <2>3 DEF IInv, PrepareOnce, Surrogates
  <1>4. Execute(n) \/ ExecuteAnswerLost(n) => MayAddVote(xact[n])
    BY <1>0 DEF Execute, ExecuteAnswerLost, IInv, TaskMatchesLabel, MayAddVote
  <1>5. AddExisting(n) => MayAddVote(xact[n])
    <2> SUFFICES ASSUME AddExisting(n)
                 PROVE  MayAddVote(xact[n])
      OBVIOUS
    <2>1. xact[n].votes # <<>> /\ task[n] \notin Stopped /\ xact[n].votes \in Seq(Vote)
      BY <1>0 DEF AddExisting, Stopped, XactType
    <2>2. VoteKept(xact[n].votes, Head(xact[n].votes).from)
      BY <2>1, KeptInTail
    <2>3. QED
      BY <1>0, <2>1, <2>2, VoteCanBeAdded
  <1>6. SendPrepare(n) => xact[n].status = "Waiting"
    BY <1>0 DEF SendPrepare, LocalWaits
  <1>7. HandleVote(n) => xact[n].kind = "unknown" \/ MayAddVote(xact[n])
    <2> SUFFICES ASSUME HandleVote(n)
                 PROVE  MayAddVote(xact[n])
      OBVIOUS
    <2>1. chan[n] # <<>> /\ Head(chan[n]).type = "Vote" /\ task[n] \notin Stopped
      BY DEF HandleVote, Receives, Stopped
    <2>2. VoteAt(chan[n], Head(chan[n]).from)
      BY <1>0, <2>1, VoteInTail DEF IsVoteOf
    <2>3. QED
      BY <1>0, <2>1, <2>2, VoteCanBeAdded
  <1>8. FinishSurrogate(n) => ~(xact[n].status = "Committing" /\ pg[n] # "prepared")
    BY <1>0 DEF FinishSurrogate, Decided, IInv, TaskMatchesLabel
  <1>9. QED
    BY <1>2, <1>3, <1>4, <1>5, <1>6, <1>7, <1>8

\* A task that ends, or a node that crashes, only loses votes.
LEMMA LostVotes ==
  ASSUME IInv, VotesArriveOnce, HistoryGrows, NEW k \in Node, net' \subseteq net,
         remoteRx' = remoteRx \/ remoteRx' = [remoteRx EXCEPT ![k] = <<>>],
         \/ chan' = chan \/ chan' = [chan EXCEPT ![k] = <<>>]
         \/ chan[k] # <<>> /\ chan' = [chan EXCEPT ![k] = Tail(chan[k])],
         NEW y, xact' = [xact EXCEPT ![k] = y],
         y.votes \in {xact[k].votes, <<>>},
         y.voted \subseteq xact[k].voted \cup {k, Coordinator}
  PROVE  VotesArriveOnce'
  <1> SUFFICES ASSUME NEW n \in Node, NEW v \in Node
               PROVE  VoteArrivesOnce(n, v)'
    BY DEF VotesArriveOnce
  <1>1. VoteArrivesOnce(n, v)
    BY DEF VotesArriveOnce
  <1>2. remoteRx \in [Node -> Seq(Message)] /\ chan \in [Node -> Seq(Message)]
        /\ xact \in [Node -> XactType]
    BY DEF IInv, TypeOK
  <1>3. remoteRx'[n] \in {remoteRx[n], <<>>}
    BY <1>2
  <1>4. chan'[n] \in {chan[n], <<>>} \/ (chan[n] # <<>> /\ chan'[n] = Tail(chan[n]))
    BY <1>2
  <1>5. /\ xact'[n].votes \in {xact[n].votes, <<>>}
        /\ xact'[n].voted \subseteq xact[n].voted \cup {n, Coordinator}
    BY <1>2
  <1>6. QED
    BY <1>1, <1>3, <1>4, <1>5, VotesTaken

\* The vote that a node casts for itself is not on its way to it.
LEMMA OwnVoteVotes ==
  ASSUME IInv, VotesArriveOnce, HistoryGrows, NEW n \in Node, NEW r \in Reason \cup {None},
         CastOwnVote(n, r), UNCHANGED <<net, remoteRx>>
  PROVE  VotesArriveOnce'
  <1>1. xact \in [Node -> XactType] /\ xact[n] \in XactType /\ xact = [xact EXCEPT ![n] = xact[n]]
    BY DEF IInv, TypeOK
  <1>2. CASE MayAddVote(xact[n])
    <2>1. VoteOf(n, r) \in Vote /\ VoteOf(n, r).from = n
      BY DEF VoteOf, Vote
    <2>2. /\ AddVote(xact[n], VoteOf(n, r)).votes = xact[n].votes
          /\ AddVote(xact[n], VoteOf(n, r)).voted \subseteq xact[n].voted \cup {n}
      BY <1>1, <2>1, AddVoteCounts
    <2>3. UNCHANGED chan /\ xact' = [xact EXCEPT ![n] = AddVote(xact[n], VoteOf(n, r))]
      BY <1>2 DEF CastOwnVote
    <2>4. QED
      BY <2>2, <2>3, LostVotes
  <1>3. CASE ~MayAddVote(xact[n])
    BY <1>1, <1>3, LostVotes DEF CastOwnVote, Abandon, Stop
  <1>4. QED
    BY <1>2, <1>3

\* Every step keeps each vote in one place.
LEMMA VotesStep ==
  ASSUME SInv, Next
  PROVE  VotesArriveOnce'
  <1>0. IInv /\ VotesArriveOnce /\ HistoryGrows
    BY StepHistory DEF SInv
  <1>1. xact \in [Node -> XactType]
    BY <1>0 DEF IInv, TypeOK
  <1>2. ASSUME UNCHANGED <<net, remoteRx, chan, xact>>
        PROVE  VotesArriveOnce'
    <2> SUFFICES ASSUME NEW n \in Node, NEW v \in Node
                 PROVE  VoteArrivesOnce(n, v)'
      BY DEF VotesArriveOnce
    <2>1. QED
      BY <1>0, <1>2, VotesKept DEF VotesArriveOnce, VoteArrivesOnce, VoteInNet
  <1>3. CASE Submit
    BY <1>2, <1>3 DEF Submit
  <1>4. CASE ManagerLocal
    BY <1>0, <1>4, ManagerLocalVotes
  <1>5. CASE \E m \in net : Deliver(m)
    BY <1>0, <1>5, DeliverVotes
  <1>6. CASE \E n \in Node : ManagerRemote(n)
    BY <1>0, <1>6, ManagerVotes
  <1>7. ASSUME NEW n \in Node, TaskStep(n)
        PROVE  VotesArriveOnce'
    <2>0. xact[n] \in XactType /\ xact = [xact EXCEPT ![n] = xact[n]]
      BY <1>1
    <2>1. ASSUME NEW how, Abandon(n, how), UNCHANGED <<net, remoteRx, xact>>
          PROVE  VotesArriveOnce'
      BY <1>0, <2>0, <2>1, LostVotes DEF Abandon, Stop
    <2>2. CASE HandleLocalXact(n)
      <3>1. CASE xact[n].kind = "unknown"
        <4>1. /\ xact' = [xact EXCEPT ![n] = InitAsLocal(xact[n])] /\ UNCHANGED <<net, remoteRx>>
              /\ chan[n] # <<>> /\ chan' = [chan EXCEPT ![n] = Tail(chan[n])]
          BY <2>2, <3>1 DEF HandleLocalXact, Dequeue, Receives
        <4>2. xact[n].voted = {} /\ xact[n].info = NoInfo
          BY <1>0, <3>1 DEF IInv, TaskMatchesVotes
        <4>3. /\ InitAsLocal(xact[n]).votes = xact[n].votes
              /\ InitAsLocal(xact[n]).voted \subseteq {Coordinator}
          BY <2>0, <4>2, InitAsEffect DEF InitAsLocal
        <4>4. QED
          BY <1>0, <4>1, <4>3, LostVotes
      <3>2. CASE xact[n].kind # "unknown"
        BY <2>1, <2>2, <3>2 DEF HandleLocalXact
      <3>3. QED
        BY <3>1, <3>2
    <2>3. CASE HandlePrepare(n)
      <3>1. CASE n \in Participants /\ xact[n].kind = "unknown"
        <4>1. /\ xact' = [xact EXCEPT ![n] = InitAsSurrogate(xact[n])] /\ UNCHANGED <<net, remoteRx>>
              /\ chan[n] # <<>> /\ chan' = [chan EXCEPT ![n] = Tail(chan[n])]
          BY <2>3, <3>1 DEF HandlePrepare, Dequeue, Receives
        <4>2. xact[n].voted = {} /\ xact[n].info = NoInfo
          BY <1>0, <3>1 DEF IInv, TaskMatchesVotes
        <4>3. /\ InitAsSurrogate(xact[n]).votes = xact[n].votes
              /\ InitAsSurrogate(xact[n]).voted \subseteq {Coordinator}
          BY <2>0, <4>2, InitAsEffect DEF InitAsSurrogate
        <4>4. QED
          BY <1>0, <4>1, <4>3, LostVotes
      <3>2. CASE ~(n \in Participants /\ xact[n].kind = "unknown")
        BY <2>1, <2>3, <3>2 DEF HandlePrepare
      <3>3. QED
        BY <3>1, <3>2
    <2>4. CASE Execute(n)
      BY <1>0, <2>4, OwnVoteVotes DEF Execute
    <2>5. CASE AddExisting(n)
      BY <1>0, <2>1, <2>5, AddExistingVotes DEF AddExisting
    <2>6. CASE SendPrepare(n)
      BY <1>0, <2>1, <2>6, SendVotes DEF SendPrepare
    <2>7. CASE HandleVote(n)
      BY <1>0, <2>1, <2>7, HandleVoteVotes DEF HandleVote
    <2>8. CASE Sent(n) \/ KeepWaiting(n)
      BY <1>2, <2>8 DEF Sent, KeepWaiting
    <2>9. ASSUME xact' = [xact EXCEPT ![n] = Finished(xact[n])], UNCHANGED <<net, remoteRx>>,
                  Stop(n, "done")
           PROVE  VotesArriveOnce'
      <3>1. /\ Finished(xact[n]).votes = xact[n].votes
            /\ Finished(xact[n]).voted = xact[n].voted
        BY <2>0 DEF Finished, XactType
      <3>2. QED
        BY <1>0, <2>9, <3>1, LostVotes DEF Stop
    <2>10. CASE FinishLocal(n)
      BY <2>9, <2>10 DEF FinishLocal
    <2>11. CASE FinishSurrogate(n)
      BY <2>1, <2>9, <2>11 DEF FinishSurrogate
    <2>12. QED
      BY <1>0, <1>7, <2>2, <2>3, <2>4, <2>5, <2>6, <2>7, <2>8, <2>10, <2>11, SendVotes DEF TaskStep
  <1>8. ASSUME NEW n \in Node, FaultStep(n)
        PROVE  VotesArriveOnce'
    <2>0. xact[n] \in XactType /\ xact = [xact EXCEPT ![n] = xact[n]]
      BY <1>1
    <2>1. ASSUME NEW how, Abandon(n, how), UNCHANGED <<remoteRx, xact>>, net' \subseteq net
          PROVE  VotesArriveOnce'
      BY <1>0, <2>0, <2>1, LostVotes DEF Abandon, Stop
    <2>2. CASE DecodeError(n) \/ RpcError(n) \/ FinishError(n)
      BY <2>1, <2>2 DEF DecodeError, RpcError, FinishError
    <2>3. CASE ExecuteAnswerLost(n)
      BY <1>0, <2>3, OwnVoteVotes DEF ExecuteAnswerLost
    <2>4. CASE CrashRestart(n)
      <3>1. /\ xact' = [xact EXCEPT ![n] = Unknown] /\ chan' = [chan EXCEPT ![n] = <<>>]
            /\ remoteRx' = [remoteRx EXCEPT ![n] = <<>>] /\ net' \subseteq net
        BY <2>4 DEF CrashRestart
      <3>2. Unknown.votes = <<>> /\ Unknown.voted = {}
        BY DEF Unknown
      <3>3. QED
        BY <1>0, <3>1, <3>2, LostVotes
    <2>5. QED
      BY <1>8, <2>2, <2>3, <2>4 DEF FaultStep
  <1>9. QED
    BY <1>3, <1>4, <1>5, <1>6, <1>7, <1>8 DEF Next

\* A step of one node leaves the tasks of the others alone.
LEMMA OtherNodes ==
  ASSUME TypeOK, NEW n \in Node, NEW k \in Node, k # n,
         TaskStep(n) \/ FaultStep(n) \/ ManagerRemote(n)
  PROVE  task'[k] = task[k] /\ xact'[k] = xact[k]
  <1>0. task \in [Node -> TaskState] /\ xact \in [Node -> XactType]
    BY DEF TypeOK
  <1>1. ASSUME NEW how, Abandon(n, how)
        PROVE  task'[k] = task[k]
    BY <1>0, <1>1 DEF Abandon, Stop, Goto
  <1>2. ASSUME NEW r, CastOwnVote(n, r)
        PROVE  task'[k] = task[k] /\ xact'[k] = xact[k]
    BY <1>0, <1>1, <1>2 DEF CastOwnVote, Goto
  <1>3. CASE Execute(n) \/ ExecuteAnswerLost(n)
    BY <1>2, <1>3 DEF Execute, ExecuteAnswerLost
  <1>4. CASE ManagerRemote(n)
    BY <1>0, <1>4 DEF ManagerRemote, Dispatch
  <1>5. CASE HandleLocalXact(n)
    BY <1>0, <1>1, <1>5 DEF HandleLocalXact, Goto
  <1>6. CASE HandlePrepare(n)
    BY <1>0, <1>1, <1>6 DEF HandlePrepare, Goto
  <1>7. CASE AddExisting(n)
    BY <1>0, <1>1, <1>7 DEF AddExisting
  <1>8. CASE SendPrepare(n) \/ SendVote(n) \/ Sent(n) \/ KeepWaiting(n)
    BY <1>0, <1>1, <1>8 DEF SendPrepare, SendVote, Sent, KeepWaiting, Goto
  <1>9. CASE HandleVote(n)
    BY <1>0, <1>1, <1>9 DEF HandleVote, Goto
  <1>10. CASE FinishLocal(n) \/ FinishSurrogate(n)
    BY <1>0, <1>1, <1>10 DEF FinishLocal, FinishSurrogate, Stop, Goto
  <1>11. CASE DecodeError(n) \/ RpcError(n) \/ FinishError(n) \/ CrashRestart(n)
    BY <1>0, <1>1, <1>11 DEF DecodeError, RpcError, FinishError, CrashRestart
  <1>12. QED
    BY <1>3, <1>4, <1>5, <1>6, <1>7, <1>8, <1>9, <1>10, <1>11 DEF TaskStep, FaultStep

\* The coordinator's task that is about to send waits for votes.
LEMMA LocalWaitsStep ==
  ASSUME SInv, Next
  PROVE  LocalWaits'
  <1> SUFFICES ASSUME Participants # {Coordinator}, NEW k \in Node,
                      xact'[k].kind = "local", task'[k] = "existing"
               PROVE  xact'[k].status = "Waiting"
    BY DEF LocalWaits
  <1>0. /\ IInv /\ task \in [Node -> TaskState] /\ xact \in [Node -> XactType]
        /\ chan \in [Node -> Seq(Message)] /\ xact[k] \in XactType
    BY DEF SInv, IInv, TypeOK
  <1>1. CASE task'[k] = task[k] /\ xact'[k] = xact[k]
    BY <1>1 DEF SInv, LocalWaits
  <1>2. ASSUME Submit \/ ManagerLocal \/ (\E m \in net : Deliver(m))
        PROVE  task'[k] = task[k] /\ xact'[k] = xact[k]
    BY <1>0, <1>2 DEF Submit, ManagerLocal, Deliver, Dispatch
  <1>3. ASSUME ManagerRemote(k)
        PROVE  task'[k] = task[k] /\ xact'[k] = xact[k]
    BY <1>0, <1>3 DEF ManagerRemote, Dispatch
  <1>4. ASSUME NEW how \in {"done", "failed", "panicked"}, Abandon(k, how)
        PROVE  FALSE
    BY <1>0, <1>4 DEF Abandon, Stop, Goto
  <1>5. ASSUME TaskStep(k)
        PROVE  xact'[k].status = "Waiting"
    <2>1. CASE HandleLocalXact(k)
      <3>1. xact[k].kind = "unknown"
        BY <2>1, NoErrorPath
      <3>2. xact'[k] = InitAsLocal(xact[k])
        BY <1>0, <2>1, <3>1 DEF HandleLocalXact
      <3>3. xact[k].voted = {}
        BY <1>0, <3>1 DEF IInv, TaskMatchesVotes
      <3>4. InitAsLocal(xact[k]).status = "Waiting"
        BY <1>0, <3>3 DEF InitAsLocal, AddVote, Initialized, YesVote, VoteOf, XactType
      <3>5. QED
        BY <3>2, <3>4
    <2>2. CASE AddExisting(k)
      <3>1. MayAddVote(xact[k]) /\ task[k] = "existing" /\ xact[k].votes # <<>>
        BY <2>2, NoErrorPath DEF AddExisting
      <3>2. xact'[k] = AddExistingVote(xact[k]) /\ Head(xact[k].votes) \in Vote
        BY <1>0, <2>2, <3>1 DEF AddExisting, XactType
      <3>3. /\ AddVote(xact[k], Head(xact[k].votes)) \in XactType
            /\ AddVote(xact[k], Head(xact[k].votes)).kind = xact[k].kind
        BY <1>0, <3>2, AddVoteType, AddVoteEffect
      <3>4. xact[k].kind = "local"
        BY <3>2, <3>3 DEF AddExistingVote, XactType
      <3>5. k = Coordinator
        BY <1>0, <3>4 DEF IInv, TaskMatchesVotes
      <3>6. xact[k].votes = <<>>
        BY <1>0, <3>1, <3>4, <3>5 DEF IInv, SentOnce, NothingSent
      <3>7. QED
        BY <3>1, <3>6
    <2>3. CASE Execute(k)
      <3>1. PICK r \in Reason \cup {None} : CastOwnVote(k, r)
        BY <2>3 DEF Execute
      <3>2. xact[k].kind = "surrogate" /\ VoteOf(k, r) \in Vote
        BY <1>0, <2>3 DEF Execute, IInv, TaskMatchesLabel, VoteOf, Vote
      <3>3. xact'[k] = AddVote(xact[k], VoteOf(k, r)) \/ xact'[k] = xact[k]
        BY <1>0, <3>1 DEF CastOwnVote
      <3>4. QED
        <4>1. AddVote(xact[k], VoteOf(k, r)).kind = xact[k].kind
          BY <1>0, <3>2, AddVoteEffect
        <4>2. QED
          BY <3>2, <3>3, <4>1
    <2>4. ASSUME HandlePrepare(k) \/ SendPrepare(k) \/ SendVote(k) \/ Sent(k) \/ HandleVote(k)
                 \/ KeepWaiting(k) \/ FinishLocal(k) \/ FinishSurrogate(k)
          PROVE  FALSE
      <3>1. ASSUME NEW l \in {"execute", "send", "recv", "finish", "done"}, Goto(k, l)
            PROVE  FALSE
        BY <1>0, <3>1 DEF Goto
      <3>2. QED
        BY <1>4, <2>4, <3>1 DEF HandlePrepare, SendPrepare, SendVote, Sent, HandleVote, KeepWaiting,
           FinishLocal, FinishSurrogate, Stop
    <2>5. QED
      BY <1>5, <2>1, <2>2, <2>3, <2>4 DEF TaskStep
  <1>6. ASSUME FaultStep(k)
        PROVE  xact'[k].status = "Waiting"
    <2>1. CASE ExecuteAnswerLost(k)
      <3>1. PICK r \in Reason : CastOwnVote(k, r)
        BY <2>1 DEF ExecuteAnswerLost
      <3>2. xact[k].kind = "surrogate" /\ VoteOf(k, r) \in Vote
        BY <1>0, <2>1 DEF ExecuteAnswerLost, IInv, TaskMatchesLabel, VoteOf, Vote
      <3>3. xact'[k] = AddVote(xact[k], VoteOf(k, r)) \/ xact'[k] = xact[k]
        BY <1>0, <3>1 DEF CastOwnVote
      <3>4. QED
        <4>1. AddVote(xact[k], VoteOf(k, r)).kind = xact[k].kind
          BY <1>0, <3>2, AddVoteEffect
        <4>2. QED
          BY <3>2, <3>3, <4>1
    <2>2. CASE DecodeError(k) \/ RpcError(k) \/ FinishError(k)
      BY <1>4, <2>2 DEF DecodeError, RpcError, FinishError
    <2>3. CASE CrashRestart(k)
      BY <1>0, <2>3 DEF CrashRestart
    <2>4. QED
      BY <1>6, <2>1, <2>2, <2>3 DEF FaultStep
  <1>7. QED
    BY <1>0, <1>1, <1>2, <1>3, <1>5, <1>6, OtherNodes DEF Next, IInv

----------------------------------------------------------------------------
(* The strengthened invariant, and the errors.                             *)

\* The whole invariant is inductive.
LEMMA SInvStep == SInv /\ [Next]_vars => SInv'
  <1> SUFFICES ASSUME SInv, [Next]_vars
               PROVE  SInv'
    OBVIOUS
  <1>1. IInv' /\ ClientMatchesTask' /\ OnlySurrogatesRefuse'
    BY NextInv, ClientStep DEF SInv
  <1>2. CASE Next
    BY <1>1, <1>2, VotesStep, LocalWaitsStep DEF SInv
  <1>3. CASE UNCHANGED vars
    <2>1. VotesArriveOnce'
      BY <1>3 DEF vars, SInv, VotesArriveOnce, VoteArrivesOnce, VoteInNet
    <2>2. LocalWaits'
      BY <1>3 DEF vars, SInv, LocalWaits
    <2>3. QED
      BY <1>1, <2>1, <2>2 DEF SInv
  <1>4. QED
    BY <1>2, <1>3

\* No vote is lost sight of: in every state of the protocol, failures included,
\* a vote is in one place and counted at most once (manager.rs, xact/state.rs).
THEOREM StrongInvariantHolds == Spec => []SInv
  <1>1. Init => SInv
    <2> SUFFICES ASSUME Init
                 PROVE  SInv
      OBVIOUS
    <2>1. ClientMatchesTask /\ OnlySurrogatesRefuse
      BY DEF Init, ClientMatchesTask, ClientIsServed, OnlySurrogatesRefuse, Unknown, LocalXactAt,
         Running
    <2>2. VotesArriveOnce
      <3>1. Unknown.votes = <<>> /\ Unknown.voted = {}
        BY DEF Unknown
      <3>2. QED
        BY <3>1, NoVoteInEmpty DEF Init, VotesArriveOnce, VoteArrivesOnce, VoteInNet
    <2>3. LocalWaits
      BY DEF Init, LocalWaits
    <2>4. QED
      BY <2>1, <2>2, <2>3, InitInv DEF SInv
  <1>2. QED
    BY <1>1, SInvStep, PTL DEF Spec

Erring == {n \in Node : task[n] \in {"failed", "panicked"}}

\* Only a failure makes a task end in an error.
LEMMA ErringStep ==
  ASSUME SInv, Participants # {Coordinator}, Next
  PROVE  \/ Erring' \subseteq Erring /\ faults' = faults
         \/ /\ \E n \in Node : Erring' \subseteq Erring \cup {n}
            /\ faults' = faults + 1
  <1>0. /\ IInv /\ TypeOK /\ task \in [Node -> TaskState]
    BY DEF SInv, IInv, TypeOK
  <1>1. CASE Submit \/ (\E m \in net : Deliver(m))
    BY <1>1 DEF Submit, Deliver, Erring
  <1>2. ASSUME NEW n \in Node, NEW m, Dispatch(n, m)
        PROVE  Erring' \subseteq Erring
    BY <1>0, <1>2 DEF Dispatch, Erring
  <1>3. CASE ManagerLocal
    BY <1>2, <1>3 DEF ManagerLocal
  <1>4. ASSUME NEW n \in Node, ManagerRemote(n)
        PROVE  Erring' \subseteq Erring /\ faults' = faults
    BY <1>2, <1>4 DEF ManagerRemote
  <1>5. ASSUME NEW n \in Node, TaskStep(n)
        PROVE  Erring' \subseteq Erring /\ faults' = faults
    <2>1. ASSUME NEW l, l \notin {"failed", "panicked"}, Goto(n, l)
          PROVE  Erring' \subseteq Erring
      BY <1>0, <2>1 DEF Goto, Erring
    <2>2. CASE HandleLocalXact(n)
      BY <2>1, <2>2, NoErrorPath DEF HandleLocalXact
    <2>3. CASE HandlePrepare(n)
      BY <2>1, <2>3, NoErrorPath DEF HandlePrepare
    <2>4. CASE Execute(n)
      BY <2>1, <2>4, NoErrorPath DEF Execute, CastOwnVote
    <2>5. CASE AddExisting(n)
      BY <2>5, NoErrorPath DEF AddExisting, Erring
    <2>6. CASE SendPrepare(n)
      BY <2>1, <2>6, NoErrorPath DEF SendPrepare
    <2>7. CASE SendVote(n) \/ Sent(n) \/ KeepWaiting(n)
      BY <2>1, <2>7 DEF SendVote, Sent, KeepWaiting
    <2>8. CASE HandleVote(n)
      BY <2>1, <2>8, NoErrorPath DEF HandleVote
    <2>9. CASE FinishLocal(n) \/ FinishSurrogate(n)
      BY <2>1, <2>9, NoErrorPath DEF FinishLocal, FinishSurrogate, Stop
    <2>10. QED
      BY <1>5, <2>2, <2>3, <2>4, <2>5, <2>6, <2>7, <2>8, <2>9 DEF TaskStep
  <1>6. ASSUME NEW n \in Node, FaultStep(n)
        PROVE  Erring' \subseteq Erring \cup {n} /\ faults' = faults + 1
    <2>1. \A k \in Node : k # n => task'[k] = task[k]
      BY <1>0, <1>6, OtherNodes
    <2>2. Erring' \subseteq Erring \cup {n}
      BY <2>1 DEF Erring
    <2>3. faults' = faults + 1
      BY <1>6 DEF FaultStep, DecodeError, ExecuteAnswerLost, RpcError, FinishError, CrashRestart,
         Fault
    <2>4. QED
      BY <2>2, <2>3
  <1>7. QED
    BY <1>1, <1>3, <1>4, <1>5, <1>6 DEF Next

\* A task ends in an error or a panic only through a failure outside it, in
\* whatever order its messages arrive (add_vote, initialize, handle_local_xact_msg
\* and the controllers), when the coordinator is not the only participant.
THEOREM ErrorsAreFaultsHolds ==
  ASSUME Participants # {Coordinator}
  PROVE  Spec => []ErrorsAreFaults
  <1> DEFINE Few == IsFiniteSet(Erring) /\ Cardinality(Erring) <= faults /\ faults \in Nat
  <1>1. Init => Few
    <2> SUFFICES ASSUME Init
                 PROVE  Few
      OBVIOUS
    <2>1. Erring = {} /\ faults = 0
      BY DEF Init, Erring
    <2>2. QED
      BY <2>1, FS_EmptySet
  <1>2. SInv /\ Few /\ [Next]_vars => Few'
    <2> SUFFICES ASSUME SInv, Few, [Next]_vars
                 PROVE  Few'
      OBVIOUS
    <2>1. CASE UNCHANGED vars
      BY <2>1 DEF vars, Erring
    <2>2. CASE Erring' \subseteq Erring /\ faults' = faults
      <3>1. IsFiniteSet(Erring') /\ Cardinality(Erring') <= Cardinality(Erring)
        BY <2>2, FS_Subset
      <3>2. Cardinality(Erring') \in Nat /\ Cardinality(Erring) \in Nat
        BY <3>1, FS_CardinalityType
      <3>3. QED
        BY <2>2, <3>1, <3>2
    <2>3. ASSUME NEW n \in Node, Erring' \subseteq Erring \cup {n}, faults' = faults + 1
          PROVE  Few'
      <3>1. IsFiniteSet(Erring \cup {n}) /\ Cardinality(Erring \cup {n}) <= Cardinality(Erring) + 1
        <4>1. Cardinality(Erring) \in Nat
          BY FS_CardinalityType
        <4>2. /\ IsFiniteSet(Erring \cup {n})
              /\ \/ Cardinality(Erring \cup {n}) = Cardinality(Erring)
                 \/ Cardinality(Erring \cup {n}) = Cardinality(Erring) + 1
          BY FS_AddElement
        <4>3. QED
          BY <4>1, <4>2
      <3>2. IsFiniteSet(Erring') /\ Cardinality(Erring') <= Cardinality(Erring \cup {n})
        BY <2>3, <3>1, FS_Subset
      <3>3. /\ Cardinality(Erring') \in Nat /\ Cardinality(Erring) \in Nat
            /\ Cardinality(Erring \cup {n}) \in Nat
        BY <3>1, <3>2, FS_CardinalityType
      <3>4. QED
        BY <2>3, <3>1, <3>2, <3>3
    <2>4. QED
      BY <2>1, <2>2, <2>3, ErringStep
  <1>3. Few => ErrorsAreFaults
    BY DEF ErrorsAreFaults, Erring
  <1>4. QED
    BY <1>1, <1>2, <1>3, StrongInvariantHolds, PTL DEF Spec

----------------------------------------------------------------------------
(* One XactState given any votes (XactVotes), for any participants and any *)
(* number of votes.  As long as the state waits, voted is exactly the set  *)
(* of participants with a 'yes' among the votes counted, and no vote was   *)
(* decisive; from then on the place of the first decisive vote is fixed.   *)

VTypes ==
  /\ xstate \in XactType /\ existing \in Seq(Vote) /\ log \in Seq(Vote)
  /\ failed \in BOOLEAN

\* Nothing is counted before initialize.
UnknownInv ==
  xstate.kind = "unknown" =>
    /\ xstate.status = "Uninitialized" /\ xstate.info = NoInfo /\ xstate.voted = {}
    /\ log = <<>> /\ existing = <<>> /\ ~failed

\* The participants with a 'yes' among the votes counted.
SaidYes == {p \in Participants : \E j \in 1..Len(log) : log[j] = YesVote(p)}

WaitingInv ==
  xstate.status = "Waiting" =>
    /\ xstate.kind # "unknown" /\ Decisive = {} /\ ~failed /\ xstate.info = NoInfo
    /\ xstate.voted = SaidYes /\ xstate.voted # Participants

IsFirst(d) == d \in Decisive /\ \A j \in Decisive : d <= j

DecidedInv ==
  xstate.kind # "unknown" /\ xstate.status # "Waiting" =>
    \E d \in 1..Len(log) :
      /\ IsFirst(d)
      /\ IsNo(d) => /\ xstate.status \in {"Rollbacking", "Rollbacked"}
                    /\ xstate.info = [by |-> log[d].from, reason |-> log[d].reason]
                    /\ ~failed
      /\ ~IsNo(d) => /\ xstate.status \in {"Committing", "Committed"}
                     /\ failed <=> d < Len(log)

VInv == VTypes /\ UnknownInv /\ WaitingInv /\ DecidedInv

----------------------------------------------------------------------------
\* Counting one more vote leaves the earlier ones as they were.
LEMMA OneMore ==
  ASSUME log \in Seq(Vote), NEW v \in Vote, log' = Append(log, v)
  PROVE  /\ log' \in Seq(Vote) /\ Len(log) \in Nat /\ Len(log') = Len(log) + 1
         /\ log'[Len(log) + 1] = v
         /\ \A i \in 1..Len(log) : /\ log'[i] = log[i]
                                   /\ IsNo(i)' <=> IsNo(i)
                                   /\ AllSaidYes(i)' <=> AllSaidYes(i)
         /\ \A i \in 1..Len(log) : i \in Decisive' <=> i \in Decisive
         /\ Decisive \subseteq Decisive'
         /\ \A i \in Decisive' : i \in Decisive \/ i = Len(log) + 1
<1>1. /\ log' \in Seq(Vote) /\ Len(log) \in Nat /\ Len(log') = Len(log) + 1
      /\ log'[Len(log) + 1] = v
      /\ \A i \in 1..Len(log) : log'[i] = log[i]
  OBVIOUS
<1>2. \A i \in 1..Len(log) : IsNo(i)' <=> IsNo(i)
  BY <1>1 DEF IsNo
<1>3. \A i \in 1..Len(log) : AllSaidYes(i)' <=> AllSaidYes(i)
  <2> SUFFICES ASSUME NEW i \in 1..Len(log) PROVE AllSaidYes(i)' <=> AllSaidYes(i)
    OBVIOUS
  <2>1. \A j \in 1..i : log'[j] = log[j]
    BY <1>1
  <2> QED
    BY <2>1 DEF AllSaidYes
<1>4. \A i \in 1..Len(log) : i \in Decisive' <=> i \in Decisive
  <2> SUFFICES ASSUME NEW i \in 1..Len(log) PROVE i \in Decisive' <=> i \in Decisive
    OBVIOUS
  <2>1. i \in 1..Len(log')
    BY <1>1
  <2> QED
    BY <1>2, <1>3, <2>1 DEF Decisive
<1>5. Decisive \subseteq 1..Len(log) /\ Decisive' \subseteq 1..Len(log')
  BY DEF Decisive
<1>6. \A i \in Decisive' : i \in Decisive \/ i = Len(log) + 1
  BY <1>1, <1>4, <1>5
<1> QED
  BY <1>1, <1>2, <1>3, <1>4, <1>5, <1>6

\* The first decisive vote stays the first.
LEMMA FirstStays ==
  ASSUME log \in Seq(Vote), NEW v \in Vote, log' = Append(log, v),
         NEW d \in 1..Len(log), IsFirst(d)
  PROVE  d \in 1..Len(log') /\ IsFirst(d)' /\ d < Len(log')
<1>1. Len(log) \in Nat /\ Len(log') = Len(log) + 1
  BY OneMore
<1>2. d \in Decisive'
  BY OneMore DEF IsFirst
<1>3. ASSUME NEW j \in Decisive' PROVE d <= j
  <2>1. CASE j \in Decisive
    BY <2>1 DEF IsFirst
  <2>2. CASE j = Len(log) + 1
    BY <1>1, <2>2
  <2> QED
    BY <1>3, <2>1, <2>2, OneMore
<1> QED
  BY <1>1, <1>2, <1>3 DEF IsFirst

\* When none was decisive before, the last vote is the first that can be.
LEMMA FirstIsLast ==
  ASSUME log \in Seq(Vote), NEW v \in Vote, log' = Append(log, v), Decisive = {},
         NEW n \in Nat, n = Len(log) + 1
  PROVE  /\ n \in 1..Len(log') /\ n = Len(log')
         /\ IsNo(n)' <=> v.from \in Participants /\ v.reason # None
         /\ n \in Decisive' => IsFirst(n)'
         /\ n \notin Decisive' => Decisive' = {}
         /\ n \in Decisive' <=> IsNo(n)' \/ SaidYes' = Participants
<1>1. /\ Len(log) \in Nat /\ Len(log') = Len(log) + 1 /\ log'[n] = v
      /\ \A i \in Decisive' : i = n
  BY OneMore
<1>2. IsNo(n)' <=> v.from \in Participants /\ v.reason # None
  BY <1>1 DEF IsNo
<1>3. n \in Decisive' => IsFirst(n)'
  BY <1>1 DEF IsFirst
<1>4. n \notin Decisive' => Decisive' = {}
  BY <1>1
<1>5. AllSaidYes(n)' <=> SaidYes' = Participants
  BY <1>1 DEF AllSaidYes, SaidYes
<1>6. n \in Decisive' <=> IsNo(n)' \/ AllSaidYes(n)'
  BY <1>1 DEF Decisive
<1> QED
  BY <1>1, <1>2, <1>3, <1>4, <1>5, <1>6

\* Who said yes, after one more vote.
LEMMA YesOneMore ==
  ASSUME log \in Seq(Vote), NEW v \in Vote, log' = Append(log, v)
  PROVE  /\ v.from \in Participants /\ v.reason = None => SaidYes' = SaidYes \cup {v.from}
         /\ ~(v.from \in Participants /\ v.reason = None) => SaidYes' = SaidYes
<1>1. /\ Len(log) \in Nat /\ Len(log') = Len(log) + 1 /\ log'[Len(log) + 1] = v
      /\ \A i \in 1..Len(log) : log'[i] = log[i]
  BY OneMore
<1>2. \A p \in Participants : v = YesVote(p) <=> v.from = p /\ v.reason = None
  BY DEF Vote, YesVote, VoteOf
<1>3. \A p \in Participants : p \in SaidYes' <=> p \in SaidYes \/ v = YesVote(p)
  <2> SUFFICES ASSUME NEW p \in Participants
               PROVE  (\E j \in 1..Len(log') : log'[j] = YesVote(p)) <=>
                        (\E j \in 1..Len(log) : log[j] = YesVote(p)) \/ v = YesVote(p)
    BY DEF SaidYes
  <2>1. \A j \in 1..Len(log') : j \in 1..Len(log) \/ j = Len(log) + 1
    BY <1>1
  <2>2. /\ \A j \in 1..Len(log) : j \in 1..Len(log')
        /\ Len(log) + 1 \in 1..Len(log')
    BY <1>1
  <2> QED
    BY <1>1, <2>1, <2>2
<1>4. SaidYes \subseteq Participants /\ SaidYes' \subseteq Participants
  BY DEF SaidYes
<1> QED
  BY <1>2, <1>3, <1>4

\* XactState::add_vote: whatever the vote and the state.
LEMMA CountKeeps ==
  ASSUME VInv, ~failed, xstate.kind # "unknown", NEW v \in Vote, Count(v),
         existing' \in Seq(Vote)
  PROVE  VInv'
<1>0. /\ xstate \in XactType /\ log \in Seq(Vote) /\ log' = Append(log, v)
      /\ WaitingInv /\ DecidedInv /\ log' \in Seq(Vote)
  BY OneMore DEF VInv, VTypes, Count
<1>1. /\ MayAddVote(xstate) => xstate' = AddVote(xstate, v) /\ ~failed'
      /\ ~MayAddVote(xstate) => xstate' = xstate /\ failed'
      /\ failed' \in BOOLEAN
  BY Zenon DEF Count
<1>2. v.from \in Node /\ v.reason \in Reason \cup {None}
  BY DEF Vote
<1>n. PICK n \in Nat : n = Len(log) + 1
  BY <1>0, OneMore
<1>3. CASE xstate.status = "Waiting"
  <2>0. /\ Decisive = {} /\ xstate.info = NoInfo /\ xstate.voted = SaidYes /\ xstate.voted # Participants
        /\ MayAddVote(xstate) /\ ~failed' /\ xstate' = AddVote(xstate, v)
    BY <1>0, <1>1, <1>3 DEF WaitingInv, MayAddVote
  <2>1. /\ n \in 1..Len(log') /\ n = Len(log')
        /\ IsNo(n)' <=> v.from \in Participants /\ v.reason # None
        /\ n \in Decisive' => IsFirst(n)'
        /\ n \notin Decisive' => Decisive' = {}
        /\ n \in Decisive' <=> IsNo(n)' \/ SaidYes' = Participants
    BY <1>0, <1>n, <2>0, FirstIsLast
  <2>2. /\ v.from \in Participants /\ v.reason = None => SaidYes' = SaidYes \cup {v.from}
        /\ ~(v.from \in Participants /\ v.reason = None) => SaidYes' = SaidYes
    BY <1>0, YesOneMore
  <2>3. log'[n] = v
    BY <1>0, <1>n, OneMore
  <2>4. CASE v.from \notin Participants \/ (v.reason = None /\ v.from \in xstate.voted)
    <3>1. xstate' = xstate
      BY <1>3, <2>0, <2>4 DEF AddVote
    <3>2. SaidYes' = SaidYes /\ Decisive' = {}
      BY <2>0, <2>1, <2>2, <2>4
    <3> QED
      BY <1>0, <1>1, <1>3, <2>0, <3>1, <3>2
         DEF VInv, VTypes, UnknownInv, WaitingInv, DecidedInv
  <2>5. CASE v.from \in Participants /\ v.reason # None
    <3>1. xstate' = [xstate EXCEPT !.status = "Rollbacking",
                         !.info = [by |-> v.from, reason |-> v.reason]]
      BY <1>3, <2>0, <2>5 DEF AddVote
    <3>2. /\ xstate' \in XactType /\ xstate'.kind = xstate.kind /\ xstate'.status = "Rollbacking"
          /\ xstate'.info = [by |-> log'[n].from, reason |-> log'[n].reason]
      BY <1>0, <1>2, <2>3, <3>1 DEF XactType, XactStatus, RollbackInfo
    <3>3. IsNo(n)' /\ IsFirst(n)'
      BY <2>1, <2>5
    <3>4. DecidedInv'
      BY <2>0, <2>1, <3>2, <3>3 DEF DecidedInv
    <3> QED
      BY <1>0, <1>1, <3>2, <3>4 DEF VInv, VTypes, UnknownInv, WaitingInv
  <2>6. CASE v.from \in Participants /\ v.reason = None /\ v.from \notin xstate.voted
    <3>1. xstate' = [xstate EXCEPT !.voted = @ \cup {v.from},
                         !.status = IF xstate.voted \cup {v.from} = Participants
                                      THEN "Committing" ELSE @]
      BY <1>3, <2>0, <2>6 DEF AddVote
    <3>2. SaidYes' = xstate.voted \cup {v.from} /\ ~IsNo(n)'
      BY <2>0, <2>1, <2>2, <2>6
    <3>3. /\ xstate' \in XactType /\ xstate'.kind = xstate.kind /\ xstate'.info = xstate.info
          /\ xstate'.voted = SaidYes'
      BY <1>0, <1>2, <3>1, <3>2 DEF XactType, XactStatus
    <3>4. CASE SaidYes' = Participants
      <4>1. xstate'.status = "Committing"
        BY <1>0, <3>1, <3>2, <3>4 DEF XactType
      <4>2. IsFirst(n)'
        BY <2>1, <3>4
      <4>3. ~(n < Len(log'))
        BY <2>1
      <4>4. DecidedInv'
        BY <2>0, <2>1, <3>2, <4>1, <4>2, <4>3 DEF DecidedInv
      <4> QED
        BY <1>0, <1>1, <3>3, <4>1, <4>4 DEF VInv, VTypes, UnknownInv, WaitingInv
    <3>5. CASE SaidYes' # Participants
      <4>1. xstate'.status = "Waiting"
        BY <1>0, <1>3, <3>1, <3>2, <3>5 DEF XactType
      <4>2. Decisive' = {}
        BY <2>1, <3>2, <3>5
      <4> QED
        BY <1>0, <1>1, <2>0, <3>3, <3>5, <4>1, <4>2
           DEF VInv, VTypes, UnknownInv, WaitingInv, DecidedInv
    <3> QED
      BY <3>4, <3>5
  <2> QED
    BY <2>4, <2>5, <2>6
<1>4. CASE xstate.status # "Waiting"
  <2>0. xstate' = xstate
    BY <1>1, <1>4 DEF AddVote
  <2>1. PICK d \in 1..Len(log) :
          /\ IsFirst(d)
          /\ IsNo(d) => /\ xstate.status \in {"Rollbacking", "Rollbacked"}
                        /\ xstate.info = [by |-> log[d].from, reason |-> log[d].reason]
          /\ ~IsNo(d) => xstate.status \in {"Committing", "Committed"}
    BY <1>0, <1>4 DEF DecidedInv
  <2>2. d \in 1..Len(log') /\ IsFirst(d)' /\ d < Len(log')
    BY <1>0, <2>1, FirstStays
  <2>3. log'[d] = log[d] /\ (IsNo(d)' <=> IsNo(d))
    BY <1>0, OneMore
  <2>4. IsNo(d) => ~failed'
    BY <1>1, <2>1 DEF MayAddVote
  <2>5. ~IsNo(d) => failed'
    BY <1>1, <2>1 DEF MayAddVote
  <2>6. DecidedInv'
    BY <2>0, <2>1, <2>2, <2>3, <2>4, <2>5 DEF DecidedInv
  <2> QED
    BY <1>0, <1>1, <1>4, <2>0, <2>6 DEF VInv, VTypes, UnknownInv, WaitingInv
<1> QED
  BY <1>3, <1>4

\* initialize starts to wait, with nothing counted.
LEMMA InitializeKeeps ==
  ASSUME VInv, NEW n \in Participants, NEW r \in Reason \cup {None}, Initialize(n, r)
  PROVE  VInv'
<1> DEFINE kind == IF n = Coordinator THEN "local" ELSE "surrogate"
<1>0. /\ xstate \in XactType /\ xstate.kind = "unknown" /\ log = <<>> /\ log' = <<>> /\ ~failed
      /\ xstate.info = NoInfo /\ xstate.voted = {} /\ failed' = failed /\ failed \in BOOLEAN
  BY DEF VInv, VTypes, UnknownInv, Initialize
<1>1. xstate' = [[xstate EXCEPT !.kind = kind, !.status = "Waiting"] EXCEPT !.votes = <<>>]
  BY DEF Initialize, Initialized
<1>2. /\ xstate' \in XactType /\ xstate'.kind # "unknown" /\ xstate'.status = "Waiting"
      /\ xstate'.info = NoInfo /\ xstate'.voted = {}
  <2>1. kind \in {"local", "surrogate"} /\ <<>> \in Seq(Vote)
    OBVIOUS
  <2> HIDE DEF kind
  <2>2. /\ xstate'.kind = kind /\ xstate'.status = "Waiting" /\ xstate'.votes = <<>>
        /\ xstate'.info = xstate.info /\ xstate'.voted = xstate.voted
    BY <1>0, <1>1 DEF XactType
  <2>3. xstate' \in XactType
    BY <1>0, <1>1, <2>1 DEF XactType, XactStatus
  <2> QED
    BY <1>0, <2>1, <2>2, <2>3
<1>3. existing' \in Seq(Vote)
  <2>1. xstate.votes \in Seq(Vote)
    BY <1>0 DEF XactType
  <2>2. YesVote(n) \in Vote /\ YesVote(Coordinator) \in Vote /\ VoteOf(n, r) \in Vote
    BY DEF YesVote, VoteOf, Vote
  <2>3. /\ <<YesVote(n)>> \in Seq(Vote)
        /\ <<YesVote(Coordinator), VoteOf(n, r)>> \in Seq(Vote)
    BY <2>2
  <2>4. /\ <<YesVote(n)>> \o xstate.votes \in Seq(Vote)
        /\ <<YesVote(Coordinator), VoteOf(n, r)>> \o xstate.votes \in Seq(Vote)
    BY <2>1, <2>3, ConcatProperties
  <2> QED
    BY <2>4 DEF Initialize
<1>4. Decisive' = {} /\ SaidYes' = {}
  BY <1>0 DEF Decisive, SaidYes
<1> QED
  BY <1>0, <1>2, <1>3, <1>4 DEF VInv, VTypes, UnknownInv, WaitingInv, DecidedInv

\* Counting one of the votes that initialize was given.
LEMMA CountExistingKeeps ==
  ASSUME VInv, ~failed, CountExisting
  PROVE  VInv'
<1>1. existing \in Seq(Vote) /\ existing # <<>> /\ xstate.kind # "unknown"
  BY DEF VInv, VTypes, UnknownInv, CountExisting
<1>2. Head(existing) \in Vote /\ Tail(existing) \in Seq(Vote)
  BY <1>1
<1> QED
  BY <1>1, <1>2, CountKeeps DEF CountExisting

\* A vote that arrives is kept for initialize, or counted.
LEMMA ReceiveVoteKeeps ==
  ASSUME VInv, ~failed, NEW v \in Vote, ReceiveVote(v)
  PROVE  VInv'
<1>1. CASE xstate.kind # "unknown"
  BY <1>1, CountKeeps DEF ReceiveVote, VInv, VTypes
<1>2. CASE xstate.kind = "unknown"
  <2>1. /\ xstate' = [xstate EXCEPT !.votes = Append(@, v)] /\ UNCHANGED <<log, existing, failed>>
        /\ xstate \in XactType
    BY <1>2 DEF ReceiveVote, KeepVote, VInv, VTypes
  <2>2. /\ xstate' \in XactType /\ xstate'.kind = xstate.kind /\ xstate'.status = xstate.status
        /\ xstate'.info = xstate.info /\ xstate'.voted = xstate.voted
    <3>1. xstate.votes \in Seq(Vote)
      BY <2>1 DEF XactType
    <3>2. Append(xstate.votes, v) \in Seq(Vote)
      BY <3>1, AppendProperties
    <3> QED
      BY <2>1, <3>2 DEF XactType
  <2> QED
    BY <1>2, <2>1, <2>2 DEF VInv, VTypes, UnknownInv, WaitingInv, DecidedInv
<1> QED
  BY <1>1, <1>2

\* try_finish ends what was decided, and decides nothing.
LEMMA TryFinishKeeps ==
  ASSUME VInv, TryFinish
  PROVE  VInv'
<1>1. /\ xstate \in XactType /\ xstate.status \in {"Committing", "Rollbacking"}
      /\ UNCHANGED <<log, existing, failed>>
  BY DEF VInv, VTypes, TryFinish
<1>2. /\ xstate' \in XactType /\ xstate'.kind = xstate.kind /\ xstate'.info = xstate.info
      /\ xstate.status = "Committing" => xstate'.status = "Committed"
      /\ xstate.status = "Rollbacking" => xstate'.status = "Rollbacked"
  BY <1>1 DEF TryFinish, Finished, XactType, XactStatus
<1>3. xstate.kind # "unknown"
  BY <1>1 DEF VInv, UnknownInv
<1>4. /\ Decisive' = Decisive /\ \A d : (IsNo(d)' <=> IsNo(d)) /\ (IsFirst(d)' <=> IsFirst(d))
  BY <1>1 DEF Decisive, IsNo, AllSaidYes, IsFirst
<1>5. DecidedInv'
  BY <1>1, <1>2, <1>3, <1>4 DEF VInv, DecidedInv
<1> QED
  BY <1>1, <1>2, <1>3, <1>5 DEF VInv, VTypes, UnknownInv, WaitingInv

----------------------------------------------------------------------------
\* The inductive invariant: voted is the set of those who said yes while the
\* state waits, and afterwards the first decisive vote is fixed (state.rs).
THEOREM VInvHolds == VotesSpec => []VInv
<1>1. VotesInit => VInv
  <2> SUFFICES ASSUME VotesInit PROVE VInv
    OBVIOUS
  <2>1. xstate = Unknown /\ existing = <<>> /\ log = <<>> /\ failed = FALSE
    BY DEF VotesInit
  <2>2. Unknown \in XactType /\ <<>> \in Seq(Vote)
    BY DEF Unknown, XactType, XactStatus, RollbackInfo, NoInfo
  <2> QED
    BY <2>1, <2>2 DEF VInv, VTypes, UnknownInv, WaitingInv, DecidedInv, Unknown
<1>2. VInv /\ [VotesNext]_voteVars => VInv'
  <2> SUFFICES ASSUME VInv, [VotesNext]_voteVars PROVE VInv'
    OBVIOUS
  <2>1. CASE UNCHANGED voteVars
    <3>1. UNCHANGED <<xstate, existing, log, arrived, failed>>
      BY <2>1 DEF voteVars
    <3> QED
      BY <3>1 DEF VInv, VTypes, UnknownInv, WaitingInv, DecidedInv, Decisive, SaidYes,
                  IsFirst, IsNo, AllSaidYes
  <2>2. CASE VotesNext
    BY <2>2, InitializeKeeps, CountExistingKeeps, ReceiveVoteKeeps, TryFinishKeeps DEF VotesNext
  <2> QED
    BY <2>1, <2>2
<1> QED
  BY <1>1, <1>2, PTL DEF VotesSpec

\* The status, the rollback info and the error are those of the first decisive
\* vote, whatever votes come in whatever order (state.rs initialize, add_vote).
THEOREM FirstVoteDecidesHolds == VotesSpec => []FirstVoteDecides
<1>1. ASSUME VInv PROVE FirstVoteDecides
  <2> SUFFICES ASSUME xstate.kind # "unknown"
               PROVE  IF Decisive = {}
                        THEN xstate.status = "Waiting" /\ xstate.info = NoInfo /\ ~failed
                      ELSE IF IsNo(FirstDecisive)
                        THEN /\ xstate.status \in {"Rollbacking", "Rollbacked"}
                             /\ xstate.info = [by |-> log[FirstDecisive].from,
                                          reason |-> log[FirstDecisive].reason]
                             /\ ~failed
                      ELSE /\ xstate.status \in {"Committing", "Committed"}
                           /\ failed <=> FirstDecisive < Len(log)
    BY DEF FirstVoteDecides
  <2>1. CASE xstate.status = "Waiting"
    BY <1>1, <2>1 DEF VInv, WaitingInv
  <2>2. CASE xstate.status # "Waiting"
    <3>1. PICK d \in 1..Len(log) :
            /\ IsFirst(d)
            /\ IsNo(d) => /\ xstate.status \in {"Rollbacking", "Rollbacked"}
                          /\ xstate.info = [by |-> log[d].from, reason |-> log[d].reason]
                          /\ ~failed
            /\ ~IsNo(d) => /\ xstate.status \in {"Committing", "Committed"}
                           /\ failed <=> d < Len(log)
      BY <1>1, <2>2 DEF VInv, DecidedInv
    <3>2. FirstDecisive = d
      <4>1. \A i \in Decisive : i \in Nat
        BY DEF Decisive
      <4>2. d \in Decisive /\ \A j \in Decisive : d <= j
        BY <3>1 DEF IsFirst
      <4>3. FirstDecisive \in Decisive /\ \A j \in Decisive : FirstDecisive <= j
        BY <4>2, Zenon DEF FirstDecisive
      <4>4. d <= FirstDecisive /\ FirstDecisive <= d
        BY <4>2, <4>3
      <4> QED
        BY <4>1, <4>2, <4>3, <4>4
    <3>3. Decisive # {}
      BY <3>1 DEF IsFirst
    <3> QED
      BY <3>1, <3>2, <3>3
  <2> QED
    BY <2>1, <2>2
<1> QED
  BY <1>1, VInvHolds, PTL

\* No later vote, finished or not, changes a decision or who caused it (state.rs
\* add_vote and try_finish).
THEOREM DecisionIsFinalHolds == VotesSpec => DecisionIsFinal
<1> DEFINE Final ==
      /\ xstate.status \in {"Committing", "Committed"} => xstate'.status \in {"Committing", "Committed"}
      /\ xstate.status \in {"Rollbacking", "Rollbacked"} =>
           xstate'.status \in {"Rollbacking", "Rollbacked"} /\ xstate'.info = xstate.info
      /\ xstate.status \in Terminal => xstate'.status = xstate.status
<1>1. ASSUME VInv, [VotesNext]_voteVars PROVE [Final]_voteVars
  <2>0. xstate \in XactType
    BY <1>1 DEF VInv, VTypes
  <2>1. ASSUME NEW v, Count(v) PROVE Final
    <3>1. xstate' = xstate \/ xstate' = AddVote(xstate, v)
      BY <2>1 DEF Count
    <3>2. xstate.status # "Waiting" => AddVote(xstate, v) = xstate
      BY DEF AddVote
    <3> QED
      BY <3>1, <3>2 DEF Terminal
  <2>2. ASSUME NEW n \in Participants, NEW r, Initialize(n, r) PROVE Final
    BY <1>1, <2>2 DEF Initialize, VInv, UnknownInv, Terminal
  <2>3. ASSUME NEW v \in Vote, ReceiveVote(v) PROVE Final
    <3>1. CASE xstate.kind = "unknown"
      BY <1>1, <3>1 DEF VInv, UnknownInv, Terminal
    <3>2. CASE xstate.kind # "unknown"
      BY <2>1, <2>3, <3>2 DEF ReceiveVote
    <3> QED
      BY <3>1, <3>2
  <2>4. ASSUME TryFinish PROVE Final
    BY <2>0, <2>4 DEF TryFinish, Finished, XactType, Terminal
  <2> QED
    BY <1>1, <2>1, <2>2, <2>3, <2>4 DEF VotesNext, CountExisting
<1> QED
  BY <1>1, VInvHolds, PTL DEF VotesSpec, DecisionIsFinal, Terminal
=============================================================================
