----------------------------- MODULE XactServer -----------------------------
(***************************************************************************)
(* The commit protocol of SunStorm's xactservers for one distributed       *)
(* transaction (xactserver/src/manager.rs with node.rs, pg/watcher.rs and  *)
(* pg/controller.rs).                                                      *)
(*                                                                         *)
(* The PostgreSQL of the coordinator's region hands the transaction to its *)
(* watcher and waits.  The coordinator sends Prepare to the other          *)
(* participants; each of these executes and PREPAREs the transaction in    *)
(* its own PostgreSQL and sends its vote to all other participants, the    *)
(* coordinator included.  Every participant decides by itself once it has  *)
(* a 'yes' of every participant or one 'no'; the coordinator's 'yes' is    *)
(* assumed by all and never sent.                                          *)
(*                                                                         *)
(* At each node there are three kinds of process: the gRPC server, which   *)
(* puts a call's message into remote_rx; the Manager, which moves messages *)
(* from local_rx and remote_rx to the channel of the transaction's task,   *)
(* creating the task if there never was one; and that task, an             *)
(* XactStateManager.  A task suspends only at an await, so its labels are  *)
(* the awaits: "recv" (msg_rx.recv), "execute" and "finish" (PostgreSQL),  *)
(* "send" (the RPCs).  "existing" is the loop over early votes, which does *)
(* not suspend; taking it one vote at a time changes nothing that another  *)
(* process can see, since xact[n] is private to the task.                  *)
(***************************************************************************)
EXTENDS XactState, FiniteSets

CONSTANT MaxFaults   \* bound on the number of failures in a behaviour
ASSUME MaxFaultsAssumption == MaxFaults \in Nat

VARIABLES
  task,      \* task[n]: where the XactStateManager of node n is, or how it ended
  xact,      \* xact[n]: its XactType (the last value once it has ended)
  chan,      \* chan[n]: the mpsc channel into the task
  localRx,   \* the coordinator's channel from its watcher to its Manager
  remoteRx,  \* remoteRx[n]: the channel from the gRPC server to the Manager
  net,       \* the messages of RPCs that have not reached their server yet
  pg,        \* pg[n]: what n's PostgreSQL holds of the surrogate transaction
  client,    \* what the watcher's connection to PostgreSQL has been told
  faults,    \* number of failures so far
  ballot,    \* history: the vote that n has sent ("unset" before that)
  cause      \* history: the error of n's own execution, None if it had none

vars == <<task, xact, chan, localRx, remoteRx, net, pg, client, faults, ballot, cause>>

----------------------------------------------------------------------------
Message ==
  [type : {"LocalXact", "Prepare", "Vote"}, from : Node, to : Node,
   reason : Reason \cup {None}]

LocalXact ==
  [type |-> "LocalXact", from |-> Coordinator, to |-> Coordinator, reason |-> None]
PrepareMessage(n, p) ==
  [type |-> "Prepare", from |-> n, to |-> p, reason |-> None]
VoteMessage(n, p, r) ==
  [type |-> "Vote", from |-> n, to |-> p, reason |-> r]

\* A slip: the sender is not left out.
AllParticipants(n) == Participants

\* The receivers of send_to_all_but_me at node n.
OthersThan(n) == Participants \ {n}

\* The calls of node n whose message is still on its way.
CallsOf(n) == {m \in net : m.from = n}

Running == {"recv", "execute", "existing", "send", "finish"}
Stopped == {"done", "failed", "panicked"}
TaskState == {"absent"} \cup Running \cup Stopped

ClientState ==
  [state : {"idle", "waiting", "committed", "rollbacked", "error"},
   info : RollbackInfo]

TypeOK ==
  /\ task \in [Node -> TaskState]
  /\ xact \in [Node -> XactType]
  /\ chan \in [Node -> Seq(Message)]
  /\ localRx \in Seq(Message)
  /\ remoteRx \in [Node -> Seq(Message)]
  /\ net \in SUBSET Message
  /\ pg \in [Node -> {"none", "prepared", "committed", "aborted"}]
  /\ client \in ClientState
  /\ faults \in Nat
  /\ ballot \in [Node -> {"unset", "yes", "no"}]
  /\ cause \in [Node -> Reason \cup {None}]

Init ==
  /\ task = [n \in Node |-> "absent"]
  /\ xact = [n \in Node |-> Unknown]
  /\ chan = [n \in Node |-> <<>>]
  /\ localRx = <<>>
  /\ remoteRx = [n \in Node |-> <<>>]
  /\ net = {}
  /\ pg = [n \in Node |-> "none"]
  /\ client = [state |-> "idle", info |-> NoInfo]
  /\ faults = 0
  /\ ballot = [n \in Node |-> "unset"]
  /\ cause = [n \in Node |-> None]

----------------------------------------------------------------------------
(* Helpers of the actions.                                                 *)

Goto(n, label) == task' = [task EXCEPT ![n] = label]

\* Dropping the commit_tx of a transaction that was not answered makes the
\* watcher's commit_rx.await fail.
DropCommitTx(n) ==
  client' = IF n = Coordinator /\ client.state = "waiting"
              THEN [client EXCEPT !.state = "error"]
              ELSE client

\* The task's loop ends and its receiver is dropped with all it holds.
Stop(n, how) ==
  /\ Goto(n, how)
  /\ chan' = [chan EXCEPT ![n] = <<>>]

\* A slip: the commit_tx outlives its task.
AbandonSilently(n, how) == Stop(n, how) /\ UNCHANGED client

\* The task ends without having answered the client.
Abandon(n, how) == Stop(n, how) /\ DropCommitTx(n)

Receives(n, type) ==
  /\ task[n] = "recv"
  /\ chan[n] # <<>>
  /\ Head(chan[n]).type = type

Dequeue(n) == chan' = [chan EXCEPT ![n] = Tail(@)]

----------------------------------------------------------------------------
(* Watcher and Manager.                                                    *)

\* PgWatcherHandler::process_query passes the transaction on and waits for the
\* answer.
Submit ==
  /\ client.state = "idle"
  /\ client' = [client EXCEPT !.state = "waiting"]
  /\ localRx' = Append(localRx, LocalXact)
  /\ UNCHANGED <<task, xact, chan, remoteRx, net, pg, faults, ballot, cause>>

\* A slip: the entry of a stopped task is removed, so a late message starts a
\* new one.
DispatchToNewTask(n, m) ==
  /\ task' = [task EXCEPT ![n] = IF @ \in {"absent"} \cup Stopped THEN "recv" ELSE @]
  /\ chan' = [chan EXCEPT ![n] = Append(@, m)]

\* Manager::process_message.  The entry of a stopped task stays in the map, so
\* a late message finds a closed channel and is dropped.
Dispatch(n, m) ==
  IF task[n] \in Stopped
    THEN UNCHANGED <<task, chan>>
    ELSE /\ task' = [task EXCEPT ![n] = IF @ = "absent" THEN "recv" ELSE @]
         /\ chan' = [chan EXCEPT ![n] = Append(@, m)]

ManagerLocal ==
  /\ localRx # <<>>
  /\ Dispatch(Coordinator, Head(localRx))
  /\ localRx' = Tail(localRx)
  /\ IF task[Coordinator] \in Stopped THEN DropCommitTx(Coordinator) ELSE UNCHANGED client
  /\ UNCHANGED <<xact, remoteRx, net, pg, faults, ballot, cause>>

ManagerRemote(n) ==
  /\ remoteRx[n] # <<>>
  /\ Dispatch(n, Head(remoteRx[n]))
  /\ remoteRx' = [remoteRx EXCEPT ![n] = Tail(@)]
  /\ UNCHANGED <<xact, localRx, net, pg, client, faults, ballot, cause>>

\* A slip: a call is answered too late and made again.
DeliverTwice(m) ==
  /\ m \in net
  /\ net' = net
  /\ remoteRx' = [remoteRx EXCEPT ![m.to] = Append(@, m)]
  /\ UNCHANGED <<task, xact, chan, localRx, pg, client, faults, ballot, cause>>

\* The gRPC server's prepare() and vote(): the message enters remote_rx.  The
\* reply that follows ends the caller's await, see Sent.
Deliver(m) ==
  /\ m \in net
  /\ net' = net \ {m}
  /\ remoteRx' = [remoteRx EXCEPT ![m.to] = Append(@, m)]
  /\ UNCHANGED <<task, xact, chan, localRx, pg, client, faults, ballot, cause>>

----------------------------------------------------------------------------
(* The task of node n: XactStateManager.                                   *)

\* handle_local_xact_msg up to the loop over early votes.
HandleLocalXact(n) ==
  /\ Receives(n, "LocalXact")
  /\ IF xact[n].kind = "unknown"
       THEN /\ xact' = [xact EXCEPT ![n] = InitAsLocal(@)]
            /\ Goto(n, "existing")
            /\ Dequeue(n)
            /\ UNCHANGED client
       ELSE /\ Abandon(n, "panicked")   \* unreachable!()
            /\ UNCHANGED xact
  /\ UNCHANGED <<localRx, remoteRx, net, pg, faults, ballot, cause>>

\* handle_prepare_msg up to the execution.
HandlePrepare(n) ==
  /\ Receives(n, "Prepare")
  /\ IF n \notin Participants
       THEN Abandon(n, "done") /\ UNCHANGED xact
     ELSE IF xact[n].kind = "unknown"
       THEN /\ xact' = [xact EXCEPT ![n] = InitAsSurrogate(@)]
            /\ Goto(n, "execute")
            /\ Dequeue(n)
            /\ UNCHANGED client
     ELSE Abandon(n, "panicked") /\ UNCHANGED xact   \* unreachable!()
  /\ UNCHANGED <<localRx, remoteRx, net, pg, faults, ballot, cause>>

\* A slip: the error of the execution is logged and not voted.
CastYesVote(n, r) ==
  IF MayAddVote(xact[n])
    THEN /\ xact' = [xact EXCEPT ![n] = AddVote(@, YesVote(n))]
         /\ Goto(n, "existing")
         /\ UNCHANGED <<chan, client>>
    ELSE Abandon(n, "failed") /\ UNCHANGED xact

\* The vote for the node itself, cast when execute() has returned.
CastOwnVote(n, r) ==
  IF MayAddVote(xact[n])
    THEN /\ xact' = [xact EXCEPT ![n] = AddVote(@, VoteOf(n, r))]
         /\ Goto(n, "existing")
         /\ UNCHANGED <<chan, client>>
    ELSE Abandon(n, "failed") /\ UNCHANGED xact

\* SurrogateXactController::execute: validation succeeds and the transaction is
\* prepared, or there is an error and PostgreSQL holds nothing of it (PREPARE
\* TRANSACTION of a failed transaction rolls it back).
Execute(n) ==
  /\ task[n] = "execute"
  /\ \E r \in Reason \cup {None} :
       /\ CastOwnVote(n, r)
       /\ pg' = [pg EXCEPT ![n] = IF r = None THEN "prepared" ELSE "aborted"]
       /\ cause' = [cause EXCEPT ![n] = r]
  /\ UNCHANGED <<localRx, remoteRx, net, faults, ballot>>

AddExisting(n) ==
  /\ task[n] = "existing"
  /\ xact[n].votes # <<>>
  /\ IF MayAddVote(xact[n])
       THEN /\ xact' = [xact EXCEPT ![n] = AddExistingVote(@)]
            /\ UNCHANGED <<task, chan, client>>
       ELSE Abandon(n, "failed") /\ UNCHANGED xact
  /\ UNCHANGED <<localRx, remoteRx, net, pg, faults, ballot, cause>>

\* The rest of handle_local_xact_msg: the assertion on the status, then the
\* RPCs of send_to_all_but_me.
SendPrepare(n) ==
  /\ task[n] = "existing"
  /\ xact[n].votes = <<>>
  /\ xact[n].kind = "local"
  /\ IF xact[n].status = "Waiting"
       THEN /\ net' = net \cup {PrepareMessage(n, p) : p \in OthersThan(n)}
            /\ Goto(n, "send")
            /\ UNCHANGED <<chan, client>>
       ELSE Abandon(n, "panicked") /\ UNCHANGED net   \* assert_eq!
  /\ UNCHANGED <<xact, localRx, remoteRx, pg, faults, ballot, cause>>

\* handle_prepare_msg after init_as_surrogate: the vote that is sent carries the
\* reason of the status, which may come from another node's early vote.
SendVote(n) ==
  /\ task[n] = "existing"
  /\ xact[n].votes = <<>>
  /\ xact[n].kind = "surrogate"
  /\ LET r == RollbackReason(xact[n])
     IN  /\ net' = net \cup {VoteMessage(n, p, r) : p \in OthersThan(n)}
         /\ ballot' = [ballot EXCEPT ![n] = IF r = None THEN "yes" ELSE "no"]
  /\ Goto(n, "send")
  /\ UNCHANGED <<xact, chan, localRx, remoteRx, pg, client, faults, cause>>

\* All calls of try_join_all have returned.
Sent(n) ==
  /\ task[n] = "send"
  /\ CallsOf(n) = {}
  /\ Goto(n, IF xact[n].kind = "local" THEN "recv" ELSE "finish")
  /\ UNCHANGED <<xact, chan, localRx, remoteRx, net, pg, client, faults, ballot, cause>>

\* A slip: a surrogate announces its status again after each vote.
HandleVoteAndRepeat(n) ==
  /\ Receives(n, "Vote")
  /\ LET vote == VoteOf(Head(chan[n]).from, Head(chan[n]).reason)
     IN  xact' = [xact EXCEPT ![n] = IF @.kind = "unknown" THEN KeepVote(@, vote)
                                                           ELSE AddVote(@, vote)]
  /\ Goto(n, IF xact[n].kind = "surrogate" THEN "existing" ELSE "finish")
  /\ Dequeue(n)
  /\ UNCHANGED <<client, localRx, remoteRx, net, pg, faults, ballot, cause>>

\* handle_vote_msg up to try_finish.
HandleVote(n) ==
  /\ Receives(n, "Vote")
  /\ LET m == Head(chan[n])
         vote == VoteOf(m.from, m.reason)
     IN  IF xact[n].kind = "unknown" \/ MayAddVote(xact[n])
           THEN /\ xact' = [xact EXCEPT ![n] = IF @.kind = "unknown"
                                                THEN KeepVote(@, vote)
                                                ELSE AddVote(@, vote)]
                /\ Goto(n, "finish")
                /\ Dequeue(n)
                /\ UNCHANGED client
           ELSE Abandon(n, "failed") /\ UNCHANGED xact
  /\ UNCHANGED <<localRx, remoteRx, net, pg, faults, ballot, cause>>

\* try_finish when there is no decision yet: the task waits for more messages.
KeepWaiting(n) ==
  /\ task[n] = "finish"
  /\ xact[n].status \notin {"Committing", "Rollbacking"}
  /\ Goto(n, "recv")
  /\ UNCHANGED <<xact, chan, localRx, remoteRx, net, pg, client, faults, ballot, cause>>

Decided(n, kind) ==
  /\ task[n] = "finish"
  /\ xact[n].kind = kind
  /\ xact[n].status \in {"Committing", "Rollbacking"}

\* try_finish with the LocalXactController: the decision goes to the client
\* through commit_tx.
FinishLocal(n) ==
  /\ Decided(n, "local")
  /\ client' = [state |-> IF xact[n].status = "Committing" THEN "committed"
                                                           ELSE "rollbacked",
                info |-> xact[n].info]
  /\ xact' = [xact EXCEPT ![n] = Finished(@)]
  /\ Stop(n, "done")
  /\ UNCHANGED <<localRx, remoteRx, net, pg, faults, ballot, cause>>

\* COMMIT PREPARED; ROLLBACK PREPARED if the transaction is in
\* pg_prepared_xacts, else nothing.
AfterFinish(n) ==
  IF xact[n].status = "Committing" THEN "committed"
  ELSE IF pg[n] = "prepared" THEN "aborted"
  ELSE pg[n]

\* try_finish with the SurrogateXactController.  COMMIT PREPARED of a
\* transaction that is not prepared is an error.
FinishSurrogate(n) ==
  /\ Decided(n, "surrogate")
  /\ IF xact[n].status = "Committing" /\ pg[n] # "prepared"
       THEN Abandon(n, "failed") /\ UNCHANGED <<xact, pg>>
       ELSE /\ pg' = [pg EXCEPT ![n] = AfterFinish(n)]
            /\ xact' = [xact EXCEPT ![n] = Finished(@)]
            /\ Stop(n, "done")
            /\ UNCHANGED client
  /\ UNCHANGED <<localRx, remoteRx, net, faults, ballot, cause>>

TaskStep(n) ==
  \/ HandleLocalXact(n)
  \/ HandlePrepare(n)
  \/ Execute(n)
  \/ AddExisting(n)
  \/ SendPrepare(n)
  \/ SendVote(n)
  \/ Sent(n)
  \/ HandleVote(n)
  \/ KeepWaiting(n)
  \/ FinishLocal(n)
  \/ FinishSurrogate(n)

----------------------------------------------------------------------------
(* Failures.  Nothing in the code retries or times out: an error ends the   *)
(* handler and with it the task.                                           *)

Fault == faults < MaxFaults /\ faults' = faults + 1

\* RWSet::decode fails at the coordinator, before anything is sent.  The other
\* participants decode the same bytes.
DecodeError(n) ==
  /\ Fault
  /\ Receives(n, "LocalXact")
  /\ Abandon(n, "failed")
  /\ UNCHANGED <<xact, localRx, remoteRx, net, pg, ballot, cause>>

\* PREPARE TRANSACTION took effect but its answer was lost: execute() returns an
\* error although the transaction is prepared.
ExecuteAnswerLost(n) ==
  /\ Fault
  /\ task[n] = "execute"
  /\ \E r \in Reason :
       /\ CastOwnVote(n, r)
       /\ cause' = [cause EXCEPT ![n] = r]
  /\ pg' = [pg EXCEPT ![n] = "prepared"]
  /\ UNCHANGED <<localRx, remoteRx, net, ballot>>

\* One call of try_join_all returns an error, with its message delivered or not.
\* The others are dropped: each of their messages may still arrive or be lost.
RpcError(n) ==
  /\ Fault
  /\ task[n] = "send"
  /\ OthersThan(n) # {}
  /\ \E lost \in SUBSET CallsOf(n) : net' = net \ lost
  /\ Abandon(n, "failed")
  /\ UNCHANGED <<xact, localRx, remoteRx, pg, ballot, cause>>

\* COMMIT or ROLLBACK PREPARED returns an error, having taken effect or not.
FinishError(n) ==
  /\ Fault
  /\ Decided(n, "surrogate")
  /\ \/ UNCHANGED pg
     \/ /\ xact[n].status = "Committing" => pg[n] = "prepared"
        /\ pg' = [pg EXCEPT ![n] = AfterFinish(n)]
  /\ Abandon(n, "failed")
  /\ UNCHANGED <<xact, localRx, remoteRx, net, ballot, cause>>

\* The xactserver stops and is started again.  All it had in memory is gone,
\* and so is any part of its outgoing calls; PostgreSQL keeps what is prepared.
CrashRestart(n) ==
  /\ Fault
  /\ task' = [task EXCEPT ![n] = "absent"]
  /\ xact' = [xact EXCEPT ![n] = Unknown]
  /\ chan' = [chan EXCEPT ![n] = <<>>]
  /\ remoteRx' = [remoteRx EXCEPT ![n] = <<>>]
  /\ localRx' = IF n = Coordinator THEN <<>> ELSE localRx
  /\ \E lost \in SUBSET CallsOf(n) : net' = net \ lost
  /\ DropCommitTx(n)
  /\ UNCHANGED <<pg, ballot, cause>>

FaultStep(n) ==
  \/ DecodeError(n)
  \/ ExecuteAnswerLost(n)
  \/ RpcError(n)
  \/ FinishError(n)
  \/ CrashRestart(n)

----------------------------------------------------------------------------
Next ==
  \/ Submit
  \/ ManagerLocal
  \/ \E m \in net : Deliver(m)
  \/ \E n \in Node : ManagerRemote(n) \/ TaskStep(n) \/ FaultStep(n)

Spec == Init /\ [][Next]_vars

\* tokio runs every task that is ready, and an RPC that does not fail reaches
\* its server.  Nothing obliges PostgreSQL to submit a transaction.
Fairness ==
  /\ WF_vars(ManagerLocal)
  /\ \A m \in Message : WF_vars(Deliver(m))
  /\ \A n \in Node : WF_vars(ManagerRemote(n)) /\ WF_vars(TaskStep(n))

FairSpec == Spec /\ Fairness

----------------------------------------------------------------------------
(* Safety.  All of it is meant to hold with any number of failures.        *)

Surrogates == Participants \ {Coordinator}

Committed(n) == pg[n] = "committed" \/ (n = Coordinator /\ client.state = "committed")
Aborted(n) == pg[n] = "aborted" \/ (n = Coordinator /\ client.state = "rollbacked")

\* No region commits the transaction while another one, or the PostgreSQL that
\* submitted it, is told to roll it back: each task decides alone from the votes
\* it gets (state.rs add_vote), some of them before it has seen the Prepare.  An
\* "error" at the client tells it neither outcome.
Agreement == \A m, n \in Node : ~(Committed(m) /\ Aborted(n))

\* Whenever the transaction is committed anywhere, every surrogate has prepared
\* it and none has rolled it back, so the commit can be completed everywhere
\* whatever has failed (controller.rs execute and commit).
CommitIsPrepared ==
  (\E n \in Node : Committed(n)) => \A n \in Surrogates : pg[n] \in {"prepared", "committed"}

\* A rollback is never invented: the node that a RollbackInfo names has voted no,
\* and the reason, which nodes pass on in their own votes (manager.rs
\* handle_prepare_msg), is the error of some participant's execution.
RollbackHasCause ==
  \A i \in {client.info} \cup {xact[n].info : n \in Node} :
    i # NoInfo => /\ i.by \in Surrogates
                  /\ cause[i.by] # None \/ ballot[i.by] = "no"
                  /\ \E m \in Surrogates : cause[m] = i.reason

\* A task ends in an error or a panic only through a failure outside it: the
\* ensure! of add_vote, the assert_eq! of handle_local_xact_msg, both
\* unreachable!() of xact.rs and a COMMIT PREPARED of an unprepared transaction
\* are never hit, in whatever order the messages arrive.
ErrorsAreFaults ==
  Cardinality({n \in Node : task[n] \in {"failed", "panicked"}}) <= faults

\* A client that waits has a live task, or a message to start one, that holds its
\* commit_tx: no error path of the coordinator leaves the connection waiting on
\* nothing (watcher.rs process_query).
ClientIsServed ==
  client.state = "waiting" => localRx # <<>> \/ task[Coordinator] \in Running

\* The one-participant case of the unit test test_1_participant (state.rs): the
\* transaction is committed, so the coordinator's task does not panic.
LoneParticipantCommits ==
  Participants = {Coordinator} => task[Coordinator] # "panicked"

\* No node votes twice, not even when it is restarted: what a vote said when it
\* was sent stays true (manager.rs handle_prepare_msg).
VoteOnce == [][\A n \in Node : ballot[n] # "unset" => ballot'[n] = ballot[n]]_vars

----------------------------------------------------------------------------
(* Refinement of AtomicCommit.                                             *)

\* The region of a surrogate is as far as its PostgreSQL; the submitting region
\* has prepared when it submits, and is as far as its watcher was told.
RegionState(n) ==
  IF n = Coordinator
    THEN [idle |-> "working", waiting |-> "prepared", committed |-> "committed",
          rollbacked |-> "aborted", error |-> "indoubt"][client.state]
    ELSE IF pg[n] = "none" THEN "working" ELSE pg[n]

AC == INSTANCE AtomicCommit
        WITH RM <- Participants \cup {Coordinator},
             Submitter <- Coordinator,
             rmState <- [n \in Participants \cup {Coordinator} |-> RegionState(n)],
             refused <- {n \in Node : cause[n] # None}

\* The protocol, failures included, implements atomic commitment: every decision
\* of a task (state.rs add_vote, try_finish) is one that AtomicCommit allows.
ImplementsAtomicCommit == AC!Spec

----------------------------------------------------------------------------
(* Liveness, for FairSpec with MaxFaults = 0.                              *)

Resolved ==
  /\ client.state \in {"committed", "rollbacked"}
  /\ \A n \in Surrogates : pg[n] \in {"committed", "aborted"}
  /\ \A n \in Node : task[n] \notin Running

\* Without failures every submitted transaction is decided at all participants,
\* nothing stays prepared, and no late vote brings a task back to life.
EventuallyResolved == client.state = "waiting" ~> []Resolved
=============================================================================
