----------------------------- MODULE XactManager -----------------------------
(***************************************************************************)
(* Several transactions and their ids (xactserver/src/manager.rs, id.rs,   *)
(* pg/controller.rs).  XactServer follows one transaction; here every node *)
(* may submit transactions, its Manager numbers them with a counter that   *)
(* starts again when the server does, and messages, tasks and prepared     *)
(* transactions are found by this number alone.                            *)
(*                                                                         *)
(* All nodes take part in every transaction.  What XactServer tells apart  *)
(* and ids do not concern is merged: the gRPC server, remote_rx and the    *)
(* Manager are one step (Deliver), and the failures are a call that fails  *)
(* and a server that is restarted.  The field "of" of messages and tasks   *)
(* says which transaction is meant; no action decides by it, except that   *)
(* a call belongs to the task that made it.                                *)
(***************************************************************************)
EXTENDS Naturals, Sequences, FiniteSets

CONSTANTS
  Node,        \* the xactservers
  Xact,        \* the transactions that clients may submit
  None,
  MaxFaults    \* bound: failed calls and restarts

Error == "error"

ASSUME FiniteAssumption == IsFiniteSet(Node) /\ IsFiniteSet(Xact)
ASSUME NoneIsNothing == None \notin Node \cup Xact \cup {Error} \cup (Nat \X Node)
ASSUME FaultsAssumption == MaxFaults \in Nat

VARIABLES
  counter,     \* xact_id_counter of each Manager
  tasks,       \* xact_state_managers of each Manager, from ids to tasks
  net,         \* the messages of calls on their way
  prepared,    \* external: pg_prepared_xacts of each node, from gids to transactions
  executed,    \* history: what execute() returned at a node for a transaction
  outcome,     \* history: what the PostgreSQL of a node did with a transaction
  client,      \* what the client of a transaction was told
  idOf,        \* history: the id of each transaction that was submitted
  restarted,   \* history: the nodes that were restarted
  faults

vars == <<counter, tasks, net, prepared, executed, outcome, client, idOf, restarted, faults>>

\* The state of a transaction with coordinator c.
S(c) == INSTANCE XactState
          WITH Coordinator <- c, Participants <- Node, Reason <- {Error}

\* A slip: ids that do not tell nodes apart.
IdOfCounter(k, n) == <<k, CHOOSE m \in Node : TRUE>>
XactId(k, n) == <<k, n>>

Id == Nat \X Node

Msg == [type : {"LocalXact", "Prepare", "Vote"}, id : Id, of : Xact,
        from : Node, to : Node, reason : {None, Error}]

Message(type, id, x, from, to, r) ==
  [type |-> type, id |-> id, of |-> x, from |-> from, to |-> to, reason |-> r]

Task(n) == [at : {"recv", "execute", "existing", "send", "finish", "stopped"},
            of : Xact \cup {None}, xact : S(n)!XactType, chan : Seq(Msg)]

\* XactStateManager::new: nothing is known of the transaction.
NewTask(n) == [at |-> "recv", of |-> None, xact |-> S(n)!Unknown, chan |-> <<>>]

Init ==
  /\ counter = [n \in Node |-> 0]
  /\ tasks = [n \in Node |-> <<>>]
  /\ net = {}
  /\ prepared = [n \in Node |-> <<>>]
  /\ executed = [n \in Node |-> [x \in Xact |-> "none"]]
  /\ outcome = [n \in Node |-> [x \in Xact |-> "none"]]
  /\ client = [x \in Xact |-> "idle"]
  /\ idOf = [x \in Xact |-> None]
  /\ restarted = {} /\ faults = 0

----------------------------------------------------------------------------
\* f with i mapped to v, whether i is in its domain or not.
With(f, i, v) == [j \in DOMAIN f \cup {i} |-> IF j = i THEN v ELSE f[j]]
Without(f, i) == [j \in DOMAIN f \ {i} |-> f[j]]

Ids(n) == DOMAIN tasks[n]
SetTask(n, i, t) == tasks' = [tasks EXCEPT ![n] = With(@, i, t)]

\* The task's loop ends; its entry in the map stays.
Stopped(t) == [t EXCEPT !.at = "stopped", !.chan = <<>>]

\* Dropping a commit_tx that was not used: an error at the client.
Dropped(X) == client' = [x \in Xact |->
                           IF x \in X /\ client[x] = "waiting" THEN "error" ELSE client[x]]

Abandon(n, i) ==
  /\ SetTask(n, i, Stopped(tasks[n][i]))
  /\ Dropped({x \in {tasks[n][i].of} : tasks[n][i].xact.kind = "local"})

\* Manager::process_message, once the id is known: the task of that id gets the
\* message, and is created if the map has none.
Dispatch(n, m) ==
  LET t == IF m.id \in Ids(n) THEN tasks[n][m.id] ELSE NewTask(n) IN
  SetTask(n, m.id, IF t.at = "stopped" THEN t ELSE [t EXCEPT !.chan = Append(@, m)])

\* The watcher passes a transaction on, and the Manager numbers it.
Submit(n, x) ==
  /\ client[x] = "idle"
  /\ LET i == XactId(counter[n] + 1, n) IN
     /\ counter' = [counter EXCEPT ![n] = @ + 1]
     /\ idOf' = [idOf EXCEPT ![x] = i]
     /\ Dispatch(n, Message("LocalXact", i, x, n, n, None))
     /\ client' = [client EXCEPT
          ![x] = IF i \in Ids(n) /\ tasks[n][i].at = "stopped" THEN "error" ELSE "waiting"]
  /\ UNCHANGED <<net, prepared, executed, outcome, restarted, faults>>

\* A call reaches its server, and the message the task.
Deliver(m) ==
  /\ net' = net \ {m}
  /\ Dispatch(m.to, m)
  /\ UNCHANGED <<counter, prepared, executed, outcome, client, idOf, restarted, faults>>

----------------------------------------------------------------------------
\* A slip: a node calls itself as well.
AllNodes(n) == Node
\* send_to_all_but_me.
Others(n) == Node \ {n}

Receives(n, i, type) ==
  /\ tasks[n][i].at = "recv"
  /\ tasks[n][i].chan # <<>> /\ Head(tasks[n][i].chan).type = type

\* handle_local_xact_msg up to the loop over early votes.
HandleLocalXact(n, i) ==
  /\ Receives(n, i, "LocalXact")
  /\ LET t == tasks[n][i]
         m == Head(t.chan)
     IN  IF t.xact.kind = "unknown"
           THEN /\ SetTask(n, i, [t EXCEPT !.at = "existing", !.of = m.of, !.chan = Tail(@),
                                           !.xact = S(n)!InitAsLocal(@)])
                /\ UNCHANGED client
           ELSE SetTask(n, i, Stopped(t)) /\ Dropped({m.of, t.of})   \* a panic
  /\ UNCHANGED <<counter, net, prepared, executed, outcome, idOf, restarted, faults>>

\* handle_prepare_msg up to the execution; a second Prepare is a panic.
HandlePrepare(n, i) ==
  /\ Receives(n, i, "Prepare")
  /\ LET t == tasks[n][i]
         m == Head(t.chan)
     IN  IF t.xact.kind = "unknown"
           THEN /\ SetTask(n, i, [t EXCEPT !.at = "execute", !.of = m.of, !.chan = Tail(@),
                                           !.xact = S(m.from)!InitAsSurrogate(@)])
                /\ UNCHANGED client
           ELSE Abandon(n, i)
  /\ UNCHANGED <<counter, net, prepared, executed, outcome, idOf, restarted, faults>>

\* A slip: an error of the execution is not voted.
VoteYes(n, r) == S(n)!YesVote(n)
OwnVote(n, r) == S(n)!VoteOf(n, r)

OwnFirst(x, v) == [x EXCEPT !.votes = <<v>> \o @]

\* execute, and the own vote, which is counted before the early ones.  PREPARE
\* TRANSACTION fails when its gid is in use.
Execute(n, i) ==
  /\ tasks[n][i].at = "execute"
  /\ LET t == tasks[n][i] IN
     \E r \in {None, Error} :
       /\ r = None => i \notin DOMAIN prepared[n]
       /\ prepared' = IF r = None THEN [prepared EXCEPT ![n] = With(@, i, t.of)] ELSE prepared
       /\ executed' = [executed EXCEPT ![n][t.of] = IF r = None THEN "ok" ELSE "error"]
       /\ outcome' = IF r = None THEN outcome ELSE [outcome EXCEPT ![n][t.of] = "aborted"]
       /\ SetTask(n, i, [t EXCEPT !.at = "existing", !.xact = OwnFirst(@, OwnVote(n, r))])
  /\ UNCHANGED <<counter, net, client, idOf, restarted, faults>>

\* One iteration of initialize's loop; a vote after the decision to commit is
\* an error.
AddExisting(n, i) ==
  /\ tasks[n][i].at = "existing" /\ tasks[n][i].xact.votes # <<>>
  /\ LET t == tasks[n][i] IN
     IF S(n)!MayAddVote(t.xact)
       THEN /\ SetTask(n, i, [t EXCEPT !.xact = S(n)!AddExistingVote(@)])
            /\ UNCHANGED client
       ELSE Abandon(n, i)
  /\ UNCHANGED <<counter, net, prepared, executed, outcome, idOf, restarted, faults>>

Initialized(n, i, kind) ==
  /\ tasks[n][i].at = "existing" /\ tasks[n][i].xact.votes = <<>>
  /\ tasks[n][i].xact.kind = kind

\* The rest of handle_local_xact_msg: the transaction must still wait.
SendPrepare(n, i) ==
  /\ Initialized(n, i, "local")
  /\ LET t == tasks[n][i] IN
     IF t.xact.status = "Waiting"
       THEN /\ SetTask(n, i, [t EXCEPT !.at = "send"])
            /\ net' = net \cup {Message("Prepare", i, t.of, n, p, None) : p \in Others(n)}
            /\ UNCHANGED client
       ELSE Abandon(n, i) /\ UNCHANGED net   \* a panic
  /\ UNCHANGED <<counter, prepared, executed, outcome, idOf, restarted, faults>>

\* handle_prepare_msg once the votes are counted.
SendVote(n, i) ==
  /\ Initialized(n, i, "surrogate")
  /\ LET t == tasks[n][i] IN
     /\ SetTask(n, i, [t EXCEPT !.at = "send"])
     /\ net' = net \cup {Message("Vote", i, t.of, n, p, S(n)!RollbackReason(t.xact))
                           : p \in Others(n)}
  /\ UNCHANGED <<counter, prepared, executed, outcome, client, idOf, restarted, faults>>

CallsOf(n, i) == {m \in net : m.from = n /\ m.id = i /\ m.of = tasks[n][i].of}

Undecided(x) == x.status \notin {"Committing", "Rollbacking"}

\* All calls have returned; a surrogate then tries to finish.
Sent(n, i) ==
  /\ tasks[n][i].at = "send" /\ CallsOf(n, i) = {}
  /\ LET t == tasks[n][i] IN
     SetTask(n, i, [t EXCEPT !.at = IF t.xact.kind = "local" \/ Undecided(t.xact)
                                      THEN "recv" ELSE "finish"])
  /\ UNCHANGED <<counter, net, prepared, executed, outcome, client, idOf, restarted, faults>>

\* handle_vote_msg up to try_finish.
HandleVote(n, i) ==
  /\ Receives(n, i, "Vote")
  /\ LET t == tasks[n][i]
         v == S(n)!VoteOf(Head(t.chan).from, Head(t.chan).reason)
         y == IF t.xact.kind = "unknown" THEN S(n)!KeepVote(t.xact, v)
                                         ELSE S(n)!AddVote(t.xact, v)
     IN  IF S(n)!MayAddVote(t.xact)
           THEN /\ SetTask(n, i, [t EXCEPT !.at = IF Undecided(y) THEN "recv" ELSE "finish",
                                           !.xact = y, !.chan = Tail(@)])
                /\ UNCHANGED client
           ELSE Abandon(n, i)
  /\ UNCHANGED <<counter, net, prepared, executed, outcome, idOf, restarted, faults>>

Decision(t) == IF t.xact.status = "Committing" THEN "committed" ELSE "aborted"

FinishLocal(n, i) ==
  /\ tasks[n][i].at = "finish" /\ tasks[n][i].xact.kind = "local"
  /\ LET t == tasks[n][i] IN
     /\ SetTask(n, i, Stopped([t EXCEPT !.xact = S(n)!Finished(@)]))
     /\ client' = [client EXCEPT ![t.of] = IF @ = "waiting" THEN Decision(t) ELSE @]
  /\ UNCHANGED <<counter, net, prepared, executed, outcome, idOf, restarted, faults>>

\* COMMIT PREPARED, or ROLLBACK PREPARED if pg_prepared_xacts has the gid: either
\* ends whatever transaction is prepared under it.
FinishSurrogate(n, i) ==
  /\ tasks[n][i].at = "finish" /\ tasks[n][i].xact.kind = "surrogate"
  /\ LET t == tasks[n][i] IN
     IF i \in DOMAIN prepared[n]
       THEN /\ outcome' = [outcome EXCEPT ![n][prepared[n][i]] = Decision(t)]
            /\ prepared' = [prepared EXCEPT ![n] = Without(@, i)]
            /\ SetTask(n, i, Stopped([t EXCEPT !.xact = S(n)!Finished(@)]))
       ELSE SetTask(n, i, Stopped(t)) /\ UNCHANGED <<prepared, outcome>>
  /\ UNCHANGED <<counter, net, executed, client, idOf, restarted, faults>>

----------------------------------------------------------------------------
Fault == faults < MaxFaults /\ faults' = faults + 1

\* A call fails; the others are dropped, each before or after it arrives.
RpcError(n, i) ==
  /\ Fault
  /\ tasks[n][i].at = "send"
  /\ \E lost \in SUBSET CallsOf(n, i) : net' = net \ lost
  /\ Abandon(n, i)
  /\ UNCHANGED <<counter, prepared, executed, outcome, idOf, restarted>>

\* A server stops and is started again: Manager::new.
CrashRestart(n) ==
  /\ Fault
  /\ counter' = [counter EXCEPT ![n] = 0]
  /\ tasks' = [tasks EXCEPT ![n] = <<>>]
  /\ \E lost \in SUBSET {m \in net : m.from = n} : net' = net \ lost
  /\ Dropped({x \in Xact : idOf[x] # None /\ idOf[x][2] = n})
  /\ restarted' = restarted \cup {n}
  /\ UNCHANGED <<prepared, executed, outcome, idOf>>

TaskStep(n, i) ==
  \/ HandleLocalXact(n, i) \/ HandlePrepare(n, i) \/ Execute(n, i) \/ AddExisting(n, i)
  \/ SendPrepare(n, i) \/ SendVote(n, i) \/ Sent(n, i) \/ HandleVote(n, i)
  \/ FinishLocal(n, i) \/ FinishSurrogate(n, i) \/ RpcError(n, i)

Next ==
  \/ \E n \in Node, x \in Xact : Submit(n, x)
  \/ \E m \in net : Deliver(m)
  \/ \E n \in Node : CrashRestart(n) \/ \E i \in Ids(n) : TaskStep(n, i)

Spec == Init /\ [][Next]_vars

----------------------------------------------------------------------------
Home(x) == idOf[x][2]
Submitted == {x \in Xact : idOf[x] # None}
Surrogates(x) == Others(Home(x))

\* The only excuse: the coordinator was restarted and gave the id again.
Reused(x) == Home(x) \in restarted /\ \E y \in Submitted \ {x} : idOf[y] = idOf[x]

\* Whose messages node n can get; a lone node has its own only.
Callers(n) == IF Node = {n} THEN Node ELSE Node \ {n}

Committed(x) == client[x] = "committed" \/ \E n \in Node : outcome[n][x] = "committed"
Aborted(x) == client[x] = "aborted" \/ \E n \in Node : outcome[n][x] = "aborted"

\* The type invariant.
TypeOK ==
  /\ counter \in [Node -> Nat]
  /\ DOMAIN tasks = Node
  /\ \A n \in Node : Ids(n) \subseteq Id /\ \A i \in Ids(n) : tasks[n][i] \in Task(n)
  /\ net \subseteq Msg
  /\ DOMAIN prepared = Node
  /\ \A n \in Node :
       DOMAIN prepared[n] \subseteq Id /\ \A i \in DOMAIN prepared[n] : prepared[n][i] \in Xact
  /\ executed \in [Node -> [Xact -> {"none", "ok", "error"}]]
  /\ outcome \in [Node -> [Xact -> {"none", "committed", "aborted"}]]
  /\ client \in [Xact -> {"idle", "waiting", "committed", "aborted", "error"}]
  /\ idOf \in [Xact -> Id \cup {None}]
  /\ restarted \subseteq Node
  /\ faults \in 0..MaxFaults

\* No transaction is committed in one region and rolled back in another, in
\* whatever order transactions of several coordinators and their remains meet
\* under equal counters, unless its own coordinator was restarted and gave its
\* id to another transaction (manager.rs process_message, id.rs).
AgreementUnlessReused ==
  \A x \in Submitted : Committed(x) /\ Aborted(x) => Reused(x)

\* With the same exception, a commit anywhere means that each surrogate has
\* prepared or committed this very transaction, not another one under its gid
\* (controller.rs commit).
CommitIsOfThisXact ==
  \A x \in Submitted : Committed(x) =>
    \/ Reused(x)
    \/ \A n \in Surrogates(x) :
         outcome[n][x] = "committed" \/ \E i \in DOMAIN prepared[n] : prepared[n][i] = x

\* A task's channel never holds more than one message per other participant and
\* transaction of its id: the coordinator's only message to a surrogate is the
\* Prepare, since it casts no vote, a surrogate's is its vote, and no vote can
\* come before the LocalXact is taken.  The channel has room for 100, and the
\* Manager, which serves all transactions, waits while it is full (manager.rs
\* process_message).
ChannelHasRoom ==
  \A n \in Node : \A i \in Ids(n) :
    Len(tasks[n][i].chan)
      <= Cardinality(Callers(n)) * Cardinality({x \in Submitted : idOf[x] = i})
=============================================================================
