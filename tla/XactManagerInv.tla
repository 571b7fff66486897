--------------------------- MODULE XactManagerInv ---------------------------
(***************************************************************************)
(* The inductive invariant behind the safety properties of XactManager.    *)
(* What belongs to a transaction carries its id; a transaction is sent,    *)
(* executed and voted on at most once at each node, whatever is restarted; *)
(* and while its id is its own, all that is kept under the id is true to   *)
(* what its executions returned.                                           *)
(***************************************************************************)
EXTENDS XactManager

\* The task of an id: one that is not in the map is as good as new.
TaskAt(n, i) == IF i \in Ids(n) THEN tasks[n][i] ELSE NewTask(n)

InChan(m, n, i) == \E k \in 1..Len(TaskAt(n, i).chan) : TaskAt(n, i).chan[k] = m

\* m is on its way, or in a channel.
Around(m) == m \in net \/ InChan(m, m.to, m.id)

----------------------------------------------------------------------------
(* Ids.                                                                    *)

\* A Manager that was never restarted gives each id once.
IdsGivenOnce ==
  /\ \A x \in Submitted : Home(x) \notin restarted => idOf[x][1] <= counter[Home(x)]
  /\ \A x, y \in Submitted : idOf[x] = idOf[y] /\ x # y => Home(x) \in restarted

\* Nothing is known of a transaction before it is submitted.
IdleIsUnknown ==
  \A x \in Xact :
    /\ client[x] = "idle" <=> x \notin Submitted
    /\ x \notin Submitted =>
         \A n \in Node : executed[n][x] = "none" /\ outcome[n][x] = "none"

\* A message is of a transaction with its id, and goes where such messages go.
GoodMsg(m) ==
  /\ idOf[m.of] = m.id
  /\ m.type = "LocalXact" => m.from = m.id[2] /\ m.to = m.id[2]
  /\ m.type = "Prepare" => m.from = m.id[2] /\ m.to # m.id[2]
  /\ m.type = "Vote" => m.from # m.id[2] /\ m.to # m.from

GoodMsgs ==
  /\ \A m \in net : GoodMsg(m) /\ m.type # "LocalXact"
  /\ \A n \in Node : \A i \in Id : \A k \in 1..Len(TaskAt(n, i).chan) :
       LET m == TaskAt(n, i).chan[k] IN GoodMsg(m) /\ m.to = n /\ m.id = i

GoodXact(n, t) ==
  /\ t.xact.kind = "unknown" =>
       /\ t.of = None /\ t.at \in {"recv", "stopped"}
       /\ t.xact.status = "Uninitialized" /\ t.xact.voted = {}
  /\ t.at \in {"execute", "existing"} =>
       t.xact.status \in {"Waiting", "Committing", "Rollbacking"}
  /\ t.at = "finish" => t.xact.status \in {"Committing", "Rollbacking"}
  /\ t.xact.status \in {"Committing", "Committed"} => t.xact.voted = Node
  /\ t.xact.status = "Rollbacking" => t.xact.info.reason # None
  /\ t.at = "execute" => t.xact.kind = "surrogate"
  /\ t.at = "existing" /\ t.xact.kind = "surrogate" =>     \* the own vote counts first
       \/ n \in t.xact.voted \/ t.xact.status = "Rollbacking"
       \/ t.xact.votes # <<>> /\ Head(t.xact.votes).from = n

GoodTask(n, i, t) ==
  /\ GoodXact(n, t)
  /\ t.xact.kind # "unknown" => t.of \in Submitted /\ idOf[t.of] = i
  /\ t.xact.kind = "local" => n = i[2]
  /\ t.xact.kind = "surrogate" => n # i[2]

GoodTasks ==
  \A n \in Node :
    /\ \A i \in Ids(n) : \E x \in Submitted : idOf[x] = i
    /\ \A i \in Id : GoodTask(n, i, TaskAt(n, i))

GoodPrepared ==
  \A n \in Node : \A i \in DOMAIN prepared[n] :
    prepared[n][i] \in Submitted /\ idOf[prepared[n][i]] = i

----------------------------------------------------------------------------
(* At most once.                                                           *)

SameCall(a, b) == a.type = b.type /\ a.of = b.of /\ a.from = b.from

Distinct(s) == \A j, k \in 1..Len(s) : SameCall(s[j], s[k]) => j = k

\* No message is in two places.
NoTwins ==
  /\ \A n \in Node : \A i \in Id : Distinct(TaskAt(n, i).chan)
  /\ \A m \in net : \A k \in 1..Len(TaskAt(m.to, m.id).chan) :
       ~SameCall(m, TaskAt(m.to, m.id).chan[k])
  /\ \A a, b \in net : SameCall(a, b) /\ a.to = b.to => a = b

\* The coordinator has not sent the transaction yet.
Unsent(x) ==
  \/ \E m \in Msg : Around(m) /\ m.of = x /\ m.type = "LocalXact"
  \/ LET t == TaskAt(Home(x), idOf[x]) IN
     t.of = x /\ t.xact.kind = "local" /\ t.at = "existing"

SentOnce(x) ==
  /\ Unsent(x) =>
       /\ \A m \in Msg : Around(m) /\ m.of = x => m.type = "LocalXact"
       /\ \A n \in Node \ {Home(x)} :
            TaskAt(n, idOf[x]).of # x /\ executed[n][x] = "none"
  /\ \A m \in Msg : Around(m) /\ m.of = x /\ m.type = "LocalXact" =>
       TaskAt(Home(x), idOf[x]).of # x

\* The node has not executed the transaction yet, or has not voted yet.
ExecutedOnce(x, n) ==
  LET t == TaskAt(n, idOf[x]) IN
  /\ \A m \in Msg : Around(m) /\ m.of = x /\ m.type = "Prepare" /\ m.to = n =>
       executed[n][x] = "none" /\ t.of # x
  /\ t.of = x /\ t.at = "execute" => executed[n][x] = "none"

VotesOf(x, n) == {m \in Msg : Around(m) /\ m.of = x /\ m.type = "Vote" /\ m.from = n}

VotedOnce(x, n) ==
  LET t == TaskAt(n, idOf[x]) IN
  /\ VotesOf(x, n) # {} => executed[n][x] # "none"
  /\ t.of = x /\ t.xact.kind = "surrogate" /\ t.at = "existing" =>
       executed[n][x] # "none" /\ VotesOf(x, n) = {}

Once(x) == SentOnce(x) /\ \A n \in Node : ExecutedOnce(x, n) /\ VotedOnce(x, n)

AtMostOnce == \A x \in Submitted : Once(x)

----------------------------------------------------------------------------
(* Truth.                                                                  *)

Sole(x) == \A y \in Submitted : idOf[y] = idOf[x] => y = x

SomeError(x) == \E n \in Node \ {Home(x)} : executed[n][x] = "error"
AllOk(x) == \A n \in Node \ {Home(x)} : executed[n][x] = "ok"

TrueVote(x, n, r) ==
  /\ r = None => executed[n][x] = "ok"
  /\ r # None => SomeError(x)

TrueState(x, y) ==
  /\ \A k \in 1..Len(y.votes) : TrueVote(x, y.votes[k].from, y.votes[k].reason)
  /\ \A n \in y.voted : n = Home(x) \/ executed[n][x] = "ok"
  /\ y.status \in {"Rollbacking", "Rollbacked"} => SomeError(x)

TrueOutcome(x) ==
  /\ Committed(x) => AllOk(x)
  /\ Aborted(x) => SomeError(x)
  /\ \A n \in Node : executed[n][x] = "ok" =>
       \/ outcome[n][x] # "none"
       \/ idOf[x] \in DOMAIN prepared[n] /\ prepared[n][idOf[x]] = x

TrueAbout(x) ==
  /\ \A m \in Msg : Around(m) /\ m.of = x /\ m.type = "Vote" => TrueVote(x, m.from, m.reason)
  /\ \A n \in Node : TrueState(x, TaskAt(n, idOf[x]).xact)
  /\ TrueOutcome(x)

Truth == \A x \in Submitted : Sole(x) => TrueAbout(x)

MInv ==
  /\ TypeOK /\ IdsGivenOnce /\ IdleIsUnknown /\ GoodMsgs /\ GoodTasks
  /\ GoodPrepared /\ NoTwins /\ AtMostOnce /\ Truth
=============================================================================
