---------------------------- MODULE XactServerInv ----------------------------
(***************************************************************************)
(* The inductive invariant behind the safety properties of XactServer.     *)
(* Agreement rests on three facts that survive any failure: a message is   *)
(* true to the history of its sender, a node gets its Prepare at most      *)
(* once, and so casts at most one vote.                                    *)
(***************************************************************************)
EXTENDS XactServer

AllYes == \A s \in Surrogates : ballot[s] = "yes"
SomeNo == \E s \in Surrogates : ballot[s] = "no"

\* The reason is the error of some participant's execution.
RealReason(r) == r \in Reason /\ \E s \in Surrogates : cause[s] = r

\* A vote, sent or kept, says what its sender's ballot says.
TrueVote(from, r) ==
  /\ from \in Surrogates
  /\ r = None => ballot[from] = "yes"
  /\ r # None => ballot[from] = "no" /\ RealReason(r)

\* What any message to node n, wherever it is, guarantees.
TrueMessage(m, n) ==
  /\ m.to = n
  /\ m.type = "Vote" => n \in Participants /\ TrueVote(m.from, m.reason)
  /\ m.type = "Prepare" => m.from = Coordinator /\ m.reason = None /\ n \in Surrogates
  /\ m.type = "LocalXact" => n = Coordinator

TrueMessages ==
  /\ \A m \in net : m.type # "LocalXact" /\ TrueMessage(m, m.to)
  /\ \A n \in Node : \A i \in 1..Len(remoteRx[n]) :
       remoteRx[n][i].type # "LocalXact" /\ TrueMessage(remoteRx[n][i], n)
  /\ \A n \in Node : \A i \in 1..Len(chan[n]) : TrueMessage(chan[n][i], n)
  /\ \A n \in Node : \A i \in 1..Len(xact[n].votes) :
       TrueVote(xact[n].votes[i].from, xact[n].votes[i].reason)

----------------------------------------------------------------------------
(* A Prepare for n is in at most one place, and only until n takes it.     *)

PrepareInNet(n) == \E m \in net : m.type = "Prepare" /\ m.to = n
PrepareAt(s) == \E i \in 1..Len(s) : s[i].type = "Prepare"
AtMostOnePrepare(s) ==
  \A i, j \in 1..Len(s) : s[i].type = "Prepare" /\ s[j].type = "Prepare" => i = j

PrepareOnce ==
  \A n \in Node :
    /\ AtMostOnePrepare(remoteRx[n])
    /\ AtMostOnePrepare(chan[n])
    /\ ~(PrepareInNet(n) /\ PrepareAt(remoteRx[n]))
    /\ ~(PrepareInNet(n) /\ PrepareAt(chan[n]))
    /\ ~(PrepareAt(remoteRx[n]) /\ PrepareAt(chan[n]))
    /\ PrepareInNet(n) \/ PrepareAt(remoteRx[n]) \/ PrepareAt(chan[n])
         => /\ xact[n].kind = "unknown"
            /\ pg[n] = "none"
            /\ ballot[n] = "unset"
            /\ cause[n] = None

\* Until the coordinator sends, nothing has happened outside it.
NothingSent ==
  /\ net = {}
  /\ \A n \in Node :
       /\ remoteRx[n] = <<>>
       /\ xact[n].kind # "surrogate"
       /\ xact[n].votes = <<>>
       /\ pg[n] = "none"
       /\ ballot[n] = "unset"
       /\ cause[n] = None
       /\ n # Coordinator => chan[n] = <<>>

\* Where the one LocalXact message can be before that.
SentOnce ==
  /\ client.state = "idle" =>
       /\ NothingSent
       /\ localRx = <<>>
       /\ chan[Coordinator] = <<>>
       /\ xact[Coordinator].kind = "unknown"
  /\ localRx # <<>> =>
       /\ NothingSent
       /\ Len(localRx) = 1
       /\ localRx[1] = LocalXact
       /\ chan[Coordinator] = <<>>
       /\ xact[Coordinator].kind = "unknown"
  /\ (\E i \in 1..Len(chan[Coordinator]) : chan[Coordinator][i].type = "LocalXact") =>
       /\ NothingSent
       /\ localRx = <<>>
       /\ Len(chan[Coordinator]) = 1
       /\ xact[Coordinator].kind = "unknown"
  /\ xact[Coordinator].kind = "local" /\ task[Coordinator] = "existing" =>
       /\ NothingSent
       /\ localRx = <<>>
       /\ chan[Coordinator] = <<>>

----------------------------------------------------------------------------
(* The state of a task agrees with the votes cast.                         *)

\* The node's own vote is in xact[n] before the node sends it.
TrueYes(n, v) ==
  \/ v = Coordinator
  \/ v \in Surrogates /\ ballot[v] = "yes"
  \/ v = n /\ n \in Surrogates /\ task[n] = "existing" /\ cause[n] = None

TrueNo(n) ==
  /\ RealReason(xact[n].info.reason)
  /\ xact[n].info.by \in Surrogates
  /\ \/ ballot[xact[n].info.by] = "no"
     \/ /\ xact[n].info.by = n
        /\ cause[n] = xact[n].info.reason
        /\ task[n] \in Running => task[n] = "existing"

TaskMatchesVotes ==
  \A n \in Node :
    /\ task[n] \in Running /\ xact[n].status \notin {"Rollbacking", "Rollbacked"} =>
         \A v \in xact[n].voted : TrueYes(n, v)
    /\ xact[n].status \in {"Committing", "Committed"} => xact[n].voted = Participants
    /\ xact[n].status \in {"Rollbacking", "Rollbacked"} => TrueNo(n)
    /\ xact[n].status \notin {"Rollbacking", "Rollbacked"} => xact[n].info = NoInfo
    /\ xact[n].kind = "unknown" => xact[n].status = "Uninitialized" /\ xact[n].voted = {}
    /\ xact[n].kind = "local" => n = Coordinator
    /\ xact[n].kind = "surrogate" => n \in Surrogates

TaskMatchesLabel ==
  \A n \in Node :
    /\ task[n] = "absent" => xact[n].kind = "unknown" /\ xact[n].votes = <<>> /\ chan[n] = <<>>
    /\ task[n] \in {"execute", "existing", "send"} => xact[n].kind # "unknown"
    /\ task[n] = "execute" =>
         /\ xact[n].kind = "surrogate"
         /\ xact[n].status = "Waiting"
         /\ xact[n].voted \subseteq {Coordinator}
         /\ pg[n] = "none" /\ ballot[n] = "unset" /\ cause[n] = None
    /\ task[n] = "existing" /\ xact[n].kind = "surrogate" =>
         /\ ballot[n] = "unset"
         /\ pg[n] \in {"prepared", "aborted"}
         /\ cause[n] = None => pg[n] = "prepared"
         /\ cause[n] # None => xact[n].status = "Rollbacking"
    /\ task[n] \in {"recv", "send", "finish"} /\ xact[n].kind = "surrogate" =>
         /\ ballot[n] # "unset"
         /\ xact[n].status \in {"Waiting", "Committing"} => ballot[n] = "yes" /\ pg[n] = "prepared"
    /\ xact[n].status \in {"Committed", "Rollbacked"} => task[n] \in Stopped

\* What PostgreSQL and the client were told follows from the ballots.
OutcomeMatchesVotes ==
  /\ \A n \in Node :
       /\ pg[n] # "none" => n \in Surrogates
       /\ ballot[n] # "unset" => n \in Surrogates
       /\ cause[n] # None => ballot[n] # "yes"
       /\ ballot[n] = "yes" => pg[n] # "none"
       /\ ballot[n] = "no" => \E s \in Surrogates : cause[s] # None
       /\ pg[n] = "committed" => AllYes
       /\ pg[n] = "aborted" => cause[n] # None \/ SomeNo
  /\ client.state = "committed" => AllYes
  /\ client.state = "rollbacked" => SomeNo
  /\ client.info # NoInfo => client.state = "rollbacked"
  /\ client.info # NoInfo => /\ client.info.by \in Surrogates
                             /\ ballot[client.info.by] = "no"
                             /\ RealReason(client.info.reason)

IInv ==
  /\ TypeOK
  /\ TrueMessages
  /\ PrepareOnce
  /\ SentOnce
  /\ TaskMatchesVotes
  /\ TaskMatchesLabel
  /\ OutcomeMatchesVotes

----------------------------------------------------------------------------
(* What IInv does not need, and the refinement of AtomicCommit and the     *)
(* absence of errors do.                                                   *)

LocalXactAt(s) == \E i \in 1..Len(s) : s[i].type = "LocalXact"

\* The commit_tx of a client that waits is in the local_rx, in the channel of the
\* coordinator's task or with that task, and nowhere once it was answered.
ClientMatchesTask ==
  /\ localRx # <<>> => client.state = "waiting"
  /\ LocalXactAt(chan[Coordinator]) => client.state = "waiting"
  /\ xact[Coordinator].kind = "local" /\ task[Coordinator] \in Running =>
       client.state = "waiting"
  /\ ClientIsServed

\* Only a surrogate executes, so only a surrogate has an error of its own.
OnlySurrogatesRefuse == \A n \in Node : cause[n] # None => n \in Surrogates

\* Where a vote of v for n can be: on its way, at n's server, in the channel of
\* n's task, or kept by that task until it learns of the transaction.
IsVoteOf(m, v) == m.type = "Vote" /\ m.from = v
VoteInNet(n, v) == \E m \in net : m.to = n /\ IsVoteOf(m, v)
VoteAt(s, v) == \E i \in 1..Len(s) : IsVoteOf(s[i], v)
VoteKept(s, v) == \E i \in 1..Len(s) : s[i].from = v
AtMostOneVote(s, v) ==
  \A i, j \in 1..Len(s) : IsVoteOf(s[i], v) /\ IsVoteOf(s[j], v) => i = j
AtMostOneKept(s, v) ==
  \A i, j \in 1..Len(s) : s[i].from = v /\ s[j].from = v => i = j

\* A vote of v for n is in at most one place, once, and gone when it is counted;
\* a vote that is counted was sent, unless it is the node's own or assumed.
VoteArrivesOnce(n, v) ==
  /\ \A m, o \in net : m.to = n /\ o.to = n /\ IsVoteOf(m, v) /\ IsVoteOf(o, v) => m = o
  /\ AtMostOneVote(remoteRx[n], v)
  /\ AtMostOneVote(chan[n], v)
  /\ AtMostOneKept(xact[n].votes, v)
  /\ VoteInNet(n, v) => ~VoteAt(remoteRx[n], v)
  /\ VoteInNet(n, v) \/ VoteAt(remoteRx[n], v) => ~VoteAt(chan[n], v)
  /\ VoteInNet(n, v) \/ VoteAt(remoteRx[n], v) \/ VoteAt(chan[n], v) =>
       ~VoteKept(xact[n].votes, v)
  /\ VoteInNet(n, v) \/ VoteAt(remoteRx[n], v) \/ VoteAt(chan[n], v)
       \/ VoteKept(xact[n].votes, v) => v \notin xact[n].voted /\ v # n
  /\ v \in xact[n].voted => v \in {n, Coordinator} \/ ballot[v] # "unset"

VotesArriveOnce == \A n, v \in Node : VoteArrivesOnce(n, v)

\* The coordinator's own vote decides nothing, unless there is no other.
LocalWaits ==
  Participants # {Coordinator} =>
    \A n \in Node : xact[n].kind = "local" /\ task[n] = "existing" =>
                      xact[n].status = "Waiting"

SInv ==
  /\ IInv
  /\ ClientMatchesTask
  /\ OnlySurrogatesRefuse
  /\ VotesArriveOnce
  /\ LocalWaits
=============================================================================
