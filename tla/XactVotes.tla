----------------------------- MODULE XactVotes -----------------------------
(***************************************************************************)
(* One XactState on its own, given any votes in any order: early, late,    *)
(* repeated, contradictory or from nodes that take no part.  XactServer    *)
(* shows that honest peers never send most of these; here add_vote and     *)
(* initialize (xactserver/src/xact/state.rs) are compared with a reference *)
(* that says which vote decides a transaction.                             *)
(***************************************************************************)
EXTENDS XactState

CONSTANT MaxVotes   \* bound on the number of votes that arrive
ASSUME MaxVotesAssumption == MaxVotes \in Nat

VARIABLES
  xstate,    \* the XactType
  existing,  \* the votes that initialize has yet to count, in order
  log,       \* history: the votes add_vote was called with since initialize
  arrived,   \* number of votes that have arrived from other nodes
  failed     \* some call has returned an error

voteVars == <<xstate, existing, log, arrived, failed>>

VotesInit ==
  /\ xstate = Unknown
  /\ existing = <<>> /\ log = <<>>
  /\ arrived = 0
  /\ failed = FALSE

\* A call of XactState::add_vote.
Count(v) ==
  /\ xstate' = IF MayAddVote(xstate) THEN AddVote(xstate, v) ELSE xstate
  /\ failed' = ~MayAddVote(xstate)
  /\ log' = Append(log, v)

\* XactState::initialize, called from init_as_local at the coordinator or from
\* init_as_surrogate elsewhere: the votes it is going to count, in order.
Initialize(n, r) ==
  /\ xstate.kind = "unknown"
  /\ n = Coordinator => r = None
  /\ xstate' = [Initialized(xstate, IF n = Coordinator THEN "local" ELSE "surrogate")
                  EXCEPT !.votes = <<>>]
  /\ existing' = IF n = Coordinator THEN <<YesVote(n)>> \o xstate.votes
                 ELSE <<YesVote(Coordinator), VoteOf(n, r)>> \o xstate.votes
  /\ UNCHANGED <<log, arrived, failed>>

\* Its loop, which nothing interrupts but an error.
CountExisting ==
  /\ existing # <<>>
  /\ Count(Head(existing)) /\ existing' = Tail(existing)
  /\ UNCHANGED arrived

\* XactType::add_vote.
ReceiveVote(v) ==
  /\ existing = <<>>
  /\ arrived < MaxVotes /\ arrived' = arrived + 1
  /\ IF xstate.kind = "unknown"
       THEN xstate' = KeepVote(xstate, v) /\ UNCHANGED <<log, failed>>
       ELSE Count(v)
  /\ UNCHANGED existing

\* XactType::try_finish.
TryFinish ==
  /\ existing = <<>>
  /\ xstate.status \in {"Committing", "Rollbacking"}
  /\ xstate' = Finished(xstate)
  /\ UNCHANGED <<existing, log, arrived, failed>>

\* The caller drops the state after an error.
VotesNext ==
  /\ ~failed
  /\ \/ \E n \in Participants : \E r \in Reason \cup {None} : Initialize(n, r)
     \/ CountExisting
     \/ \E v \in Vote : ReceiveVote(v)
     \/ TryFinish

VotesSpec == VotesInit /\ [][VotesNext]_voteVars

----------------------------------------------------------------------------
(* The reference.                                                          *)

\* The i-th vote is a participant's 'no'.
IsNo(i) == log[i].from \in Participants /\ log[i].reason # None

\* Every participant has said 'yes' in the first i votes.
AllSaidYes(i) == \A p \in Participants : \E j \in 1..i : log[j] = YesVote(p)

\* The places at which the transaction can be decided, and the first of them.
Decisive == {i \in 1..Len(log) : IsNo(i) \/ AllSaidYes(i)}
FirstDecisive == CHOOSE i \in Decisive : \A j \in Decisive : i <= j

\* The status, the rollback info and the error are those of the first vote that
\* decides: a 'no' wins whatever comes after it, a complete set of 'yes' makes
\* any later vote an error, and nothing else matters (state.rs add_vote).
FirstVoteDecides ==
  xstate.kind # "unknown" =>
    IF Decisive = {}
      THEN xstate.status = "Waiting" /\ xstate.info = NoInfo /\ ~failed
    ELSE IF IsNo(FirstDecisive)
      THEN /\ xstate.status \in {"Rollbacking", "Rollbacked"}
           /\ xstate.info = [by |-> log[FirstDecisive].from,
                             reason |-> log[FirstDecisive].reason]
           /\ ~failed
    ELSE /\ xstate.status \in {"Committing", "Committed"}
         /\ failed <=> FirstDecisive < Len(log)

\* A decision is final: no later vote, finished or not, turns a commit into a
\* rollback, a rollback into a commit, or changes who caused it (state.rs
\* add_vote and try_finish).
DecisionIsFinal ==
  [][/\ xstate.status \in {"Committing", "Committed"} =>
          xstate'.status \in {"Committing", "Committed"}
     /\ xstate.status \in {"Rollbacking", "Rollbacked"} =>
          xstate'.status \in {"Rollbacking", "Rollbacked"} /\ xstate'.info = xstate.info
     /\ xstate.status \in Terminal => xstate'.status = xstate.status]_voteVars
=============================================================================
