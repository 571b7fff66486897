----------------------------- MODULE XactState -----------------------------
(***************************************************************************)
(* The in-memory state that one xactserver keeps for one distributed       *)
(* transaction, and the operations on it (xactserver/src/xact.rs and       *)
(* xactserver/src/xact/state.rs).  The operators are pure: XactServer      *)
(* interleaves them with messages, execution and failures, and XactVotes   *)
(* drives them alone.                                                      *)
(*                                                                         *)
(* A transaction has one Coordinator, the node whose PostgreSQL submitted  *)
(* it, and the set Participants decoded from its read/write set.  Nothing  *)
(* in the code makes the coordinator a participant or asks for a second    *)
(* participant, so neither is assumed here.                                *)
(***************************************************************************)
EXTENDS Naturals, Sequences

CONSTANTS
  Node,          \* the xactservers, one per region
  Coordinator,   \* the node at which the transaction was submitted
  Participants,  \* RWSet::participants()
  Reason,        \* the values of RollbackReason
  None           \* Option::None

ASSUME CoordinatorAssumption == Coordinator \in Node
ASSUME ParticipantsAssumption == Participants \subseteq Node
ASSUME NoneAssumption == None \notin Reason /\ None \notin Node

----------------------------------------------------------------------------
\* A vote is a 'yes' exactly when its rollback reason is not set.
Vote == [from : Node, reason : Reason \cup {None}]

VoteOf(n, r) == [from |-> n, reason |-> r]
YesVote(n) == VoteOf(n, None)

\* RollbackInfo(by, reason): who rolled the transaction back and why.
RollbackInfo == [by : Node \cup {None}, reason : Reason \cup {None}]
NoInfo == [by |-> None, reason |-> None]

----------------------------------------------------------------------------
XactStatus ==
  {"Uninitialized", "Waiting", "Committing", "Rollbacking",
   "Committed", "Rollbacked"}

Terminal == {"Committed", "Rollbacked"}

\* XactType: the state is "unknown" while only votes have arrived, and becomes
\* "local" or "surrogate" when the node learns of the transaction.  The votes
\* that arrived before that are kept, in order, in the field votes.
XactType ==
  [kind : {"unknown", "local", "surrogate"},
   votes : Seq(Vote),
   status : XactStatus,
   info : RollbackInfo,
   voted : SUBSET Node]

Unknown ==
  [kind |-> "unknown", votes |-> <<>>, status |-> "Uninitialized",
   info |-> NoInfo, voted |-> {}]

----------------------------------------------------------------------------
\* The ensure! at the top of XactState::add_vote.  A vote that arrives while
\* this is false is an error, which stops the task that handles it.
MayAddVote(x) == x.status \notin {"Committing", "Committed"}

\* A slip: the transaction is committed one vote early.
AddVoteOneShort(x, vote) ==
  IF vote.from \notin Participants \/ x.status # "Waiting"
    THEN x
  ELSE IF vote.reason # None
    THEN [x EXCEPT !.status = "Rollbacking",
                   !.info = [by |-> vote.from, reason |-> vote.reason]]
  ELSE [x EXCEPT !.voted = @ \cup {vote.from},
                 !.status = IF \E p \in Participants : Participants \ {p} \subseteq x.voted \cup {vote.from}
                              THEN "Committing"
                              ELSE @]

\* A slip: a decision does not end the counting of votes.
AddVoteAnyTime(x, vote) ==
  IF vote.from \notin Participants
    THEN x
  ELSE IF vote.reason # None
    THEN [x EXCEPT !.status = "Rollbacking",
                   !.info = [by |-> vote.from, reason |-> vote.reason]]
  ELSE [x EXCEPT !.voted = @ \cup {vote.from},
                 !.status = IF x.voted \cup {vote.from} = Participants
                              THEN "Committing"
                              ELSE @]

\* A slip: votes are counted whoever sent them.
AddVoteOfAnyone(x, vote) ==
  IF x.status # "Waiting"
    THEN x
  ELSE IF vote.reason # None
    THEN [x EXCEPT !.status = "Rollbacking",
                   !.info = [by |-> vote.from, reason |-> vote.reason]]
  ELSE [x EXCEPT !.voted = @ \cup {vote.from},
                 !.status = IF x.voted \cup {vote.from} = Participants
                              THEN "Committing"
                              ELSE @]

\* The effect of XactState::add_vote once MayAddVote holds.
AddVote(x, vote) ==
  IF vote.from \notin Participants \/ x.status # "Waiting"
    THEN x
  ELSE IF vote.reason # None
    THEN [x EXCEPT !.status = "Rollbacking",
                   !.info = [by |-> vote.from, reason |-> vote.reason]]
  ELSE IF vote.from \in x.voted
    THEN x
  ELSE [x EXCEPT !.voted = @ \cup {vote.from},
                 !.status = IF x.voted \cup {vote.from} = Participants
                              THEN "Committing"
                              ELSE @]

\* A slip: of an early vote only the sender is kept.
KeepVoter(x, vote) == [x EXCEPT !.votes = Append(@, vote.from)]

\* XactType::add_vote on an Unknown transaction.
KeepVote(x, vote) == [x EXCEPT !.votes = Append(@, vote)]

\* XactType::init_as_local and init_as_surrogate: the Unknown value is replaced
\* by a fresh state, its votes are handed to XactState::initialize, and that
\* puts the state in Waiting.
Initialized(x, kind) == [x EXCEPT !.kind = kind, !.status = "Waiting"]

\* The first part of XactState::initialize for a surrogate, up to execute():
\* the coordinator never sends a vote, its 'yes' is assumed here.
InitAsSurrogate(x) == AddVote(Initialized(x, "surrogate"), YesVote(Coordinator))

\* The same for the coordinator, which does not execute and votes yes.
InitAsLocal(x) == AddVote(Initialized(x, "local"), YesVote(Coordinator))

\* One iteration of the loop over the existing votes in initialize.
AddExistingVote(x) == [AddVote(x, Head(x.votes)) EXCEPT !.votes = Tail(x.votes)]

\* The status XactState::try_finish leaves once the controller has succeeded.
Finished(x) ==
  [x EXCEPT !.status = IF @ = "Committing" THEN "Committed"
                       ELSE IF @ = "Rollbacking" THEN "Rollbacked"
                       ELSE @]

\* Two slips: a failed execution is not reported, or not with its own error.
NoRollbackReason(x) == None
SomeRollbackReason(x) == IF x.status = "Rollbacking" THEN CHOOSE r \in Reason : TRUE ELSE None

\* The rollback reason handle_prepare_msg reads off the status and sends.
RollbackReason(x) == IF x.status = "Rollbacking" THEN x.info.reason ELSE None
=============================================================================
