---------------------------- MODULE AtomicCommit ----------------------------
(***************************************************************************)
(* What the xactservers promise together: an atomic commitment among the   *)
(* participating regions.  A region is "working" until its PostgreSQL has  *)
(* prepared the transaction or given it up.  A region commits only when    *)
(* every region has prepared and none has refused; a prepared transaction  *)
(* is given up only when some region has refused and none has committed.   *)
(* The region that submitted the transaction may lose its connection and   *)
(* be left "indoubt": it has prepared, and learns no outcome.              *)
(***************************************************************************)
CONSTANTS
  RM,         \* the regions that take part
  Submitter   \* the one that may be left in doubt

VARIABLES
  rmState,    \* rmState[r]: how far region r is
  refused     \* the regions that will not commit

acVars == <<rmState, refused>>

RMState == {"working", "prepared", "committed", "aborted", "indoubt"}

Init ==
  /\ rmState = [r \in RM |-> "working"]
  /\ refused = {}

Become(r, s) == rmState' = [rmState EXCEPT ![r] = s]

\* The region can commit.
Prepare(r) ==
  /\ rmState[r] = "working"
  /\ Become(r, "prepared")
  /\ UNCHANGED refused

\* The region refuses.  An error after the transaction was prepared is a
\* refusal too, and leaves it to be given up later.
Refuse(r) ==
  /\ rmState[r] = "working"
  /\ Become(r, "aborted") \/ Become(r, "prepared")
  /\ refused' = refused \cup {r}

Commit(r) ==
  /\ rmState[r] = "prepared"
  /\ \A s \in RM : rmState[s] \in {"prepared", "committed", "indoubt"}
  /\ refused = {}
  /\ Become(r, "committed")
  /\ UNCHANGED refused

Abort(r) ==
  /\ rmState[r] = "prepared"
  /\ \A s \in RM : rmState[s] # "committed"
  /\ refused # {}
  /\ Become(r, "aborted")
  /\ UNCHANGED refused

LoseTouch(r) ==
  /\ r = Submitter
  /\ rmState[r] = "prepared"
  /\ Become(r, "indoubt")
  /\ UNCHANGED refused

Next == \E r \in RM : Prepare(r) \/ Refuse(r) \/ Commit(r) \/ Abort(r) \/ LoseTouch(r)

Spec == Init /\ [][Next]_acVars
=============================================================================
