-------------------------------- MODULE Deploy --------------------------------
(***************************************************************************)
(* tools/deploy.py: the five stages that install Sunstorm on the clusters  *)
(* of all regions, run from any stage to any other, over what earlier runs *)
(* left behind.                                                            *)
(*                                                                         *)
(* A stage is one phase or several; a phase does its work once per region  *)
(* or namespace, one after the other or in a pool of threads.  What helm,  *)
(* kubectl and the Kubernetes API do is external: a release cannot be      *)
(* installed twice, and a namespace can be created again once its deletion *)
(* is over.  A command whose region has no known context goes to the       *)
(* cluster kubectl uses at the moment.                                     *)
(***************************************************************************)
EXTENDS Naturals, Sequences, FiniteSets

CONSTANTS
  Listed,      \* config["regions"]
  GlobalRegion,\* config["global_region"], one of Listed or not
  Global,      \* the namespace "global"
  Current,     \* the cluster that commands without a context go to
  None,
  MaxRuns,     \* bound: runs of the tool
  MaxFaults    \* bound: commands and API calls that fail

\* The regions with a cluster, and the namespaces of get_namespaces.
Region == Listed \cup {GlobalRegion}
Namespace == Listed \cup {Global}
RegionOf(n) == IF n = Global THEN GlobalRegion ELSE n

ASSUME RegionAssumption ==
  /\ IsFiniteSet(Region) /\ Global \notin Region
  /\ Current \in Region
ASSUME NoneAssumption == None \notin Region \cup {"default"}
ASSUME BoundsAssumption == MaxRuns \in Nat /\ MaxFaults \in Nat

Stage == <<"load-balancer", "dns", "namespace", "neon", "pushgateway">>

\* The phases, in the order of the stages they belong to.
Phase == <<"lb", "dns-wait", "dns", "ns-clean", "ns-delete", "ns-create",
           "neon-clean", "neon-install", "push">>
StageOf == <<1, 2, 2, 3, 3, 3, 4, 4, 5>>

VARIABLES
  known,       \* the regions whose context is found
  run,         \* the number of the run
  at,          \* the phase at hand as an index of Phase; 0 when not running
  first, last, \* the first and the last phase of this run
  cleanup,     \* --clean-up-neon
  todo,        \* the regions or namespaces this phase has yet to do
  step,        \* of the DNS phase: what comes next for region cur
  cur,
  raised,      \* a task of the pool raised
  done,        \* the last phase of a run that ended well, 0 otherwise
  lb,          \* external: regions with a load balancer, of this tool or another
  dns,         \* external: whose DNS configmap a cluster has
  release,     \* external: the DNS releases of helm in a cluster
  ns,          \* external: the run that created a namespace, and its state
  neon,        \* external: the run that installed Neon in a namespace
  push,        \* external: the namespaces with a pushgateway
  faults

vars == <<known, run, at, first, last, cleanup, todo, step, cur, raised, done, lb, dns,
          release, ns, neon, push, faults>>
tool == <<known, run, first, last, cleanup>>
dnsState == <<dns, release>>

ClusterOf(r) == IF r \in known THEN r ELSE Current
Fault == faults < MaxFaults /\ faults' = faults + 1

Init ==
  /\ known \in SUBSET Region
  /\ run = 0 /\ at = 0 /\ first = 0 /\ last = 0 /\ cleanup = FALSE
  /\ todo = {} /\ step = "uninstall" /\ cur = None
  /\ raised = FALSE /\ done = 0
  /\ lb \in SUBSET Region
  /\ dns = [c \in Region |-> "default"]
  /\ release = [c \in Region |-> {}]
  /\ ns = [n \in Namespace |-> [run |-> 0, state |-> "absent"]]
  /\ neon = [n \in Namespace |-> 0]
  /\ push = {}
  /\ faults = 0

----------------------------------------------------------------------------
\* The work of a phase.  With one region the DNS stages return at once.
Work(p) ==
  CASE Phase[p] \in {"lb", "dns-wait", "dns"} ->
         IF Cardinality(Region) = 1 THEN {} ELSE Region
    [] Phase[p] = "push" -> Listed
    [] OTHER -> Namespace

\* --skip-before and --skip-after: the slice of STAGES they leave may be empty.
Start(from, to, clean) ==
  LET begin == {p \in DOMAIN Phase : StageOf[p] >= from}
      end == {p \in DOMAIN Phase : StageOf[p] <= to}
  IN
  /\ at = 0 /\ run < MaxRuns
  /\ run' = run + 1 /\ cleanup' = clean
  /\ IF from <= to
       THEN /\ first' = CHOOSE p \in begin : \A q \in begin : p <= q
            /\ last' = CHOOSE p \in end : \A q \in end : p >= q
            /\ at' = first' /\ todo' = Work(first')
       ELSE first' = 0 /\ last' = 0 /\ at' = 0 /\ todo' = {}
  /\ step' = "uninstall" /\ cur' = None /\ raised' = FALSE /\ done' = 0
  /\ UNCHANGED <<known, lb, dns, release, ns, neon, push, faults>>

Stop(p) ==
  /\ at' = 0 /\ done' = p /\ todo' = {}
  /\ UNCHANGED <<tool, step, cur, raised>>

\* A pool hands on the first exception of its tasks when all have ended.
Advance ==
  /\ at # 0 /\ todo = {} /\ cur = None
  /\ IF raised THEN Stop(0)
     ELSE IF at = last THEN Stop(last)
     ELSE LET next == IF Phase[at + 1] = "neon-install" /\ cleanup
                        THEN at + 2 ELSE at + 1
          IN IF next > last THEN Stop(at)
             ELSE /\ at' = next /\ todo' = Work(next)
                  /\ UNCHANGED <<tool, step, cur, raised, done>>
  /\ UNCHANGED <<lb, dnsState, ns, neon, push, faults>>

In(phase) == at # 0 /\ Phase[at] = phase
DoneWith(x) == todo' = todo \ {x}
Keep == UNCHANGED <<tool, at, step, cur, raised, done>>

\* set_up_load_balancer_for_coredns
ApplyLb(r) ==
  /\ In("lb") /\ r \in todo
  /\ \/ lb' = lb \cup {ClusterOf(r)} /\ DoneWith(r) /\ Keep /\ UNCHANGED faults
     \/ Fault /\ Stop(0) /\ UNCHANGED lb
  /\ UNCHANGED <<dnsState, ns, neon, push>>

\* try_with_timeout: the name and the addresses of a region's load balancer
\* come in time, or never.
AwaitLb(r) ==
  /\ In("dns-wait") /\ r \in todo
  /\ \/ r \in lb /\ DoneWith(r) /\ Keep /\ UNCHANGED faults
     \/ r \notin lb /\ Stop(0) /\ UNCHANGED faults
     \/ Fault /\ Stop(0)
  /\ UNCHANGED <<lb, dnsState, ns, neon, push>>

----------------------------------------------------------------------------
\* install_dns_configmap, region by region.
Uninstall(r) ==
  LET c == ClusterOf(r) IN
  /\ In("dns") /\ cur = None /\ r \in todo
  /\ \/ /\ release' = [release EXCEPT ![c] = @ \ {r}]
        /\ dns' = IF r \in release[c] THEN [dns EXCEPT ![c] = None] ELSE dns
        /\ UNCHANGED faults
     \/ Fault /\ UNCHANGED dnsState
  /\ cur' = r /\ step' = "delete"
  /\ UNCHANGED <<tool, at, todo, raised, done, lb, ns, neon, push>>

DeleteConfigmap ==
  /\ In("dns") /\ cur # None /\ step = "delete"
  /\ \/ dns' = [dns EXCEPT ![ClusterOf(cur)] = None] /\ UNCHANGED faults
     \/ Fault /\ UNCHANGED dns
  /\ step' = "install"
  /\ UNCHANGED <<tool, at, todo, cur, raised, done, lb, release, ns, neon, push>>

\* A slip: the next region is taken up whatever the result.
GoOn == todo' = todo \ {cur} /\ UNCHANGED <<at, done>>
GiveUp == at' = 0 /\ done' = 0 /\ todo' = {}

InstallDns ==
  LET c == ClusterOf(cur) IN
  /\ In("dns") /\ cur # None /\ step = "install"
  /\ \/ /\ cur \notin release[c] /\ dns[c] = None
        /\ release' = [release EXCEPT ![c] = @ \cup {cur}]
        /\ dns' = [dns EXCEPT ![c] = cur]
        /\ todo' = todo \ {cur} /\ cur' = None /\ step' = "uninstall"
        /\ UNCHANGED <<at, done, faults>>
     \/ /\ cur \in release[c] \/ dns[c] # None \/ faults < MaxFaults
        /\ faults' = IF cur \in release[c] \/ dns[c] # None THEN faults ELSE faults + 1
        /\ GiveUp
        /\ cur' = None /\ step' = "uninstall"
        /\ UNCHANGED dnsState
  /\ UNCHANGED <<tool, raised, lb, ns, neon, push>>

----------------------------------------------------------------------------
\* clean_up_neon_one_namespace, called by two stages; the result of helm
\* uninstall is not looked at.
CleanNeon(n) ==
  /\ In("ns-clean") \/ In("neon-clean")
  /\ n \in todo /\ DoneWith(n)
  /\ \/ neon' = [neon EXCEPT ![n] = 0] /\ UNCHANGED faults
     \/ Fault /\ UNCHANGED neon
  /\ Keep /\ UNCHANGED <<lb, dnsState, ns, push>>

\* Kube.get_config raises for a namespace whose region has no context.
HasConfig(n) == RegionOf(n) \in known

\* clean_up_namespace: an error other than 404 is logged.
DeleteNamespace(n) ==
  /\ In("ns-delete") /\ n \in todo /\ DoneWith(n)
  /\ \/ /\ HasConfig(n)
        /\ ns' = IF ns[n].state = "active" THEN [ns EXCEPT ![n].state = "terminating"] ELSE ns
        /\ UNCHANGED <<raised, faults>>
     \/ HasConfig(n) /\ Fault /\ UNCHANGED <<ns, raised>>
     \/ ~HasConfig(n) /\ raised' = TRUE /\ UNCHANGED <<ns, faults>>
  /\ UNCHANGED <<tool, at, step, cur, done, lb, dnsState, neon, push>>

\* External: the deletion of a namespace ends, with all that was in it.
Terminated(n) ==
  /\ ns[n].state = "terminating"
  /\ ns' = [ns EXCEPT ![n] = [run |-> 0, state |-> "absent"]]
  /\ neon' = [neon EXCEPT ![n] = 0]
  /\ push' = push \ {n}
  /\ UNCHANGED <<tool, at, todo, step, cur, raised, done, lb,
                 dnsState, faults>>

\* Two slips: a namespace that is being deleted counts as one that exists; it
\* tries again whatever the error is.
Exists(n) == ns[n].state # "absent"
NeverExists(n) == FALSE
AlreadyExists(n) == ns[n].state = "active"

\* create_namespace: it tries again while the old namespace is being deleted,
\* and logs any other error.
CreateNamespace(n) ==
  /\ In("ns-create") /\ n \in todo
  /\ \/ /\ HasConfig(n) /\ ns[n].state = "absent"
        /\ ns' = [ns EXCEPT ![n] = [run |-> run, state |-> "active"]]
        /\ UNCHANGED <<raised, faults>>
     \/ HasConfig(n) /\ AlreadyExists(n) /\ UNCHANGED <<ns, raised, faults>>
     \/ HasConfig(n) /\ Fault /\ UNCHANGED <<ns, raised>>
     \/ ~HasConfig(n) /\ raised' = TRUE /\ UNCHANGED <<ns, faults>>
  /\ DoneWith(n)
  /\ UNCHANGED <<tool, at, step, cur, done, lb, dnsState, neon, push>>

\* A slip: the result of the installation is not checked.
Ignore == UNCHANGED raised
Raise == raised' = TRUE

\* deploy_neon_one_namespace: helm install needs the namespace, and a release
\* name that is free.
CanInstall(n) == ns[n].state = "active" /\ neon[n] = 0

InstallNeon(n) ==
  /\ In("neon-install") /\ n \in todo /\ DoneWith(n)
  /\ \/ CanInstall(n) /\ neon' = [neon EXCEPT ![n] = run] /\ UNCHANGED <<raised, faults>>
     \/ CanInstall(n) /\ Fault /\ Raise /\ UNCHANGED neon
     \/ ~CanInstall(n) /\ Raise /\ UNCHANGED <<neon, faults>>
  /\ UNCHANGED <<tool, at, step, cur, done, lb, dnsState, ns, push>>

\* start_pushgateway: kubectl delete (check=False) and kubectl apply.
StartPushgateway(n) ==
  /\ In("push") /\ n \in todo
  /\ \/ /\ ns[n].state = "active" /\ push' = push \cup {n}
        /\ DoneWith(n) /\ Keep /\ UNCHANGED faults
     \/ ns[n].state # "active" /\ Stop(0) /\ push' = push \ {n} /\ UNCHANGED faults
     \/ Fault /\ Stop(0) /\ push' \in {push, push \ {n}}
  /\ UNCHANGED <<lb, dnsState, ns, neon>>

Tool ==
  \/ Advance \/ DeleteConfigmap \/ InstallDns
  \/ \E r \in Region : ApplyLb(r) \/ AwaitLb(r) \/ Uninstall(r)
  \/ \E n \in Namespace : \/ CleanNeon(n) \/ DeleteNamespace(n)
                          \/ CreateNamespace(n) \/ InstallNeon(n)
  \/ \E n \in Listed : StartPushgateway(n)

Next ==
  \/ \E from, to \in DOMAIN Stage, clean \in BOOLEAN : Start(from, to, clean)
  \/ Tool
  \/ \E n \in Namespace : Terminated(n)

Spec == Init /\ [][Next]_vars

\* The tool runs, and the cluster completes the deletion of a namespace.
FairSpec ==
  Spec /\ WF_vars(Tool) /\ \A n \in Namespace : WF_vars(Terminated(n))

----------------------------------------------------------------------------
\* The type invariant: a phase has only its own work to do, and a region is in
\* the middle of the DNS stage only while it runs.
TypeOK ==
  /\ known \subseteq Region /\ run \in 0..MaxRuns /\ faults \in 0..MaxFaults
  /\ {at, first, last, done} \subseteq 0..Len(Phase)
  /\ cleanup \in BOOLEAN /\ raised \in BOOLEAN
  /\ todo \subseteq IF at = 0 THEN {} ELSE Work(at)
  /\ step \in {"uninstall", "delete", "install"} /\ cur \in Region \cup {None}
  /\ cur # None => In("dns") /\ cur \in todo
  /\ lb \subseteq Region
  /\ dns \in [Region -> Region \cup {"default", None}]
  /\ release \in [Region -> SUBSET Region]
  /\ ns \in [Namespace -> [run : 0..MaxRuns, state : {"absent", "active", "terminating"}]]
  /\ neon \in [Namespace -> 0..MaxRuns]
  /\ push \subseteq Listed

Covered(phase) ==
  at = 0 /\ first # 0 /\ \E p \in first..done : Phase[p] = phase

\* A run that came through the DNS stage left no cluster without a DNS
\* configmap, and gave each its own, unless a region without a context sent
\* its commands to another region's cluster.
DnsIsComplete ==
  Covered("dns") /\ Cardinality(Region) > 1 =>
    \A r \in Region : LET c == ClusterOf(r) IN
      dns[c] # None /\ (known = Region => dns[c] = r)

\* The DNS configmap is replaced region by region and a run stops at the first
\* that fails, so that each run breaks the DNS of one cluster at the most.
OneClusterPerRun == Cardinality({c \in Region : dns[c] = None}) <= run

\* A run that came through the Neon stage installed Neon in every namespace:
\* none still has the installation of an earlier run, although the results of
\* the clean-up are not looked at.
NeonIsFresh ==
  Covered("neon-install") /\ ~cleanup => \A n \in Namespace : neon[n] = run

\* While nothing has failed, in this run or an earlier one, a run that came
\* through the namespace stage has created every namespace anew, however long
\* the deletion of the old ones took.
NamespacesAreFresh ==
  Covered("ns-create") /\ faults = 0 =>
    \A n \in Namespace : ns[n] = [run |-> run, state |-> "active"]

\* Every run ends, even when a load balancer never comes or a command fails.
RunEnds == at # 0 ~> at = 0
=============================================================================
