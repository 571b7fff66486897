----------------------------- MODULE DeployProofs -----------------------------
(***************************************************************************)
(* Proofs about the deployment: what a run that came through a stage has   *)
(* left behind, whatever earlier runs did and from whichever stage it was  *)
(* started, and how many clusters can be without DNS.                      *)
(*                                                                         *)
(* The properties speak of the end of a run.  The invariant follows the    *)
(* run: where it may be, what the phase at hand has achieved for the       *)
(* regions or namespaces that it is through with, and that no later phase  *)
(* undoes it.                                                              *)
(***************************************************************************)
EXTENDS Deploy, FiniteSetTheorems, TLAPS

USE RegionAssumption, NoneAssumption, BoundsAssumption

\* This run is through with phase p.
Passed(p) == first # 0 /\ first <= p /\ (at > p \/ (at = 0 /\ done >= p))

\* A run begins and ends at the borders of stages.
RunShape ==
  /\ first \in {0, 1, 2, 4, 7, 9}
  /\ at # 0 => first # 0 /\ first <= at /\ at <= last

HasDns(r) ==
  LET c == ClusterOf(r) IN dns[c] # None /\ (known = Region => dns[c] = r)

\* In the DNS phase only the cluster of the region at hand may have lost the
\* configmap that a region done with gave it.
DnsInv ==
  Cardinality(Region) > 1 =>
    /\ Passed(3) => \A r \in Region : HasDns(r)
    /\ at = 3 => \A r \in Region \ todo :
         HasDns(r) \/ (cur # None /\ ClusterOf(cur) = ClusterOf(r))

\* The clusters without a configmap, but for the one at hand.
Bare == {c \in Region : dns[c] = None}
Broken == IF cur = None THEN Bare ELSE Bare \ {ClusterOf(cur)}

\* A run that is going on has broken no cluster yet but the one at hand.
BareInv == Cardinality(Broken) + (IF at = 0 THEN 0 ELSE 1) <= run

HasNeon(n) == neon[n] = run /\ ns[n].state = "active"

NeonInv ==
  ~cleanup =>
    /\ Passed(8) => \A n \in Namespace : HasNeon(n)
    /\ at = 8 /\ ~raised => \A n \in Namespace \ todo : HasNeon(n)

IsFresh(n) == ns[n] = [run |-> run, state |-> "active"]

\* Without failures a namespace is never active between its deletion and its
\* creation, so that creating it never finds the old one.
NsInv ==
  faults = 0 =>
    /\ Passed(6) => \A n \in Namespace : IsFresh(n)
    /\ at = 6 /\ ~raised =>
         /\ \A n \in Namespace \ todo : IsFresh(n)
         /\ \A n \in todo : ns[n].state # "active"
    /\ at = 5 /\ ~raised => \A n \in Namespace \ todo : ns[n].state # "active"

DInv == TypeOK /\ RunShape /\ DnsInv /\ BareInv /\ NeonInv /\ NsInv

----------------------------------------------------------------------------
\* The phases and the stages they belong to, by their numbers.
LEMMA Phases ==
  /\ Len(Phase) = 9 /\ DOMAIN Phase = 1..9 /\ DOMAIN Stage = 1..5
  /\ Phase[1] = "lb" /\ Phase[2] = "dns-wait" /\ Phase[3] = "dns"
  /\ Phase[4] = "ns-clean" /\ Phase[5] = "ns-delete" /\ Phase[6] = "ns-create"
  /\ Phase[7] = "neon-clean" /\ Phase[8] = "neon-install" /\ Phase[9] = "push"
  /\ StageOf[1] = 1 /\ StageOf[2] = 2 /\ StageOf[3] = 2 /\ StageOf[4] = 3
  /\ StageOf[5] = 3 /\ StageOf[6] = 3 /\ StageOf[7] = 4 /\ StageOf[8] = 4
  /\ StageOf[9] = 5
BY DEF Phase, Stage, StageOf

\* In which phase a run is.
LEMMA InPhase ==
  ASSUME at \in 0..9
  PROVE  /\ In("lb") <=> at = 1
         /\ In("dns-wait") <=> at = 2
         /\ In("dns") <=> at = 3
         /\ In("ns-clean") <=> at = 4
         /\ In("ns-delete") <=> at = 5
         /\ In("ns-create") <=> at = 6
         /\ In("neon-clean") <=> at = 7
         /\ In("neon-install") <=> at = 8
         /\ In("push") <=> at = 9
BY Phases DEF In

\* The same of the next state.
LEMMA InPhaseNext ==
  ASSUME at' \in 0..9
  PROVE  /\ In("lb")' <=> at' = 1
         /\ In("dns-wait")' <=> at' = 2
         /\ In("dns")' <=> at' = 3
         /\ In("push")' <=> at' = 9
BY Phases DEF In

\* What there is to do in a phase.
LEMMA WorkOf ==
  /\ \A p \in {1, 2, 3} : Work(p) \subseteq Region
  /\ Work(9) = Listed
  /\ Cardinality(Region) > 1 => Work(3) = Region
  /\ \A p \in {4, 5, 6, 7, 8} : Work(p) = Namespace
BY Phases, FS_CardinalityType DEF Work

\* The least and the greatest element of a set of numbers.
LEMMA LeastIs ==
  ASSUME NEW S \in SUBSET Nat, NEW m \in S, \A q \in S : m <= q
  PROVE  (CHOOSE p \in S : \A q \in S : p <= q) = m
<1> DEFINE c == CHOOSE p \in S : \A q \in S : p <= q
<1>1. c \in S /\ \A q \in S : c <= q
  OBVIOUS
<1> HIDE DEF c
<1>2. c = m
  BY <1>1
<1> QED
  BY <1>2 DEF c

LEMMA GreatestIs ==
  ASSUME NEW S \in SUBSET Nat, NEW m \in S, \A q \in S : m >= q
  PROVE  (CHOOSE p \in S : \A q \in S : p >= q) = m
<1> DEFINE c == CHOOSE p \in S : \A q \in S : p >= q
<1>1. c \in S /\ \A q \in S : c >= q
  OBVIOUS
<1> HIDE DEF c
<1>2. c = m
  BY <1>1
<1> QED
  BY <1>2 DEF c

\* A run starts with the first phase of a stage, and not after its last one.
LEMMA StartShape ==
  ASSUME NEW from \in DOMAIN Stage, NEW to \in DOMAIN Stage, NEW clean \in BOOLEAN,
         Start(from, to, clean)
  PROVE  \/ /\ first' \in {1, 2, 4, 7, 9} /\ last' \in 1..9
            /\ first' <= last' /\ at' = first' /\ todo' = Work(first')
         \/ first' = 0 /\ last' = 0 /\ at' = 0 /\ todo' = {}
<1> DEFINE begin == {p \in DOMAIN Phase : StageOf[p] >= from}
           end == {p \in DOMAIN Phase : StageOf[p] <= to}
           F == CHOOSE p \in begin : \A q \in begin : p <= q
           L == CHOOSE p \in end : \A q \in end : p >= q
<1>0. from \in {1, 2, 3, 4, 5} /\ to \in {1, 2, 3, 4, 5}
  BY Phases
<1>1. /\ from = 1 => F = 1
      /\ from = 2 => F = 2
      /\ from = 3 => F = 4
      /\ from = 4 => F = 7
      /\ from = 5 => F = 9
  <2> HIDE DEF F
  <2>0. begin \in SUBSET Nat
    BY Phases
  <2>1. CASE from = 1
    <3>1. 1 \in begin /\ \A q \in begin : 1 <= q
      BY <2>1, Phases
    <3> QED
      BY <2>0, <2>1, <3>1, LeastIs DEF F
  <2>2. CASE from = 2
    <3>1. 2 \in begin /\ \A q \in begin : 2 <= q
      BY <2>2, Phases
    <3> QED
      BY <2>0, <2>2, <3>1, LeastIs DEF F
  <2>3. CASE from = 3
    <3>1. 4 \in begin /\ \A q \in begin : 4 <= q
      BY <2>3, Phases
    <3> QED
      BY <2>0, <2>3, <3>1, LeastIs DEF F
  <2>4. CASE from = 4
    <3>1. 7 \in begin /\ \A q \in begin : 7 <= q
      BY <2>4, Phases
    <3> QED
      BY <2>0, <2>4, <3>1, LeastIs DEF F
  <2>5. CASE from = 5
    <3>1. 9 \in begin /\ \A q \in begin : 9 <= q
      BY <2>5, Phases
    <3> QED
      BY <2>0, <2>5, <3>1, LeastIs DEF F
  <2> QED
    BY <1>0, <2>1, <2>2, <2>3, <2>4, <2>5
<1>2. /\ to = 1 => L = 1
      /\ to = 2 => L = 3
      /\ to = 3 => L = 6
      /\ to = 4 => L = 8
      /\ to = 5 => L = 9
  <2> HIDE DEF L
  <2>0. end \in SUBSET Nat
    BY Phases
  <2>1. CASE to = 1
    <3>1. 1 \in end /\ \A q \in end : 1 >= q
      BY <2>1, Phases
    <3> QED
      BY <2>0, <2>1, <3>1, GreatestIs DEF L
  <2>2. CASE to = 2
    <3>1. 3 \in end /\ \A q \in end : 3 >= q
      BY <2>2, Phases
    <3> QED
      BY <2>0, <2>2, <3>1, GreatestIs DEF L
  <2>3. CASE to = 3
    <3>1. 6 \in end /\ \A q \in end : 6 >= q
      BY <2>3, Phases
    <3> QED
      BY <2>0, <2>3, <3>1, GreatestIs DEF L
  <2>4. CASE to = 4
    <3>1. 8 \in end /\ \A q \in end : 8 >= q
      BY <2>4, Phases
    <3> QED
      BY <2>0, <2>4, <3>1, GreatestIs DEF L
  <2>5. CASE to = 5
    <3>1. 9 \in end /\ \A q \in end : 9 >= q
      BY <2>5, Phases
    <3> QED
      BY <2>0, <2>5, <3>1, GreatestIs DEF L
  <2> QED
    BY <1>0, <2>1, <2>2, <2>3, <2>4, <2>5
<1> HIDE DEF F, L
<1>3. CASE from <= to
  <2>1. first' = F /\ last' = L /\ at' = first' /\ todo' = Work(first')
    BY <1>3, Zenon DEF Start, F, L
  <2> QED
    BY <1>0, <1>1, <1>2, <1>3, <2>1
<1>4. CASE ~(from <= to)
  BY <1>4 DEF Start
<1> QED
  BY <1>3, <1>4

\* The types of the variables, with the number of phases filled in.
Types ==
  /\ known \subseteq Region /\ run \in 0..MaxRuns /\ faults \in 0..MaxFaults
  /\ at \in 0..9 /\ first \in 0..9 /\ last \in 0..9 /\ done \in 0..9
  /\ cleanup \in BOOLEAN /\ raised \in BOOLEAN
  /\ todo \subseteq IF at = 0 THEN {} ELSE Work(at)
  /\ step \in {"uninstall", "delete", "install"} /\ cur \in Region \cup {None}
  /\ cur # None => at = 3 /\ cur \in todo
  /\ lb \subseteq Region
  /\ dns \in [Region -> Region \cup {"default", None}]
  /\ release \in [Region -> SUBSET Region]
  /\ ns \in [Namespace -> [run : 0..MaxRuns, state : {"absent", "active", "terminating"}]]
  /\ neon \in [Namespace -> 0..MaxRuns]
  /\ push \subseteq Listed

LEMMA TypesOf == ASSUME TypeOK PROVE Types
<1>1. at \in 0..9 /\ first \in 0..9 /\ last \in 0..9 /\ done \in 0..9
  BY Phases DEF TypeOK
<1>2. cur # None => at = 3 /\ cur \in todo
  BY <1>1, InPhase DEF TypeOK
<1> QED
  BY <1>1, <1>2 DEF TypeOK, Types

LEMMA TypesOfNext == ASSUME Types' PROVE TypeOK'
<1>1. {at', first', last', done'} \subseteq 0..Len(Phase)
  BY Phases DEF Types
<1>2. cur' # None => In("dns")' /\ cur' \in todo'
  BY InPhaseNext DEF Types
<1> QED
  BY <1>1, <1>2 DEF TypeOK, Types

\* The commands of a region go to one cluster.
LEMMA ClusterType == \A r \in Region : ClusterOf(r) \in Region
BY DEF ClusterOf

\* A step that stops the run: nothing has been achieved.
LEMMA StopKeeps ==
  ASSUME DInv, at # 3, at' = 0, done' = 0, todo' = {},
         UNCHANGED <<tool, step, cur, raised, dnsState, ns, neon>>,
         lb' \subseteq Region, push' \subseteq Listed, faults' \in 0..MaxFaults
  PROVE  DInv'
<1>0. Types /\ RunShape /\ BareInv
  BY TypesOf DEF DInv
<1>1. Types'
  BY <1>0 DEF Types, tool, dnsState
<1>2. RunShape'
  BY <1>0 DEF RunShape, tool
<1>3. ~Passed(3)' /\ ~Passed(8)' /\ ~Passed(6)'
  BY <1>0 DEF Passed, Types, tool
<1>4. DnsInv' /\ NeonInv' /\ NsInv'
  BY <1>3 DEF DnsInv, NeonInv, NsInv
<1>5. BareInv'
  <2>1. Broken' = Broken
    BY DEF Broken, Bare, ClusterOf, tool, dnsState
  <2>2. Broken \subseteq Region
    BY DEF Broken, Bare
  <2>3. Cardinality(Broken) \in Nat
    BY <2>2, FS_Subset, FS_CardinalityType
  <2> QED
    BY <1>0, <2>1, <2>3 DEF BareInv, Types, tool
<1> QED
  BY <1>1, <1>2, <1>4, <1>5, TypesOfNext DEF DInv

\* A phase without DNS, namespaces and Neon is through with x.
LEMMA GoOnKeeps ==
  ASSUME DInv, at \in {1, 2, 9}, NEW x, todo' = todo \ {x},
         UNCHANGED <<tool, at, step, cur, raised, done, dnsState, ns, neon, faults>>,
         lb' \subseteq Region, push' \subseteq Listed
  PROVE  DInv'
<1>0. Types /\ RunShape /\ BareInv /\ DnsInv /\ NeonInv /\ NsInv
  BY TypesOf DEF DInv
<1>1. Types'
  BY <1>0 DEF Types, tool, dnsState
<1>2. RunShape' /\ DnsInv'
  BY <1>0 DEF RunShape, DnsInv, Passed, HasDns, ClusterOf, tool, dnsState
<1>3. NeonInv' /\ NsInv'
  BY <1>0 DEF NeonInv, NsInv, Passed, HasNeon, IsFresh, tool
<1>4. BareInv'
  <2>1. Broken' = Broken
    BY DEF Broken, Bare, ClusterOf, tool, dnsState
  <2> QED
    BY <1>0, <2>1 DEF BareInv, tool
<1> QED
  BY <1>1, <1>2, <1>3, <1>4, TypesOfNext DEF DInv

LEMMA ApplyLbStep ==
  ASSUME DInv, NEW r \in Region, ApplyLb(r)
  PROVE  DInv'
<1>0. Types /\ at = 1
  BY TypesOf, InPhase DEF DInv, ApplyLb, Types
<1>1. CASE lb' = lb \cup {ClusterOf(r)} /\ DoneWith(r) /\ Keep /\ UNCHANGED faults
  BY <1>0, <1>1, GoOnKeeps, ClusterType DEF ApplyLb, DoneWith, Keep, Types
<1>2. CASE Fault /\ Stop(0) /\ UNCHANGED lb
  BY <1>0, <1>2, StopKeeps DEF ApplyLb, Fault, Stop, Types
<1> QED
  BY <1>1, <1>2 DEF ApplyLb

LEMMA AwaitLbStep ==
  ASSUME DInv, NEW r \in Region, AwaitLb(r)
  PROVE  DInv'
<1>0. Types /\ at = 2
  BY TypesOf, InPhase DEF DInv, AwaitLb, Types
<1>1. CASE DoneWith(r) /\ Keep /\ UNCHANGED faults
  BY <1>0, <1>1, GoOnKeeps DEF AwaitLb, DoneWith, Keep, Types
<1>2. CASE Stop(0) /\ (UNCHANGED faults \/ Fault)
  BY <1>0, <1>2, StopKeeps DEF AwaitLb, Fault, Stop, Types
<1> QED
  BY <1>1, <1>2 DEF AwaitLb

LEMMA StartPushgatewayStep ==
  ASSUME DInv, NEW n \in Listed, StartPushgateway(n)
  PROVE  DInv'
<1>0. Types /\ at = 9
  BY TypesOf, InPhase DEF DInv, StartPushgateway, Types
<1>1. CASE push' = push \cup {n} /\ DoneWith(n) /\ Keep /\ UNCHANGED faults
  BY <1>0, <1>1, GoOnKeeps DEF StartPushgateway, DoneWith, Keep, Types
<1>2. CASE Stop(0) /\ push' \in {push, push \ {n}} /\ (UNCHANGED faults \/ Fault)
  BY <1>0, <1>2, StopKeeps DEF StartPushgateway, Fault, Stop, Types
<1> QED
  BY <1>1, <1>2 DEF StartPushgateway

----------------------------------------------------------------------------
\* The DNS phase.  Taking the configmap of one cluster away.
LEMMA TakesDnsAway ==
  ASSUME DInv, at = 3, NEW r \in todo, cur' = r, cur = None \/ cur = r,
         dns' \in {dns, [dns EXCEPT ![ClusterOf(r)] = None]},
         release' \in [Region -> SUBSET Region],
         step' \in {"uninstall", "delete", "install"}, faults' \in 0..MaxFaults,
         UNCHANGED <<tool, at, todo, raised, done, lb, ns, neon, push>>
  PROVE  DInv'
<1> DEFINE c == ClusterOf(r)
<1>0. Types /\ RunShape /\ BareInv /\ DnsInv /\ r \in Region /\ c \in Region
  BY TypesOf, ClusterType, WorkOf DEF DInv, Types
<1>1. /\ ClusterOf(r)' = c /\ UNCHANGED known
      /\ \A d \in Region : ClusterOf(d)' = ClusterOf(d)
      /\ \A d \in Region \ {c} : dns'[d] = dns[d]
  BY <1>0 DEF ClusterOf, tool, Types
<1> HIDE DEF c
<1>2. Types'
  BY <1>0 DEF Types, tool
<1>3. RunShape' /\ NeonInv' /\ NsInv'
  BY <1>0 DEF RunShape, NeonInv, NsInv, Passed, tool
<1>4. DnsInv'
  <2> SUFFICES ASSUME Cardinality(Region) > 1, NEW q \in Region \ todo
               PROVE  HasDns(q)' \/ c = ClusterOf(q)
    BY <1>0, <1>1 DEF DnsInv, Passed, tool, Types
  <2>1. HasDns(q) \/ c = ClusterOf(q)
    BY <1>0 DEF DnsInv, c
  <2>2. CASE c # ClusterOf(q)
    <3>1. dns'[ClusterOf(q)] = dns[ClusterOf(q)] /\ ClusterOf(q)' = ClusterOf(q)
      BY <1>1, <2>2, ClusterType
    <3> QED
      BY <1>1, <2>1, <2>2, <3>1 DEF HasDns
  <2> QED
    BY <2>2
<1>5. BareInv'
  <2>1. /\ Bare' \subseteq Bare \cup {c} /\ Bare \subseteq Region
        /\ Broken = Bare \/ Broken = Bare \ {c}
    BY <1>0, <1>1 DEF Bare, Broken, c
  <2>2. Broken' = Bare' \ {c}
    BY <1>0, <1>1 DEF Broken
  <2>3. Broken' \subseteq Broken /\ Broken \subseteq Region
    BY <2>1, <2>2
  <2>4. Cardinality(Broken') <= Cardinality(Broken) /\ Cardinality(Broken) \in Nat
        /\ Cardinality(Broken') \in Nat
    BY <2>3, FS_Subset, FS_CardinalityType
  <2> QED
    BY <1>0, <2>4 DEF BareInv, tool, Types
<1> QED
  BY <1>2, <1>3, <1>4, <1>5, TypesOfNext DEF DInv

LEMMA UninstallStep ==
  ASSUME DInv, NEW r \in Region, Uninstall(r)
  PROVE  DInv'
<1>0. Types /\ at = 3
  BY TypesOf, InPhase DEF DInv, Uninstall, Types
<1>1. release' \in [Region -> SUBSET Region] /\ faults' \in 0..MaxFaults
  BY <1>0, ClusterType DEF Uninstall, Types, Fault, dnsState
<1> QED
  BY <1>0, <1>1, TakesDnsAway DEF Uninstall, dnsState

LEMMA DeleteConfigmapStep ==
  ASSUME DInv, DeleteConfigmap
  PROVE  DInv'
<1>0. Types /\ at = 3
  BY TypesOf, InPhase DEF DInv, DeleteConfigmap, Types
<1>1. /\ release' \in [Region -> SUBSET Region] /\ faults' \in 0..MaxFaults
      /\ cur \in todo /\ cur' = cur
  BY <1>0 DEF DeleteConfigmap, Types, Fault
<1> QED
  BY <1>0, <1>1, TakesDnsAway DEF DeleteConfigmap

\* The configmap of the region at hand is installed, or the run gives up.
LEMMA InstallDnsStep ==
  ASSUME DInv, InstallDns
  PROVE  DInv'
<1> DEFINE c == ClusterOf(cur)
<1>0. /\ Types /\ RunShape /\ BareInv /\ DnsInv /\ at = 3 /\ cur # None
      /\ cur \in todo /\ cur \in Region /\ c \in Region
      /\ cur' = None /\ step' = "uninstall"
      /\ UNCHANGED <<tool, raised, lb, ns, neon, push>>
  BY TypesOf, InPhase, ClusterType DEF DInv, Types, InstallDns
<1>1. /\ UNCHANGED <<known, run, first, last, cleanup>>
      /\ \A d \in Region : ClusterOf(d)' = ClusterOf(d)
  BY <1>0 DEF ClusterOf, tool
<1>b. /\ Bare \subseteq Region /\ IsFiniteSet(Bare) /\ Broken = Bare \ {c}
      /\ IsFiniteSet(Bare \ {c}) /\ Cardinality(Bare \ {c}) \in Nat
      /\ Cardinality(Bare \ {c}) + 1 <= run
  <2>1. Bare \subseteq Region /\ Broken = Bare \ {c} /\ Bare \ {c} \subseteq Region
    BY <1>0 DEF Bare, Broken
  <2>2. IsFiniteSet(Bare) /\ IsFiniteSet(Bare \ {c})
    BY <2>1, FS_Subset
  <2> QED
    BY <1>0, <2>1, <2>2, FS_CardinalityType DEF BareInv
<1>2. CASE /\ dns' = [dns EXCEPT ![c] = cur]
           /\ release' = [release EXCEPT ![c] = @ \cup {cur}]
           /\ todo' = todo \ {cur} /\ UNCHANGED <<at, done, faults>>
  <2> HIDE DEF c
  <2>1. Types'
    BY <1>0, <1>1, <1>2 DEF Types
  <2>2. RunShape' /\ NeonInv' /\ NsInv'
    BY <1>0, <1>1, <1>2 DEF RunShape, NeonInv, NsInv, Passed
  <2>3. DnsInv'
    <3> SUFFICES ASSUME Cardinality(Region) > 1, NEW q \in Region \ todo'
                 PROVE  HasDns(q)'
      BY <1>0, <1>2 DEF DnsInv, Passed, Types
    <3>1. CASE ClusterOf(q) = c
      <4>1. dns'[ClusterOf(q)'] = cur
        BY <1>0, <1>1, <1>2, <3>1 DEF Types
      <4>2. known = Region => q = cur
        BY <1>0, <3>1 DEF c, ClusterOf
      <4> QED
        BY <1>0, <1>1, <4>1, <4>2 DEF HasDns
    <3>2. CASE ClusterOf(q) # c
      <4>1. q # cur /\ q \in Region \ todo
        BY <1>2, <3>2 DEF c
      <4>2. HasDns(q)
        BY <1>0, <3>2, <4>1 DEF DnsInv, c
      <4>3. dns'[ClusterOf(q)'] = dns[ClusterOf(q)]
        BY <1>0, <1>1, <1>2, <3>2, ClusterType DEF Types
      <4> QED
        BY <1>1, <4>2, <4>3 DEF HasDns
    <3> QED
      BY <3>1, <3>2
  <2>4. BareInv'
    <3>1. Broken' = Bare \ {c}
      BY <1>0, <1>2 DEF Broken, Bare, Types
    <3> QED
      BY <1>0, <1>1, <1>2, <1>b, <3>1 DEF BareInv, Types
  <2> QED
    BY <2>1, <2>2, <2>3, <2>4, TypesOfNext DEF DInv
<1>3. CASE GiveUp /\ UNCHANGED dnsState /\ faults' \in 0..MaxFaults
  <2> HIDE DEF c
  <2>1. Types'
    BY <1>0, <1>1, <1>3 DEF Types, GiveUp, dnsState
  <2>2. ~Passed(3)' /\ ~Passed(8)' /\ ~Passed(6)'
    BY <1>0, <1>1, <1>3 DEF Passed, Types, GiveUp
  <2>3. RunShape' /\ DnsInv' /\ NeonInv' /\ NsInv'
    BY <1>0, <1>1, <1>3, <2>2 DEF RunShape, DnsInv, NeonInv, NsInv, GiveUp
  <2>4. BareInv'
    <3>1. Broken' = Bare
      BY <1>0, <1>3 DEF Broken, Bare, dnsState
    <3>2. Cardinality(Bare) <= Cardinality(Bare \ {c}) + 1 /\ Cardinality(Bare) \in Nat
      <4>1. CASE c \in Bare
        BY <1>b, <4>1, FS_RemoveElement, FS_CardinalityType
      <4>2. CASE c \notin Bare
        <5>1. Bare \ {c} = Bare
          BY <4>2
        <5>2. Cardinality(Bare \ {c}) = Cardinality(Bare)
          BY <5>1, Zenon
        <5> QED
          BY <1>b, <5>2
      <4> QED
        BY <4>1, <4>2
    <3> QED
      BY <1>0, <1>1, <1>3, <1>b, <3>1, <3>2 DEF BareInv, GiveUp, Types
  <2> QED
    BY <2>1, <2>3, <2>4, TypesOfNext DEF DInv
<1>4. faults' \in 0..MaxFaults
  BY <1>0 DEF InstallDns, Types
<1> QED
  BY <1>2, <1>3, <1>4 DEF InstallDns

----------------------------------------------------------------------------
\* A step in the phases of namespaces and Neon: the run and DNS stay.
LEMMA PhaseFrame ==
  ASSUME DInv, at \in {4, 5, 6, 7, 8}, NEW x, todo' = todo \ {x},
         UNCHANGED <<tool, at, step, cur, done, lb, dnsState, push>>,
         raised' \in BOOLEAN, faults' \in 0..MaxFaults,
         ns' \in [Namespace -> [run : 0..MaxRuns,
                                state : {"absent", "active", "terminating"}]],
         neon' \in [Namespace -> 0..MaxRuns]
  PROVE  Types' /\ RunShape' /\ DnsInv' /\ BareInv'
<1>0. Types /\ RunShape /\ DnsInv /\ BareInv
  BY TypesOf DEF DInv
<1>1. Types'
  BY <1>0 DEF Types, tool, dnsState
<1>2. RunShape' /\ DnsInv'
  BY <1>0 DEF RunShape, DnsInv, Passed, HasDns, ClusterOf, tool, dnsState
<1>3. BareInv'
  <2>1. Broken' = Broken
    BY DEF Broken, Bare, ClusterOf, tool, dnsState
  <2> QED
    BY <1>0, <2>1 DEF BareInv, tool
<1> QED
  BY <1>1, <1>2, <1>3

LEMMA CleanNeonStep ==
  ASSUME DInv, NEW n \in Namespace, CleanNeon(n)
  PROVE  DInv'
<1>0. /\ Types /\ at \in {4, 7} /\ NsInv /\ raised \in BOOLEAN
      /\ neon' \in [Namespace -> 0..MaxRuns]
      /\ faults' \in 0..MaxFaults /\ (faults' = 0 => faults = 0)
      /\ todo' = todo \ {n}
      /\ UNCHANGED <<tool, at, step, cur, raised, done, lb, dnsState, ns, push>>
  BY TypesOf, InPhase DEF DInv, CleanNeon, Types, Fault, DoneWith, Keep
<1>1. Types' /\ RunShape' /\ DnsInv' /\ BareInv'
  BY <1>0, PhaseFrame DEF Types
<1>2. NeonInv' /\ NsInv'
  BY <1>0 DEF NeonInv, NsInv, Passed, IsFresh, tool, Types
<1> QED
  BY <1>1, <1>2, TypesOfNext DEF DInv

LEMMA DeleteNamespaceStep ==
  ASSUME DInv, NEW n \in Namespace, DeleteNamespace(n)
  PROVE  DInv'
<1>0. /\ Types /\ at = 5 /\ NsInv
      /\ todo' = todo \ {n}
      /\ UNCHANGED <<tool, at, step, cur, done, lb, dnsState, neon, push>>
  BY TypesOf, InPhase DEF DInv, DeleteNamespace, Types, DoneWith
<1>1. /\ ns' \in [Namespace -> [run : 0..MaxRuns,
                                state : {"absent", "active", "terminating"}]]
      /\ raised' \in BOOLEAN /\ (~raised' => ~raised)
      /\ faults' \in 0..MaxFaults /\ (faults' = 0 => faults = 0)
      /\ \A m \in Namespace \ {n} : ns'[m] = ns[m]
      /\ faults' = 0 /\ ~raised' => ns'[n].state # "active"
  <2>0. /\ raised \in BOOLEAN
        /\ ns \in [Namespace -> [run : 0..MaxRuns,
                                 state : {"absent", "active", "terminating"}]]
        /\ faults \in 0..MaxFaults
    BY <1>0 DEF Types
  <2>1. CASE /\ UNCHANGED <<raised, faults>>
             /\ ns' = IF ns[n].state = "active"
                        THEN [ns EXCEPT ![n].state = "terminating"] ELSE ns
    BY <2>0, <2>1
  <2>2. CASE Fault /\ UNCHANGED <<ns, raised>>
    BY <2>0, <2>2 DEF Fault
  <2>3. CASE raised' = TRUE /\ UNCHANGED <<ns, faults>>
    BY <2>0, <2>3
  <2> QED
    BY <2>1, <2>2, <2>3 DEF DeleteNamespace
<1>2. Types' /\ RunShape' /\ DnsInv' /\ BareInv'
  BY <1>0, <1>1, PhaseFrame DEF Types
<1>3. NeonInv'
  BY <1>0 DEF NeonInv, Passed, tool
<1>4. NsInv'
  <2> SUFFICES ASSUME faults' = 0, ~raised', NEW m \in Namespace \ todo'
               PROVE  ns'[m].state # "active"
    BY <1>0 DEF NsInv, Passed, tool
  <2> QED
    BY <1>0, <1>1 DEF NsInv
<1> QED
  BY <1>2, <1>3, <1>4, TypesOfNext DEF DInv

LEMMA CreateNamespaceStep ==
  ASSUME DInv, NEW n \in Namespace, CreateNamespace(n)
  PROVE  DInv'
<1>0. /\ Types /\ at = 6 /\ NsInv /\ n \in todo
      /\ todo' = todo \ {n}
      /\ UNCHANGED <<tool, at, step, cur, done, lb, dnsState, neon, push>>
  BY TypesOf, InPhase DEF DInv, CreateNamespace, Types, DoneWith
<1>1. /\ ns' \in [Namespace -> [run : 0..MaxRuns,
                                state : {"absent", "active", "terminating"}]]
      /\ raised' \in BOOLEAN /\ (~raised' => ~raised)
      /\ faults' \in 0..MaxFaults /\ (faults' = 0 => faults = 0)
      /\ \A m \in Namespace \ {n} : ns'[m] = ns[m]
  <2>0. /\ raised \in BOOLEAN /\ run \in 0..MaxRuns
        /\ ns \in [Namespace -> [run : 0..MaxRuns,
                                 state : {"absent", "active", "terminating"}]]
        /\ faults \in 0..MaxFaults
    BY <1>0 DEF Types
  <2>1. CASE /\ UNCHANGED <<raised, faults>>
             /\ ns' \in {ns, [ns EXCEPT ![n] = [run |-> run, state |-> "active"]]}
    BY <2>0, <2>1
  <2>2. CASE Fault /\ UNCHANGED <<ns, raised>>
    BY <2>0, <2>2 DEF Fault
  <2>3. CASE raised' = TRUE /\ UNCHANGED <<ns, faults>>
    BY <2>0, <2>3
  <2> QED
    BY <2>1, <2>2, <2>3 DEF CreateNamespace
<1>2. faults' = 0 /\ ~raised' => ns'[n] = [run |-> run, state |-> "active"]
  BY <1>0, <1>1 DEF CreateNamespace, Types, Fault, AlreadyExists, NsInv
<1>3. Types' /\ RunShape' /\ DnsInv' /\ BareInv'
  BY <1>0, <1>1, PhaseFrame DEF Types
<1>4. NeonInv'
  BY <1>0 DEF NeonInv, Passed, tool
<1>5. NsInv'
  <2> SUFFICES ASSUME faults' = 0, ~raised'
               PROVE  /\ \A m \in Namespace \ todo' : IsFresh(m)'
                      /\ \A m \in todo' : ns'[m].state # "active"
    BY <1>0 DEF NsInv, Passed, tool
  <2>1. /\ \A m \in Namespace \ todo : IsFresh(m)
        /\ \A m \in todo : ns[m].state # "active"
    BY <1>0, <1>1 DEF NsInv
  <2>2. \A m \in Namespace \ todo' : IsFresh(m)'
    BY <1>0, <1>1, <1>2, <2>1 DEF IsFresh, tool
  <2>3. \A m \in todo' : m \in Namespace \ {n} /\ m \in todo
    BY <1>0, WorkOf DEF Types
  <2> QED
    BY <1>1, <2>1, <2>2, <2>3
<1> QED
  BY <1>3, <1>4, <1>5, TypesOfNext DEF DInv

LEMMA InstallNeonStep ==
  ASSUME DInv, NEW n \in Namespace, InstallNeon(n)
  PROVE  DInv'
<1>0. /\ Types /\ at = 8 /\ NsInv /\ NeonInv /\ raised \in BOOLEAN
      /\ todo' = todo \ {n}
      /\ UNCHANGED <<tool, at, step, cur, done, lb, dnsState, ns, push>>
  BY TypesOf, InPhase DEF DInv, InstallNeon, Types, DoneWith
<1>1. /\ neon' \in [Namespace -> 0..MaxRuns]
      /\ raised' \in BOOLEAN /\ (~raised' => ~raised)
      /\ faults' \in 0..MaxFaults /\ (faults' = 0 => faults = 0)
      /\ \A m \in Namespace \ {n} : neon'[m] = neon[m]
      /\ ~raised' => neon'[n] = run /\ ns[n].state = "active"
  <2>0. /\ run \in 0..MaxRuns /\ neon \in [Namespace -> 0..MaxRuns]
        /\ faults \in 0..MaxFaults
    BY <1>0 DEF Types
  <2>1. CASE /\ CanInstall(n) /\ neon' = [neon EXCEPT ![n] = run]
             /\ UNCHANGED <<raised, faults>>
    BY <1>0, <2>0, <2>1 DEF CanInstall
  <2>2. CASE Raise /\ UNCHANGED neon /\ (Fault \/ UNCHANGED faults)
    <3>1. raised' = TRUE
      BY <2>2 DEF Raise
    <3>2. faults' \in 0..MaxFaults /\ (faults' = 0 => faults = 0)
      BY <2>0, <2>2 DEF Fault
    <3> QED
      BY <2>0, <2>2, <3>1, <3>2
  <2> QED
    BY <2>1, <2>2 DEF InstallNeon
<1>2. Types' /\ RunShape' /\ DnsInv' /\ BareInv'
  BY <1>0, <1>1, PhaseFrame DEF Types
<1>3. NeonInv'
  <2> SUFFICES ASSUME ~cleanup, ~raised', NEW m \in Namespace \ todo'
               PROVE  HasNeon(m)'
    BY <1>0 DEF NeonInv, Passed, tool
  <2> QED
    BY <1>0, <1>1 DEF NeonInv, HasNeon, tool
<1>4. NsInv'
  BY <1>0, <1>1 DEF NsInv, Passed, IsFresh, tool
<1> QED
  BY <1>2, <1>3, <1>4, TypesOfNext DEF DInv

\* The cluster completes the deletion of a namespace, at any time.
LEMMA TerminatedStep ==
  ASSUME DInv, NEW n \in Namespace, Terminated(n)
  PROVE  DInv'
<1>0. /\ Types /\ RunShape /\ DnsInv /\ BareInv /\ NsInv /\ NeonInv
      /\ ns[n].state = "terminating"
      /\ UNCHANGED <<tool, at, todo, step, cur, raised, done, lb, dnsState, faults>>
      /\ push' = push \ {n}
  BY TypesOf DEF DInv, Terminated
<1>1. /\ ns' \in [Namespace -> [run : 0..MaxRuns,
                                state : {"absent", "active", "terminating"}]]
      /\ neon' \in [Namespace -> 0..MaxRuns]
      /\ \A m \in Namespace \ {n} : ns'[m] = ns[m] /\ neon'[m] = neon[m]
      /\ ns'[n].state = "absent"
  BY <1>0 DEF Terminated, Types
<1>2. Types'
  BY <1>0, <1>1 DEF Types, tool, dnsState
<1>3. RunShape' /\ DnsInv'
  BY <1>0 DEF RunShape, DnsInv, Passed, HasDns, ClusterOf, tool, dnsState
<1>4. BareInv'
  <2>1. Broken' = Broken
    BY <1>0 DEF Broken, Bare, ClusterOf, tool, dnsState
  <2> QED
    BY <1>0, <2>1 DEF BareInv, tool
<1>5. \A m \in Namespace : /\ HasNeon(m) => HasNeon(m)'
                           /\ IsFresh(m) => IsFresh(m)'
                           /\ ns[m].state # "active" => ns'[m].state # "active"
  BY <1>0, <1>1 DEF HasNeon, IsFresh, tool
<1>6. NeonInv'
  BY <1>0, <1>5 DEF NeonInv, Passed, tool
<1>7. NsInv'
  <2>1. at \in {5, 6} => todo \subseteq Namespace
    BY <1>0, WorkOf DEF Types
  <2> QED
    BY <1>0, <1>5, <2>1 DEF NsInv, Passed, tool
<1> QED
  BY <1>2, <1>3, <1>4, <1>6, <1>7, TypesOfNext DEF DInv

----------------------------------------------------------------------------
\* A new run has achieved nothing.
LEMMA StartStep ==
  ASSUME DInv, NEW from \in DOMAIN Stage, NEW to \in DOMAIN Stage,
         NEW clean \in BOOLEAN, Start(from, to, clean)
  PROVE  DInv'
<1>0. /\ Types /\ BareInv /\ at = 0 /\ cur = None
      /\ run' = run + 1 /\ run' \in 0..MaxRuns /\ cleanup' \in BOOLEAN
      /\ step' = "uninstall" /\ cur' = None /\ raised' = FALSE /\ done' = 0
      /\ UNCHANGED <<known, lb, dns, release, ns, neon, push, faults>>
  BY TypesOf DEF DInv, Types, Start
<1>1. \/ /\ first' \in {1, 2, 4, 7, 9} /\ last' \in 1..9
         /\ first' <= last' /\ at' = first' /\ todo' = Work(first')
      \/ first' = 0 /\ last' = 0 /\ at' = 0 /\ todo' = {}
  BY StartShape
<1>2. Types'
  <2>1. todo' \subseteq IF at' = 0 THEN {} ELSE Work(at')
    BY <1>1, WorkOf
  <2>2. at' \in 0..9 /\ first' \in 0..9 /\ last' \in 0..9 /\ done' \in 0..9
    BY <1>0, <1>1
  <2> QED
    BY <1>0, <2>1, <2>2 DEF Types
<1>3. RunShape'
  BY <1>1 DEF RunShape
<1>4. ~Passed(3)' /\ ~Passed(8)' /\ ~Passed(6)'
  BY <1>0, <1>1 DEF Passed
<1>5. NsInv' /\ NeonInv' /\ DnsInv'
  BY <1>1, <1>4, WorkOf DEF NsInv, NeonInv, DnsInv
<1>6. BareInv'
  <2>1. Broken' = Broken /\ Broken \subseteq Region
    BY <1>0 DEF Broken, Bare
  <2>2. Cardinality(Broken) \in Nat
    BY <2>1, FS_Subset, FS_CardinalityType
  <2> QED
    BY <1>0, <1>1, <2>1, <2>2 DEF BareInv, Types
<1> QED
  BY <1>2, <1>3, <1>5, <1>6, TypesOfNext DEF DInv

\* A phase is over: the run stops or goes on to the next one.
LEMMA AdvanceStep ==
  ASSUME DInv, Advance
  PROVE  DInv'
<1>0. /\ Types /\ RunShape /\ DnsInv /\ BareInv /\ NsInv /\ NeonInv
      /\ at # 0 /\ todo = {} /\ cur = None /\ first # 0 /\ first <= at /\ at <= last
      /\ UNCHANGED <<tool, step, cur, raised, lb, dnsState, ns, neon, push, faults>>
  BY TypesOf DEF DInv, RunShape, Advance, Stop
<1>1. \/ at' = 0 /\ done' = 0 /\ todo' = {}
      \/ ~raised /\ at' = 0 /\ done' = at /\ todo' = {}
      \/ /\ ~raised /\ at' \in (at + 1)..last /\ todo' = Work(at') /\ UNCHANGED done
         /\ at' = at + 1 \/ (cleanup /\ at = 7 /\ at' = 9)
  <2>1. CASE raised
    BY <2>1 DEF Advance, Stop
  <2>2. CASE ~raised /\ at = last
    BY <2>2 DEF Advance, Stop
  <2>3. CASE ~raised /\ at # last
    <3> DEFINE next == IF Phase[at + 1] = "neon-install" /\ cleanup
                         THEN at + 2 ELSE at + 1
    <3>1. /\ at \in 1..8 /\ last \in 1..9
          /\ next = at + 1 \/ (cleanup /\ at = 7 /\ next = 9)
      BY <1>0, <2>3, Phases DEF Types
    <3>2. IF next > last THEN Stop(at)
          ELSE at' = next /\ todo' = Work(next) /\ UNCHANGED done
      BY <2>3, Zenon DEF Advance
    <3> HIDE DEF next
    <3> QED
      BY <2>3, <3>1, <3>2 DEF Stop
  <2> QED
    BY <2>1, <2>2, <2>3
<1>2. Types'
  <2>1. todo' \subseteq IF at' = 0 THEN {} ELSE Work(at')
    BY <1>0, <1>1, WorkOf DEF Types
  <2>2. at' \in 0..9 /\ done' \in 0..9
    BY <1>0, <1>1 DEF Types
  <2> QED
    BY <1>0, <2>1, <2>2 DEF Types, tool, dnsState
<1>3. RunShape'
  BY <1>0, <1>1 DEF RunShape, tool, Types
<1>4. \A p \in 1..9 :
        Passed(p)' => Passed(p) \/ (at = p /\ ~raised) \/ (p = 8 /\ cleanup)
  BY <1>0, <1>1 DEF Passed, tool, Types
<1>5. DnsInv'
  <2>1. \A r \in Region : HasDns(r) => HasDns(r)'
    BY <1>0 DEF HasDns, ClusterOf, tool, dnsState
  <2>2. Cardinality(Region) > 1 /\ Passed(3)' => \A r \in Region : HasDns(r)
    BY <1>0, <1>4 DEF DnsInv
  <2>3. Cardinality(Region) > 1 /\ at' = 3 => todo' = Region
    BY <1>1, WorkOf
  <2> QED
    BY <2>1, <2>2, <2>3 DEF DnsInv
<1>6. NeonInv'
  <2>1. \A n \in Namespace : HasNeon(n) => HasNeon(n)'
    BY <1>0 DEF HasNeon, tool
  <2>2. ~cleanup /\ Passed(8)' => \A n \in Namespace : HasNeon(n)
    BY <1>0, <1>4 DEF NeonInv
  <2>3. at' = 8 => todo' = Namespace
    BY <1>1, WorkOf
  <2> QED
    BY <1>0, <2>1, <2>2, <2>3 DEF NeonInv, tool
<1>7. NsInv'
  <2>1. \A n \in Namespace : IsFresh(n) => IsFresh(n)'
    BY <1>0 DEF IsFresh, tool
  <2>2. faults = 0 /\ Passed(6)' => \A n \in Namespace : IsFresh(n)
    BY <1>0, <1>4 DEF NsInv
  <2>3. at' \in {5, 6} => todo' = Namespace
    BY <1>1, WorkOf
  <2>4. at' = 6 => at = 5 /\ ~raised
    BY <1>0, <1>1 DEF Types
  <2>5. faults = 0 /\ at' = 6 => \A n \in Namespace : ns[n].state # "active"
    BY <1>0, <2>4 DEF NsInv
  <2> QED
    BY <1>0, <2>1, <2>2, <2>3, <2>5 DEF NsInv
<1>8. BareInv'
  <2>1. Broken' = Broken /\ Broken \subseteq Region
    BY <1>0 DEF Broken, Bare, dnsState
  <2>2. Cardinality(Broken) \in Nat
    BY <2>1, FS_Subset, FS_CardinalityType
  <2> QED
    BY <1>0, <2>1, <2>2 DEF BareInv, Types, tool
<1> QED
  BY <1>2, <1>3, <1>5, <1>6, <1>7, <1>8, TypesOfNext DEF DInv

----------------------------------------------------------------------------
LEMMA DInvInit == Init => DInv
<1> SUFFICES ASSUME Init PROVE DInv
  OBVIOUS
<1>1. TypeOK
  <2>1. \A phase : ~In(phase)
    BY DEF Init, In
  <2>2. cleanup \in BOOLEAN /\ raised \in BOOLEAN
    BY Zenon DEF Init
  <2>3. {at, first, last, done} \subseteq 0..Len(Phase)
    BY Phases DEF Init
  <2> QED
    BY <2>1, <2>2, <2>3 DEF Init, TypeOK
<1>2. RunShape /\ DnsInv /\ NeonInv /\ NsInv
  BY DEF Init, RunShape, DnsInv, NeonInv, NsInv, Passed
<1>3. BareInv
  <2>1. Broken = {}
    BY DEF Init, Broken, Bare
  <2> QED
    BY <2>1, FS_EmptySet DEF Init, BareInv
<1> QED
  BY <1>1, <1>2, <1>3 DEF DInv

\* What a run has achieved is kept to its end, and DNS is broken by the run at
\* hand in one cluster at the most.
THEOREM DInvHolds == Spec => []DInv
<1>1. DInv /\ [Next]_vars => DInv'
  <2> SUFFICES ASSUME DInv, [Next]_vars PROVE DInv'
    OBVIOUS
  <2>1. CASE UNCHANGED vars
    <3>1. Types'
      BY <2>1, TypesOf DEF DInv, Types, vars
    <3>2. RunShape' /\ DnsInv'
      BY <2>1 DEF DInv, RunShape, DnsInv, Passed, HasDns, ClusterOf, vars
    <3>3. BareInv'
      BY <2>1 DEF DInv, BareInv, Broken, Bare, ClusterOf, vars
    <3>4. NeonInv' /\ NsInv'
      BY <2>1 DEF DInv, NeonInv, NsInv, Passed, HasNeon, IsFresh, vars
    <3> QED
      BY <3>1, <3>2, <3>3, <3>4, TypesOfNext DEF DInv
  <2>2. CASE Tool
    BY <2>2, AdvanceStep, DeleteConfigmapStep, InstallDnsStep, ApplyLbStep, AwaitLbStep,
       UninstallStep, CleanNeonStep, DeleteNamespaceStep, CreateNamespaceStep,
       InstallNeonStep, StartPushgatewayStep DEF Tool
  <2> QED
    BY <2>1, <2>2, StartStep, TerminatedStep DEF Next
<1> QED
  BY <1>1, DInvInit, PTL DEF Spec

\* A phase that a run covered is one it is through with.
LEMMA CoveredIsPassed ==
  ASSUME TypeOK
  PROVE  /\ Covered("dns") => Passed(3)
         /\ Covered("ns-create") => Passed(6)
         /\ Covered("neon-install") => Passed(8)
<1>1. first \in 0..9 /\ done \in 0..9
  BY TypesOf DEF Types
<1>2. \A p \in 1..9 : /\ Phase[p] = "dns" => p = 3
                      /\ Phase[p] = "ns-create" => p = 6
                      /\ Phase[p] = "neon-install" => p = 8
  BY Phases
<1> QED
  BY <1>1, <1>2 DEF Covered, Passed

\* A run that came through the DNS stage left every cluster with a configmap,
\* its own if every region has a context (set_up_dns of deploy.py).
THEOREM DnsIsCompleteHolds == Spec => []DnsIsComplete
<1>1. DInv => DnsIsComplete
  BY CoveredIsPassed DEF DInv, DnsInv, HasDns, DnsIsComplete
<1> QED
  BY <1>1, DInvHolds, PTL

\* Each run breaks the DNS of one cluster at the most (install_dns_configmap).
THEOREM OneClusterPerRunHolds == Spec => []OneClusterPerRun
<1>1. ASSUME DInv PROVE OneClusterPerRun
  <2>0. Types /\ BareInv
    BY <1>1, TypesOf DEF DInv
  <2>1. Bare \subseteq Region /\ (cur # None => ClusterOf(cur) \in Region)
    BY <2>0, ClusterType DEF Bare, Types
  <2>2. IsFiniteSet(Bare) /\ Cardinality(Bare) \in Nat
    BY <2>1, FS_Subset, FS_CardinalityType
  <2>3. CASE cur = None
    BY <2>0, <2>2, <2>3 DEF BareInv, Broken, Bare, OneClusterPerRun, Types
  <2>4. CASE cur # None
    <3> DEFINE c == ClusterOf(cur)
    <3> HIDE DEF c
    <3>1. /\ Cardinality(Bare \ {c}) + 1 <= run /\ IsFiniteSet(Bare \ {c})
          /\ Cardinality(Bare \ {c}) \in Nat
      <4>1. IsFiniteSet(Bare \ {c})
        BY <2>2, FS_Subset
      <4> QED
        BY <2>0, <2>4, <4>1, FS_CardinalityType DEF BareInv, Broken, Types, c
    <3>2. Cardinality(Bare) <= Cardinality(Bare \ {c}) + 1
      <4>1. CASE c \in Bare
        BY <2>2, <3>1, <4>1, FS_RemoveElement
      <4>2. CASE c \notin Bare
        <5>1. Bare \ {c} = Bare
          BY <4>2
        <5>2. Cardinality(Bare \ {c}) = Cardinality(Bare)
          BY <5>1, Zenon
        <5> QED
          BY <2>2, <5>2
      <4> QED
        BY <4>1, <4>2
    <3>3. Cardinality(Bare) <= run
      BY <2>0, <2>2, <3>1, <3>2 DEF Types
    <3> QED
      BY <3>3 DEF OneClusterPerRun, Bare
  <2> QED
    BY <2>3, <2>4
<1> QED
  BY <1>1, DInvHolds, PTL

\* A run that came through the Neon stage installed Neon in every namespace
\* itself (deploy_neon), although the clean-up before it may have failed.
THEOREM NeonIsFreshHolds == Spec => []NeonIsFresh
<1>1. DInv => NeonIsFresh
  BY CoveredIsPassed DEF DInv, NeonInv, HasNeon, NeonIsFresh
<1> QED
  BY <1>1, DInvHolds, PTL

\* Without failures a run that came through the namespace stage created every
\* namespace anew (create_namespace waits for the end of the deletion).
THEOREM NamespacesAreFreshHolds == Spec => []NamespacesAreFresh
<1>1. DInv => NamespacesAreFresh
  BY CoveredIsPassed DEF DInv, NsInv, IsFresh, NamespacesAreFresh
<1> QED
  BY <1>1, DInvHolds, PTL
=============================================================================
