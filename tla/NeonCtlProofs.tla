---------------------------- MODULE NeonCtlProofs ----------------------------
(***************************************************************************)
(* Proofs about the local cluster tool: the servers that run agree on the  *)
(* numbers of the regions, the pid files name them, and no region has two. *)
(*                                                                         *)
(* The order of the regions is a sort by rank: every directory has a place *)
(* in it, and one only.  That the pid files are right is an argument about *)
(* whole commands: start refuses a region whose endpoint runs, a server    *)
(* runs only while its endpoint does, and stop ends the servers before the *)
(* endpoints.  So a start that comes to the servers finds none running,    *)
(* whatever has become of the directories, and its numbering is the only   *)
(* one (AgreeInv).                                                         *)
(***************************************************************************)
EXTENDS NeonCtl, FunctionTheorems, FiniteSetTheorems, SequenceTheorems, TLAPS

Items(s) == {s[k] : k \in DOMAIN s}
Once(s) == \A k, l \in DOMAIN s : s[k] = s[l] => k = l

PhaseName == {"none", "init", "branch", "clone", "endpoint", "neon", "servers",
              "stop-servers", "stop-neon", "remove"}

Server == [region : Region, node : Region, nodes : Seq(Region),
           state : {"running", "ending", "ended"}]

Types ==
  /\ command \in {"none", "create", "start", "stop", "destroy"} /\ phase \in PhaseName
  /\ todo \in Seq(Region) /\ Once(todo)
  /\ order \in Seq(Region) /\ Once(order) /\ Len(order) <= NumRegions + 1
  /\ manual \in BOOLEAN /\ byHand \in BOOLEAN /\ (manual => byHand)
  /\ dirs \subseteq Region /\ data \subseteq dirs /\ neon \subseteq Region
  /\ endpoint \in [Region -> {"none", "stopped", "running"}]
  /\ pidfile \in [Region -> Nat \cup {None, Empty}]
  /\ server \in Seq(Server)
  /\ commands \in 0..MaxCommands /\ faults \in 0..MaxFaults

\* What each phase goes through.
PhaseInv ==
  /\ phase \in {"neon", "servers", "stop-servers", "stop-neon"} =>
       Items(order) = dirs /\ Items(todo) \subseteq dirs
  /\ phase \in {"clone", "endpoint"} => Items(todo) \subseteq Region \ {0}

PidInv ==
  \A r \in Region : pidfile[r] \in Nat =>
    pidfile[r] \in Servers /\ server[pidfile[r]].region = r

\* Ports belong to one server at a time.
PortsInv ==
  \A p, q \in Servers : /\ p # q /\ server[p].state # "ended" /\ server[q].state # "ended"
                        => server[p].node # server[q].node

\* The place of a region in a list.
PlaceIn(nodes, r) == (CHOOSE k \in DOMAIN nodes : nodes[k] = r) - 1

\* A server's number is the place of its region in the list it was given.
PlaceInv ==
  \A p \in Servers : server[p].node = PlaceIn(server[p].nodes, server[p].region)

\* An endpoint runs on the data of its region.
DataInv == \A r \in Region : endpoint[r] = "running" => r \in data

\* create gives no endpoint to a region whose endpoint runs.
CreateInv ==
  /\ phase = "clone" =>
       \A r \in Region \ {0} : r \in Items(todo) \/ endpoint[r] # "running"
  /\ phase = "endpoint" => \A r \in Region \ {0} : endpoint[r] # "running"

Live(r) == \E p \in Servers : server[p].state = "running" /\ server[p].region = r

\* A server that runs is named by its pid file, and its endpoint runs.
NamedInv ==
  ~byHand =>
    /\ \A p \in Servers : server[p].state = "running" => pidfile[server[p].region] = p
    /\ \A r \in Region : Live(r) => endpoint[r] = "running"

\* The servers that run, in each phase of start, stop and destroy.
StepInv ==
  ~byHand =>
    /\ phase = "neon" =>
         \A r \in dirs \ Items(todo) : ~Live(r) /\ endpoint[r] = "running"
    /\ phase = "servers" =>
         /\ \A r \in Items(todo) : ~Live(r)
         /\ \A r \in dirs : endpoint[r] = "running"
    /\ phase = "stop-servers" => \A r \in dirs \ Items(todo) : ~Live(r)
    /\ phase \in {"stop-neon", "remove"} => \A r \in Region : ~Live(r)

KInv ==
  /\ Types /\ PhaseInv /\ PidInv /\ PortsInv /\ PlaceInv /\ DataInv /\ CreateInv
  /\ NamedInv /\ StepInv

----------------------------------------------------------------------------
\* before gives for each element of S the ones before it, in a total order.
IsOrder(before, S) ==
  /\ before \in [S -> SUBSET S]
  /\ \A r \in S : r \notin before[r]
  /\ \A r \in S : \A s \in before[r] : before[s] \subseteq before[r]
  /\ \A r, s \in S : r # s => s \in before[r] \/ r \in before[s]

\* The k-th element of q is one with k - 1 elements before it, if there is one.
IsByRank(q, before, S) ==
  \A k \in 1..Cardinality(S) :
    (\E r \in S : Cardinality(before[r]) = k - 1) =>
      q[k] \in S /\ Cardinality(before[q[k]]) = k - 1

\* A sort by rank: the sequence whose k-th element has k - 1 elements before
\* it holds every element, and holds it once.
LEMMA SortByRank ==
  ASSUME NEW S, IsFiniteSet(S), NEW before, IsOrder(before, S),
         NEW U, NEW q \in [1..Cardinality(S) -> U], IsByRank(q, before, S)
  PROVE  q \in Seq(S) /\ Once(q) /\ Items(q) = S /\ Len(q) = Cardinality(S)
<1> DEFINE n == Cardinality(S)
           T == 0..(n - 1)
           rank == [r \in S |-> Cardinality(before[r])]
<1>a. /\ before \in [S -> SUBSET S]
      /\ \A r \in S : r \notin before[r]
      /\ \A r \in S : \A s \in before[r] : before[s] \subseteq before[r]
      /\ \A r, s \in S : r # s => s \in before[r] \/ r \in before[s]
  BY DEF IsOrder
<1>b. \A k \in 1..Cardinality(S) :
        (\E r \in S : Cardinality(before[r]) = k - 1) =>
          q[k] \in S /\ Cardinality(before[q[k]]) = k - 1
  BY DEF IsByRank
<1>0. n \in Nat
  BY FS_CardinalityType
<1>1. \A r \in S : /\ IsFiniteSet(before[r]) /\ rank[r] = Cardinality(before[r])
                   /\ rank[r] \in T
  <2> SUFFICES ASSUME NEW r \in S
               PROVE  IsFiniteSet(before[r]) /\ Cardinality(before[r]) \in T
    OBVIOUS
  <2>1. before[r] \subseteq S \ {r}
    BY <1>a
  <2>2. IsFiniteSet(S \ {r}) /\ Cardinality(S \ {r}) = n - 1
    BY FS_RemoveElement
  <2>3. IsFiniteSet(before[r]) /\ Cardinality(before[r]) <= n - 1
    BY <2>1, <2>2, FS_Subset
  <2>4. Cardinality(before[r]) \in Nat
    BY <2>3, FS_CardinalityType
  <2> QED
    BY <1>0, <2>3, <2>4
<1>2. ASSUME NEW r \in S, NEW s \in before[r]
      PROVE  rank[s] < rank[r]
  <2>1. s \in S /\ before[s] \subseteq before[r] /\ before[s] # before[r]
    BY <1>a, <1>2
  <2>2. Cardinality(before[s]) <= Cardinality(before[r])
        /\ Cardinality(before[s]) # Cardinality(before[r])
    BY <1>1, <2>1, FS_Subset
  <2>3. rank[s] \in Int /\ rank[r] \in Int
    BY <1>0, <1>1, <2>1
  <2> QED
    BY <1>1, <2>1, <2>2, <2>3
<1>3. \A r, s \in S : rank[r] = rank[s] => r = s
  <2> SUFFICES ASSUME NEW r \in S, NEW s \in S, rank[r] = rank[s], r # s
               PROVE  FALSE
    OBVIOUS
  <2>1. rank[r] \in Int /\ rank[s] \in Int
    BY <1>0, <1>1
  <2> HIDE DEF rank
  <2>2. CASE s \in before[r]
    BY <1>2, <2>1, <2>2
  <2>3. CASE r \in before[s]
    BY <1>2, <2>1, <2>3
  <2> QED
    BY <1>a, <2>2, <2>3
<1>4. IsFiniteSet(T) /\ Cardinality(T) = n
  <2> HIDE DEF n
  <2>1. 0 \in Int /\ n - 1 \in Int /\ (0 > n - 1 => n = 0)
    BY <1>0
  <2> QED
    BY <1>0, <2>1, FS_Interval
<1>5. rank \in [S -> T]
  BY <1>1
<1> HIDE DEF rank, T
<1>6. \A t \in T : \E r \in S : rank[r] = t
  <2>1. rank \in Injection(S, T)
    BY <1>3, <1>5, Fun_IsInj
  <2>2. rank \in Surjection(S, T)
    BY <1>4, <2>1, FS_Injection
  <2> QED
    BY <2>2, Fun_SurjectionProperties
<1>7. \A k \in 1..n : q[k] \in S /\ rank[q[k]] = k - 1
  <2> SUFFICES ASSUME NEW k \in 1..n PROVE q[k] \in S /\ rank[q[k]] = k - 1
    OBVIOUS
  <2>1. k - 1 \in T
    BY <1>0 DEF T
  <2>2. \E r \in S : Cardinality(before[r]) = k - 1
    BY <1>1, <1>6, <2>1
  <2>4. q[k] \in S /\ Cardinality(before[q[k]]) = k - 1
    BY <1>b, <2>2
  <2> QED
    BY <1>1, <2>4
<1>8. DOMAIN q = 1..n
  OBVIOUS
<1>9. q \in Seq(S) /\ Len(q) = n
  <2>1. q \in [1..n -> S]
    BY <1>7
  <2> HIDE DEF n
  <2>2. q \in Seq(S)
    BY <1>0, <2>1, SeqDef
  <2> QED
    BY <1>0, <2>1, <2>2, LenProperties
<1>10. Once(q)
  <2> SUFFICES ASSUME NEW k \in 1..n, NEW l \in 1..n, q[k] = q[l] PROVE k = l
    BY <1>8 DEF Once
  <2>1. k - 1 = l - 1
    BY <1>7
  <2> QED
    BY <2>1
<1>11. Items(q) = S
  <2>1. Items(q) \subseteq S
    BY <1>7, <1>8 DEF Items
  <2>2. ASSUME NEW r \in S PROVE r \in Items(q)
    <3>1. rank[r] \in T /\ rank[r] + 1 \in 1..n
      BY <1>0, <1>5 DEF T
    <3>2. q[rank[r] + 1] \in S /\ rank[q[rank[r] + 1]] = (rank[r] + 1) - 1
      BY <1>7, <3>1
    <3>3. (rank[r] + 1) - 1 = rank[r]
      BY <3>1 DEF T
    <3>4. q[rank[r] + 1] = r
      BY <1>3, <3>2, <3>3
    <3> QED
      BY <1>8, <3>1, <3>4 DEF Items
  <2> QED
    BY <2>1, <2>2
<1> QED
  BY <1>9, <1>10, <1>11

\* The names of directories are strictly and totally ordered.
LEMMA NameOrder ==
  /\ \A r \in 0..98 : ~NameBefore(r, r)
  /\ \A r, s, t \in 0..98 : NameBefore(r, s) /\ NameBefore(s, t) => NameBefore(r, t)
  /\ \A r, s \in 0..98 : r # s => NameBefore(r, s) \/ NameBefore(s, r)
<1> DEFINE d1 == [m \in 0..98 |-> IF m < 10 THEN m ELSE m \div 10]
           d2 == [m \in 0..98 |-> IF m < 10 THEN 0 ELSE 1 + (m % 10)]
<1>1. \A r, s \in 0..98 :
        NameBefore(r, s) <=> d1[r] < d1[s] \/ (d1[r] = d1[s] /\ d2[r] < d2[s])
  BY DEF NameBefore
<1>2. \A r \in 0..98 : d1[r] \in Nat /\ d2[r] \in Nat
  OBVIOUS
<1>3. \A r, s \in 0..98 : d1[r] = d1[s] /\ d2[r] = d2[s] => r = s
  OBVIOUS
<1> HIDE DEF d1, d2
<1>4. ASSUME NEW r \in 0..98 PROVE ~NameBefore(r, r)
  <2>1. NameBefore(r, r) <=> d1[r] < d1[r] \/ (d1[r] = d1[r] /\ d2[r] < d2[r])
    BY <1>1
  <2>2. d1[r] \in Nat /\ d2[r] \in Nat
    BY <1>2
  <2> QED
    BY <2>1, <2>2
<1>5. ASSUME NEW r \in 0..98, NEW s \in 0..98, NEW t \in 0..98,
             NameBefore(r, s), NameBefore(s, t)
      PROVE  NameBefore(r, t)
  <2>1. /\ d1[r] < d1[s] \/ (d1[r] = d1[s] /\ d2[r] < d2[s])
        /\ d1[s] < d1[t] \/ (d1[s] = d1[t] /\ d2[s] < d2[t])
    BY <1>1, <1>5
  <2>2. /\ d1[r] \in Nat /\ d2[r] \in Nat /\ d1[s] \in Nat /\ d2[s] \in Nat
        /\ d1[t] \in Nat /\ d2[t] \in Nat
    BY <1>2
  <2>3. d1[r] < d1[t] \/ (d1[r] = d1[t] /\ d2[r] < d2[t])
    BY <2>1, <2>2
  <2> QED
    BY <1>1, <2>3
<1>6. ASSUME NEW r \in 0..98, NEW s \in 0..98, r # s
      PROVE  NameBefore(r, s) \/ NameBefore(s, r)
  <2>1. d1[r] # d1[s] \/ d2[r] # d2[s]
    BY <1>3, <1>6
  <2>2. d1[r] \in Nat /\ d2[r] \in Nat /\ d1[s] \in Nat /\ d2[s] \in Nat
    BY <1>2
  <2>3. \/ d1[r] < d1[s] \/ (d1[r] = d1[s] /\ d2[r] < d2[s])
        \/ d1[s] < d1[r] \/ (d1[s] = d1[r] /\ d2[s] < d2[r])
    BY <2>1, <2>2
  <2> QED
    BY <1>1, <2>3
<1> QED
  BY <1>4, <1>5, <1>6

\* get_regions_in_root_dir lists every directory once.
LEMMA InOrderIs ==
  ASSUME NEW S \in SUBSET Region
  PROVE  /\ InOrder(S) \in Seq(S) /\ Once(InOrder(S)) /\ Items(InOrder(S)) = S
         /\ Len(InOrder(S)) <= NumRegions + 1
<1> DEFINE before == [r \in S |-> {s \in S : NameBefore(s, r)}]
<1>0. IsFiniteSet(Region) /\ Cardinality(Region) = NumRegions + 1
  BY FS_Interval, NumRegionsAssumption DEF Region
<1>1. IsFiniteSet(S) /\ Cardinality(S) <= NumRegions + 1
  BY <1>0, FS_Subset
<1>2. \A r \in S : r \in 0..98
  BY NumRegionsAssumption DEF Region
<1>3. /\ before \in [S -> SUBSET S]
      /\ \A r \in S : r \notin before[r]
      /\ \A r \in S : \A s \in before[r] : before[s] \subseteq before[r]
      /\ \A r, s \in S : r # s => s \in before[r] \/ r \in before[s]
  <2>1. before \in [S -> SUBSET S]
    OBVIOUS
  <2>2. \A r \in S, s \in S : s \in before[r] <=> NameBefore(s, r)
    OBVIOUS
  <2> HIDE DEF before
  <2> QED
    BY <1>2, <2>1, <2>2, NameOrder
<1> DEFINE q == InOrder(S)
           e(k) == CHOOSE r \in S : Cardinality({s \in S : NameBefore(s, r)}) = k - 1
           U == {e(k) : k \in 1..Cardinality(S)}
<1>4. q \in [1..Cardinality(S) -> U]
  <2>1. q = [k \in 1..Cardinality(S) |-> e(k)]
    BY DEF InOrder
  <2> HIDE DEF q, e
  <2> QED
    BY <2>1
<1>5. ASSUME NEW k \in 1..Cardinality(S), \E r \in S : Cardinality(before[r]) = k - 1
      PROVE  q[k] \in S /\ Cardinality(before[q[k]]) = k - 1
  <2>1. \A r \in S : Cardinality(before[r]) = Cardinality({s \in S : NameBefore(s, r)})
    OBVIOUS
  <2>2. q[k] = CHOOSE r \in S : Cardinality({s \in S : NameBefore(s, r)}) = k - 1
    BY DEF InOrder
  <2>3. q[k] \in S /\ Cardinality({s \in S : NameBefore(s, q[k])}) = k - 1
    <3> HIDE DEF q, before
    <3> QED
      BY <1>5, <2>1, <2>2
  <2> QED
    BY <2>1, <2>3
<1> HIDE DEF before, q, U
<1>7. IsOrder(before, S) /\ IsByRank(q, before, S)
  BY <1>3, <1>5 DEF IsOrder, IsByRank
<1>6. q \in Seq(S) /\ Once(q) /\ Items(q) = S /\ Len(q) = Cardinality(S)
  BY <1>1, <1>4, <1>7, SortByRank, Zenon
<1> QED
  BY <1>1, <1>6 DEF q

\* create goes through the regions but the global one, each once.
LEMMA AscendingIs ==
  LET S == Region \ {0} IN
  Ascending(S) \in Seq(S) /\ Once(Ascending(S)) /\ Items(Ascending(S)) = S
<1> DEFINE S == Region \ {0}
           before == [r \in S |-> {s \in S : s < r}]
<1>1. IsFiniteSet(S)
  <2>1. IsFiniteSet(Region)
    BY FS_Interval, NumRegionsAssumption DEF Region
  <2> QED
    BY <2>1, FS_RemoveElement
<1>3. /\ before \in [S -> SUBSET S]
      /\ \A r \in S : r \notin before[r]
      /\ \A r \in S : \A s \in before[r] : before[s] \subseteq before[r]
      /\ \A r, s \in S : r # s => s \in before[r] \/ r \in before[s]
  BY NumRegionsAssumption DEF Region
<1> DEFINE q == Ascending(S)
           e(k) == CHOOSE r \in S : Cardinality({s \in S : s < r}) = k - 1
           U == {e(k) : k \in 1..Cardinality(S)}
<1> HIDE DEF S
<1>4. q \in [1..Cardinality(S) -> U]
  <2>1. q = [k \in 1..Cardinality(S) |-> e(k)]
    BY DEF Ascending
  <2> HIDE DEF q, e
  <2> QED
    BY <2>1
<1>5. ASSUME NEW k \in 1..Cardinality(S), \E r \in S : Cardinality(before[r]) = k - 1
      PROVE  q[k] \in S /\ Cardinality(before[q[k]]) = k - 1
  <2>1. \A r \in S : Cardinality(before[r]) = Cardinality({s \in S : s < r})
    OBVIOUS
  <2>2. q[k] = CHOOSE r \in S : Cardinality({s \in S : s < r}) = k - 1
    BY DEF Ascending
  <2>3. q[k] \in S /\ Cardinality({s \in S : s < q[k]}) = k - 1
    <3> HIDE DEF q, before
    <3> QED
      BY <1>5, <2>1, <2>2
  <2> QED
    BY <2>1, <2>3
<1> HIDE DEF before, q, U
<1>7. IsOrder(before, S) /\ IsByRank(q, before, S)
  BY <1>3, <1>5 DEF IsOrder, IsByRank
<1>6. q \in Seq(S) /\ Once(q) /\ Items(q) = S
  BY <1>1, <1>4, <1>7, SortByRank, Zenon
<1> QED
  BY <1>6 DEF q, S

\* The rest of a sequence without repetitions.
LEMMA TailIs ==
  ASSUME NEW S, NEW s \in Seq(S), Once(s), s # <<>>
  PROVE  /\ Tail(s) \in Seq(S) /\ Once(Tail(s))
         /\ Head(s) \in S /\ Head(s) \in Items(s)
         /\ Items(Tail(s)) = Items(s) \ {Head(s)}
<1>0. /\ Tail(s) \in Seq(S) /\ Head(s) \in S /\ Head(s) = s[1] /\ Len(s) \in Nat \ {0}
      /\ Len(Tail(s)) = Len(s) - 1 /\ DOMAIN s = 1..Len(s)
      /\ DOMAIN Tail(s) = 1..(Len(s) - 1)
      /\ \A i \in 1..(Len(s) - 1) : Tail(s)[i] = s[i + 1]
  OBVIOUS
<1>1. Once(Tail(s))
  BY <1>0 DEF Once
<1>2. Head(s) \in Items(s)
  BY <1>0 DEF Items
<1>3. ASSUME NEW x \in Items(Tail(s)) PROVE x \in Items(s) \ {Head(s)}
  <2>1. PICK i \in 1..(Len(s) - 1) : x = s[i + 1]
    BY <1>0, <1>3 DEF Items
  <2>2. i + 1 \in 1..Len(s) /\ i + 1 # 1 /\ 1 \in 1..Len(s)
    BY <1>0
  <2> QED
    BY <1>0, <2>1, <2>2 DEF Items, Once
<1>4. ASSUME NEW x \in Items(s) \ {Head(s)} PROVE x \in Items(Tail(s))
  <2>1. PICK i \in 1..Len(s) : x = s[i]
    BY <1>0, <1>4 DEF Items
  <2>2. i # 1 /\ i - 1 \in 1..(Len(s) - 1)
    BY <1>0, <1>4, <2>1
  <2>3. Tail(s)[i - 1] = s[(i - 1) + 1] /\ (i - 1) + 1 = i
    BY <1>0, <2>2
  <2> QED
    BY <1>0, <2>1, <2>2, <2>3 DEF Items
<1> QED
  BY <1>0, <1>1, <1>2, <1>3, <1>4

----------------------------------------------------------------------------
\* The order of a set of directories is a sequence of regions.
LEMMA InOrderType ==
  ASSUME NEW S \in SUBSET Region
  PROVE  InOrder(S) \in Seq(Region)
BY InOrderIs, SeqMonotonic

LEMMA AscendingType == Ascending(Region \ {0}) \in Seq(Region)
<1>1. Ascending(Region \ {0}) \in Seq(Region \ {0})
  BY AscendingIs
<1>2. \A x \in Region \ {0} : x \in Region
  OBVIOUS
<1> QED
  BY <1>1, <1>2, SeqMonotonic

\* A region is done, and leaves the list.
LEMMA DidIs ==
  ASSUME Types, todo # <<>>, todo' = Tail(todo)
  PROVE  /\ todo' \in Seq(Region) /\ Once(todo')
         /\ Head(todo) \in Region /\ Head(todo) \in Items(todo)
         /\ Items(todo') = Items(todo) \ {Head(todo)}
BY TailIs DEF Types

LEMMA EmptyIs == <<>> \in Seq(Region) /\ Once(<<>>) /\ Items(<<>>) = {}
BY DEF Once, Items

\* Steps that touch neither the servers nor their pid files.
LEMMA SameServers ==
  ASSUME UNCHANGED <<pidfile, server>>, PidInv, PortsInv, PlaceInv
  PROVE  /\ PidInv' /\ PortsInv' /\ PlaceInv'
         /\ \A r : Live(r)' <=> Live(r)
BY DEF PidInv, PortsInv, PlaceInv, Live, Servers

\* Nor the endpoints: what is said of the servers stays true.
LEMMA SameNamed ==
  ASSUME UNCHANGED <<pidfile, server, endpoint>>, byHand => byHand', byHand' \in BOOLEAN,
         NamedInv, DataInv, data \subseteq data'
  PROVE  NamedInv' /\ DataInv'
BY DEF NamedInv, DataInv, Live, Servers

\* A command that ends or raises.
LEMMA EndKeeps ==
  ASSUME KInv, End, dirs' \subseteq Region, data' \subseteq dirs', neon' \subseteq Region,
         endpoint' \in [Region -> {"none", "stopped", "running"}],
         pidfile' \in [Region -> Nat \cup {None, Empty}],
         server' \in Seq(Server), faults' \in 0..MaxFaults,
         PidInv', PortsInv', PlaceInv', DataInv', NamedInv'
  PROVE  KInv'
<1>1. /\ command' = "none" /\ phase' = "none" /\ todo' = <<>>
      /\ UNCHANGED <<order, manual, commands, byHand>>
  BY DEF End
<1>2. Types'
  BY <1>1, EmptyIs DEF KInv, Types, PhaseName
<1>3. PhaseInv' /\ CreateInv' /\ StepInv'
  BY <1>1 DEF PhaseInv, CreateInv, StepInv
<1> QED
  BY <1>2, <1>3 DEF KInv

\* A command begins with the list of the directories there are.
LEMMA BeginStep ==
  ASSUME KInv, NEW c \in {"create", "start", "stop", "destroy"}, NEW m \in BOOLEAN,
         NEW p \in {"init", "neon", "stop-servers", "stop-neon"},
         p = "stop-neon" => m, Begin(c, p, m)
  PROVE  KInv'
<1>0. /\ Types /\ PhaseInv /\ PidInv /\ PortsInv /\ PlaceInv /\ DataInv /\ NamedInv
      /\ command' = c /\ phase' = p /\ manual' = m /\ byHand' = (byHand \/ m)
      /\ commands < MaxCommands /\ commands' = commands + 1
      /\ order' = InOrder(dirs) /\ todo' = order'
      /\ UNCHANGED <<faults, dirs, data, endpoint, pidfile, neon, server>>
  BY DEF KInv, Begin, disk
<1>1. /\ order' \in Seq(Region) /\ Once(order') /\ Items(order') = dirs
      /\ Len(order') <= NumRegions + 1
  BY <1>0, InOrderIs, InOrderType DEF Types
<1>2. /\ manual' \in BOOLEAN /\ byHand' \in BOOLEAN /\ (manual' => byHand')
      /\ (byHand => byHand')
  BY <1>0 DEF Types
<1>3. Types'
  <2>1. commands' \in 0..MaxCommands /\ faults' \in 0..MaxFaults
    BY <1>0, BoundsAssumption DEF Types
  <2> QED
    BY <1>0, <1>1, <1>2, <2>1 DEF Types, PhaseName
<1>4. PidInv' /\ PortsInv' /\ PlaceInv' /\ NamedInv' /\ DataInv'
  BY <1>0, <1>2, SameServers, SameNamed
<1>5. PhaseInv' /\ CreateInv'
  BY <1>0, <1>1 DEF PhaseInv, CreateInv
<1>6. StepInv'
  <2>1. dirs' \ Items(todo') = {}
    BY <1>0, <1>1
  <2>2. phase' = "stop-neon" => byHand'
    BY <1>0, <1>2
  <2>3. phase' \notin {"servers", "remove"}
    BY <1>0
  <2> QED
    BY <2>1, <2>2, <2>3 DEF StepInv
<1> QED
  BY <1>3, <1>4, <1>5, <1>6 DEF KInv

LEMMA InitGlobalStep ==
  ASSUME KInv, InitGlobal
  PROVE  KInv'
<1>0. /\ Types /\ PidInv /\ PortsInv /\ PlaceInv /\ DataInv /\ NamedInv
      /\ UNCHANGED <<endpoint, pidfile, server>>
      /\ dirs' \subseteq Region /\ data' \subseteq dirs' /\ data \subseteq data'
      /\ neon' \subseteq Region
  <2>1. 0 \in Region
    BY NumRegionsAssumption DEF Region
  <2> QED
    BY <2>1 DEF KInv, Types, InitGlobal
<1>1. faults' \in 0..MaxFaults /\ UNCHANGED byHand
  BY BoundsAssumption DEF KInv, Types, InitGlobal, Fault, Raise, End, To
<1>2. PidInv' /\ PortsInv' /\ PlaceInv' /\ NamedInv' /\ DataInv'
  BY <1>0, <1>1, SameServers, SameNamed DEF Types
<1>3. CASE Raise
  BY <1>0, <1>1, <1>2, <1>3, EndKeeps DEF Raise, Types
<1>4. CASE To("branch", <<>>)
  <2>0. /\ phase' = "branch" /\ todo' = <<>>
        /\ UNCHANGED <<command, order, manual, commands, byHand>>
    BY <1>4 DEF To
  <2>1. Types'
    BY <1>0, <1>1, <2>0, EmptyIs DEF Types, PhaseName
  <2>2. PhaseInv' /\ CreateInv' /\ StepInv'
    BY <2>0 DEF PhaseInv, CreateInv, StepInv
  <2> QED
    BY <1>2, <2>1, <2>2 DEF KInv
<1> QED
  BY <1>3, <1>4 DEF InitGlobal

LEMMA BranchStep ==
  ASSUME KInv, NEW keep \in BOOLEAN, Branch(keep)
  PROVE  KInv'
<1>0. /\ Types /\ PidInv /\ PortsInv /\ PlaceInv /\ DataInv /\ NamedInv
      /\ UNCHANGED <<dirs, data, endpoint, pidfile, server>>
      /\ neon' \subseteq Region
  BY DEF KInv, Types, Branch, disk
<1>1. faults' \in 0..MaxFaults /\ UNCHANGED byHand
  BY BoundsAssumption DEF KInv, Types, Branch, Fault, Raise, End, To
<1>2. PidInv' /\ PortsInv' /\ PlaceInv' /\ NamedInv' /\ DataInv'
  BY <1>0, <1>1, SameServers, SameNamed DEF Types
<1>3. CASE Raise
  BY <1>0, <1>1, <1>2, <1>3, EndKeeps DEF Raise, Types
<1>4. CASE To("clone", Ascending(Region \ {0}))
  <2>0. /\ phase' = "clone" /\ todo' = Ascending(Region \ {0})
        /\ UNCHANGED <<command, order, manual, commands, byHand>>
    BY <1>4 DEF To
  <2>1. todo' \in Seq(Region) /\ Once(todo') /\ Items(todo') = Region \ {0}
    BY <2>0, AscendingIs, AscendingType
  <2>2. Types'
    BY <1>0, <1>1, <2>0, <2>1 DEF Types, PhaseName
  <2>3. PhaseInv' /\ CreateInv' /\ StepInv'
    BY <2>0, <2>1 DEF PhaseInv, CreateInv, StepInv
  <2> QED
    BY <1>2, <2>2, <2>3 DEF KInv
<1> QED
  BY <1>3, <1>4 DEF Branch

LEMMA CloneStep ==
  ASSUME KInv, Clone
  PROVE  KInv'
<1> DEFINE r == Head(todo)
<1>0. /\ Types /\ PidInv /\ PortsInv /\ PlaceInv /\ DataInv /\ NamedInv /\ CreateInv
      /\ PhaseInv /\ phase = "clone" /\ todo # <<>> /\ r \in Region /\ r \in Items(todo)
      /\ UNCHANGED <<neon, endpoint, pidfile, server>>
      /\ dirs' \subseteq Region /\ data' \subseteq dirs' /\ data \subseteq data'
  <2>1. Types /\ todo # <<>>
    BY DEF KInv, Clone, At
  <2>2. r \in Region /\ r \in Items(todo)
    BY <2>1, TailIs DEF Types
  <2> QED
    BY <2>1, <2>2 DEF KInv, Types, Clone, At
<1>1. faults' \in 0..MaxFaults /\ UNCHANGED byHand
  BY BoundsAssumption DEF KInv, Types, Clone, Fault, Raise, End, Did
<1>2. PidInv' /\ PortsInv' /\ PlaceInv' /\ NamedInv' /\ DataInv'
  BY <1>0, <1>1, SameServers, SameNamed DEF Types
<1>3. CASE Raise
  BY <1>0, <1>1, <1>2, <1>3, EndKeeps DEF Raise, Types
<1>4. CASE r \notin data /\ Did
  <2>0. /\ todo' = Tail(todo)
        /\ UNCHANGED <<command, phase, order, manual, commands, byHand>>
    BY <1>4 DEF Did
  <2>1. todo' \in Seq(Region) /\ Once(todo') /\ Items(todo') = Items(todo) \ {r}
    BY <1>0, <2>0, DidIs
  <2>2. Types'
    BY <1>0, <1>1, <2>0, <2>1 DEF Types
  <2>3. PhaseInv' /\ StepInv'
    BY <1>0, <2>0, <2>1 DEF PhaseInv, StepInv
  <2>4. CreateInv'
    BY <1>0, <1>4, <2>0, <2>1 DEF CreateInv, DataInv
  <2> QED
    BY <1>2, <2>2, <2>3, <2>4 DEF KInv
<1> QED
  BY <1>3, <1>4 DEF Clone

LEMMA CreateEndpointStep ==
  ASSUME KInv, CreateEndpoint
  PROVE  KInv'
<1> DEFINE r == Head(todo)
<1>0. /\ Types /\ PidInv /\ PortsInv /\ PlaceInv /\ DataInv /\ NamedInv /\ CreateInv
      /\ PhaseInv /\ phase = "endpoint" /\ todo # <<>> /\ r \in Region /\ r \in Items(todo)
      /\ UNCHANGED <<dirs, data, neon, pidfile, server>>
  <2>1. Types /\ todo # <<>>
    BY DEF KInv, CreateEndpoint, At
  <2>2. r \in Region /\ r \in Items(todo)
    BY <2>1, TailIs DEF Types
  <2> QED
    BY <2>1, <2>2 DEF KInv, CreateEndpoint, At
<1>1. faults' \in 0..MaxFaults /\ UNCHANGED byHand
  BY BoundsAssumption DEF KInv, Types, CreateEndpoint, Fault, Raise, End, Did
<1>2. PidInv' /\ PortsInv' /\ PlaceInv'
  BY <1>0, SameServers
<1>3. CASE Raise /\ UNCHANGED endpoint
  BY <1>0, <1>1, <1>2, <1>3, EndKeeps, SameNamed DEF Raise, Types
<1>4. CASE endpoint' = [endpoint EXCEPT ![r] = "stopped"] /\ Did
  <2>0. /\ todo' = Tail(todo)
        /\ UNCHANGED <<command, phase, order, manual, commands, byHand>>
    BY <1>4 DEF Did
  <2>1. todo' \in Seq(Region) /\ Once(todo') /\ Items(todo') = Items(todo) \ {r}
    BY <1>0, <2>0, DidIs
  <2>2. /\ endpoint' \in [Region -> {"none", "stopped", "running"}]
        /\ \A s \in Region : endpoint'[s] = "running" <=> endpoint[s] = "running"
    BY <1>0, <1>4 DEF Types, PhaseInv, CreateInv
  <2>3. Types'
    BY <1>0, <1>1, <2>0, <2>1, <2>2 DEF Types
  <2>4. PhaseInv' /\ StepInv'
    BY <1>0, <2>0, <2>1 DEF PhaseInv, StepInv
  <2>5. CreateInv' /\ DataInv'
    BY <1>0, <2>0, <2>2 DEF CreateInv, DataInv
  <2>6. NamedInv'
    BY <1>0, <2>0, <2>2, SameServers DEF NamedInv, Servers
  <2> QED
    BY <1>2, <2>3, <2>4, <2>5, <2>6 DEF KInv
<1> QED
  BY <1>3, <1>4 DEF CreateEndpoint

----------------------------------------------------------------------------
\* start refuses a region whose endpoint runs, so its server does not run.
LEMMA StartNeonStep ==
  ASSUME KInv, StartNeon
  PROVE  KInv'
<1> DEFINE r == Head(todo)
<1>0. /\ Types /\ PidInv /\ PortsInv /\ PlaceInv /\ DataInv /\ NamedInv /\ StepInv
      /\ PhaseInv /\ phase = "neon" /\ todo # <<>> /\ r \in Region /\ r \in Items(todo)
      /\ UNCHANGED <<dirs, data, pidfile, server>>
      /\ neon' \subseteq Region
  <2>1. Types /\ todo # <<>>
    BY DEF KInv, StartNeon, At
  <2>2. r \in Region /\ r \in Items(todo)
    BY <2>1, TailIs DEF Types
  <2> QED
    BY <2>1, <2>2 DEF KInv, Types, StartNeon, At
<1>1. faults' \in 0..MaxFaults /\ UNCHANGED byHand
  BY BoundsAssumption DEF KInv, Types, StartNeon, Fault, Raise, End, Did
<1>2. PidInv' /\ PortsInv' /\ PlaceInv' /\ \A s \in Region : Live(s)' <=> Live(s)
  BY <1>0, SameServers
<1>3. CASE Raise /\ UNCHANGED endpoint
  BY <1>0, <1>1, <1>2, <1>3, EndKeeps, SameNamed DEF Raise, Types
<1>4. CASE /\ r \in data /\ ~Refused(r)
           /\ endpoint' = [endpoint EXCEPT ![r] = "running"] /\ Did
  <2>0. /\ todo' = Tail(todo)
        /\ UNCHANGED <<command, phase, order, manual, commands, byHand>>
    BY <1>4 DEF Did
  <2>1. todo' \in Seq(Region) /\ Once(todo') /\ Items(todo') = Items(todo) \ {r}
    BY <1>0, <2>0, DidIs
  <2>2. /\ endpoint' \in [Region -> {"none", "stopped", "running"}]
        /\ endpoint'[r] = "running" /\ endpoint[r] # "running"
        /\ \A s \in Region \ {r} : endpoint'[s] = endpoint[s]
    BY <1>0, <1>4 DEF Types, Refused
  <2>3. Types'
    BY <1>0, <1>1, <2>0, <2>1, <2>2 DEF Types
  <2>4. PhaseInv' /\ CreateInv'
    BY <1>0, <2>0, <2>1 DEF PhaseInv, CreateInv
  <2>5. DataInv'
    BY <1>0, <1>4, <2>2 DEF DataInv
  <2>6. NamedInv'
    BY <1>0, <1>2, <2>0, <2>2 DEF NamedInv, Servers
  <2>7. StepInv'
    <3> SUFFICES ASSUME ~byHand, NEW s \in dirs \ Items(todo')
                 PROVE  ~Live(s)' /\ endpoint'[s] = "running"
      BY <1>0, <2>0 DEF StepInv
    <3>0. s \in Region
      BY <1>0 DEF Types
    <3>1. CASE s = r
      BY <1>0, <1>2, <2>2, <3>1 DEF NamedInv
    <3>2. CASE s # r
      BY <1>0, <1>2, <2>1, <2>2, <3>0, <3>2 DEF StepInv
    <3> QED
      BY <3>1, <3>2
  <2> QED
    BY <1>2, <2>3, <2>4, <2>5, <2>6, <2>7 DEF KInv
<1> QED
  BY <1>3, <1>4 DEF StartNeon

\* A server is given the place of its region in the order, and its pid file.
LEMMA StartServerStep ==
  ASSUME KInv, StartServer
  PROVE  KInv'
<1> DEFINE r == Head(todo)
<1>0. /\ Types /\ PidInv /\ PortsInv /\ PlaceInv /\ DataInv /\ NamedInv /\ StepInv
      /\ PhaseInv /\ phase = "servers" /\ todo # <<>> /\ r \in Region /\ r \in Items(todo)
      /\ UNCHANGED <<dirs, data, endpoint, neon>>
  <2>1. Types /\ todo # <<>>
    BY DEF KInv, StartServer, At
  <2>2. r \in Region /\ r \in Items(todo)
    BY <2>1, TailIs DEF Types
  <2> QED
    BY <2>1, <2>2 DEF KInv, StartServer, At
<1>1. faults' \in 0..MaxFaults /\ UNCHANGED byHand
  BY BoundsAssumption DEF KInv, Types, StartServer, Launch, Fault, Raise, End, Did
<1>2. CASE Raise /\ pidfile' = [pidfile EXCEPT ![r] = Empty] /\ UNCHANGED server
  <2>1. /\ pidfile' \in [Region -> Nat \cup {None, Empty}]
        /\ pidfile'[r] = Empty
        /\ \A s \in Region \ {r} : pidfile'[s] = pidfile[s]
    BY <1>0, <1>2 DEF Types
  <2>2. Empty \notin Nat
    BY PidAssumption
  <2>3. PidInv'
    BY <1>0, <1>2, <2>1, <2>2 DEF PidInv, Servers
  <2>4. PortsInv' /\ PlaceInv' /\ DataInv'
    BY <1>0, <1>2 DEF PortsInv, PlaceInv, DataInv, Servers
  <2>5. NamedInv'
    <3>1. ~byHand => ~Live(r)
      BY <1>0 DEF StepInv
    <3>2. \A s \in Region : Live(s)' <=> Live(s)
      BY <1>2 DEF Live, Servers
    <3>3. ~byHand => \A p \in Servers :
            server[p].state = "running" => server[p].region \in Region \ {r}
      <4>1. \A p \in Servers : server[p] \in Server
        BY <1>0 DEF Types, Servers
      <4> QED
        BY <3>1, <4>1 DEF Live, Server
    <3> QED
      BY <1>0, <1>1, <1>2, <2>1, <3>2, <3>3 DEF NamedInv, Servers
  <2> QED
    BY <1>0, <1>1, <1>2, <2>1, <2>3, <2>4, <2>5, EndKeeps DEF Raise, Types
<1> DEFINE new == [region |-> r, node |-> Node(r), nodes |-> order,
                   state |-> IF PortsTaken(Node(r)) THEN "ended" ELSE "running"]
<1>3. CASE /\ server' = Append(server, new) /\ pidfile' = [pidfile EXCEPT ![r] = Pid]
           /\ Did
  <2>0. /\ todo' = Tail(todo)
        /\ UNCHANGED <<command, phase, order, manual, commands, byHand>>
    BY <1>3 DEF Did
  <2>1. todo' \in Seq(Region) /\ Once(todo') /\ Items(todo') = Items(todo) \ {r}
    BY <1>0, <2>0, DidIs
  <2>2. Node(r) \in Region
    <3>1. \E k \in DOMAIN order : order[k] = r
      BY <1>0 DEF PhaseInv, Items
    <3>2. (CHOOSE k \in DOMAIN order : order[k] = r) \in DOMAIN order
      BY <3>1
    <3>3. DOMAIN order = 1..Len(order) /\ Len(order) <= NumRegions + 1 /\ Len(order) \in Nat
      BY <1>0 DEF Types
    <3> QED
      BY <3>2, <3>3, NumRegionsAssumption DEF Node, Region
  <2>3. new \in Server
    <3>1. order \in Seq(Region)
      BY <1>0 DEF Types
    <3> QED
      BY <1>0, <2>2, <3>1 DEF Server
  <2>4. new.region = r /\ new.node = Node(r) /\ new.state \in {"running", "ended"}
    OBVIOUS
  <2>5. new.nodes = order
    OBVIOUS
  <2>6. new.state = "running" => ~PortsTaken(Node(r))
    OBVIOUS
  <2> HIDE DEF new
  <2>7. /\ server' \in Seq(Server) /\ Len(server) \in Nat
        /\ Servers = 1..Len(server) /\ Servers' = 1..(Len(server) + 1)
        /\ \A p \in Servers : server'[p] = server[p] /\ server[p] \in Server
        /\ server'[Pid] = new /\ Pid = Len(server) + 1
    BY <1>0, <1>3, <2>3 DEF Types, Servers, Pid
  <2>8. /\ pidfile' \in [Region -> Nat \cup {None, Empty}]
        /\ pidfile'[r] = Pid
        /\ \A s \in Region \ {r} : pidfile'[s] = pidfile[s]
    BY <1>0, <1>3, <2>7 DEF Types
  <2>9. \A p \in Servers' : p \in Servers \/ p = Pid
    BY <2>7
  <2>10. Types'
    BY <1>0, <1>1, <2>0, <2>1, <2>7, <2>8 DEF Types
  <2>11. PhaseInv' /\ CreateInv' /\ DataInv'
    BY <1>0, <2>0, <2>1 DEF PhaseInv, CreateInv, DataInv
  <2>12. PidInv'
    <3> SUFFICES ASSUME NEW s \in Region, pidfile'[s] \in Nat
                 PROVE  pidfile'[s] \in Servers' /\ server'[pidfile'[s]].region = s
      BY DEF PidInv
    <3>1. CASE s = r
      BY <2>4, <2>7, <2>8, <3>1
    <3>2. CASE s # r
      <4>1. pidfile'[s] = pidfile[s] /\ pidfile[s] \in Servers
            /\ server[pidfile[s]].region = s
        BY <1>0, <2>8, <3>2 DEF PidInv
      <4> QED
        BY <2>7, <4>1
    <3> QED
      BY <3>1, <3>2
  <2>13. PortsInv'
    <3>1. new.state = "running" =>
            \A q \in Servers : server[q].state # "ended" => server[q].node # Node(r)
      BY <2>6 DEF PortsTaken, Alive
    <3> SUFFICES ASSUME NEW p \in Servers', NEW q \in Servers', p # q,
                        server'[p].state # "ended", server'[q].state # "ended"
                 PROVE  server'[p].node # server'[q].node
      BY DEF PortsInv
    <3>2. CASE p \in Servers /\ q \in Servers
      BY <1>0, <2>7, <3>2 DEF PortsInv
    <3>3. CASE p = Pid /\ q \in Servers
      BY <2>4, <2>7, <3>1, <3>3
    <3>4. CASE q = Pid /\ p \in Servers
      BY <2>4, <2>7, <3>1, <3>4
    <3> QED
      BY <2>9, <3>2, <3>3, <3>4
  <2>14. PlaceInv'
    <3>1. new.node = PlaceIn(new.nodes, new.region)
      BY <2>4, <2>5 DEF Node, PlaceIn
    <3> SUFFICES ASSUME NEW p \in Servers'
                 PROVE  server'[p].node = PlaceIn(server'[p].nodes, server'[p].region)
      BY DEF PlaceInv, PlaceIn
    <3>2. CASE p \in Servers
      BY <1>0, <2>7, <3>2 DEF PlaceInv
    <3>3. CASE p = Pid
      BY <2>7, <3>1, <3>3
    <3> QED
      BY <2>9, <3>2, <3>3
  <2>15. \A s \in Region : Live(s)' => Live(s) \/ s = r
    BY <2>4, <2>7, <2>9 DEF Live
  <2>16. NamedInv'
    <3> SUFFICES ASSUME ~byHand
                 PROVE  /\ \A p \in Servers' : server'[p].state = "running" =>
                             pidfile'[server'[p].region] = p
                        /\ \A s \in Region : Live(s)' => endpoint'[s] = "running"
      BY <2>0 DEF NamedInv
    <3>1. ~Live(r) /\ endpoint[r] = "running"
      BY <1>0 DEF StepInv, PhaseInv
    <3>2. ASSUME NEW p \in Servers', server'[p].state = "running"
          PROVE  pidfile'[server'[p].region] = p
      <4>1. CASE p = Pid
        BY <2>4, <2>7, <2>8, <4>1
      <4>2. CASE p \in Servers
        <5>1. /\ server[p].state = "running" /\ server[p].region \in Region
              /\ server'[p].region = server[p].region
          BY <2>7, <3>2, <4>2 DEF Server
        <5>2. server[p].region # r /\ pidfile[server[p].region] = p
          BY <1>0, <3>1, <4>2, <5>1 DEF NamedInv, Live
        <5> QED
          BY <2>8, <5>1, <5>2
      <4> QED
        BY <2>9, <4>1, <4>2
    <3>3. \A s \in Region : Live(s)' => endpoint'[s] = "running"
      BY <1>0, <2>15, <3>1 DEF NamedInv
    <3> QED
      BY <3>2, <3>3
  <2>17. StepInv'
    <3> SUFFICES ASSUME ~byHand
                 PROVE  /\ \A s \in Items(todo') : ~Live(s)'
                        /\ \A s \in dirs' : endpoint'[s] = "running"
      BY <1>0, <2>0 DEF StepInv
    <3>1. /\ \A s \in Items(todo) : ~Live(s) /\ s \in Region
          /\ \A s \in dirs : endpoint[s] = "running"
      BY <1>0 DEF StepInv, PhaseInv, Types
    <3> QED
      BY <1>0, <2>1, <2>15, <3>1
  <2> QED
    BY <2>10, <2>11, <2>12, <2>13, <2>14, <2>16, <2>17 DEF KInv
<1> QED
  BY <1>2, <1>3 DEF StartServer, Launch

----------------------------------------------------------------------------
\* The servers stay, and their states only move on.
MovesOn ==
  /\ UNCHANGED pidfile /\ Servers' = Servers /\ server' \in Seq(Server)
  /\ \A p \in Servers :
       /\ server'[p].region = server[p].region /\ server'[p].node = server[p].node
       /\ server'[p].nodes = server[p].nodes
       /\ server'[p].state # "ended" => server[p].state # "ended"
       /\ server'[p].state = "running" => server[p].state = "running"

LEMMA MovesOnKeeps ==
  ASSUME KInv, MovesOn
  PROVE  /\ PidInv' /\ PortsInv' /\ PlaceInv'
         /\ \A r : Live(r)' => Live(r)
         /\ UNCHANGED <<endpoint, byHand>> => NamedInv'
<1>0. /\ PidInv /\ PortsInv /\ PlaceInv /\ NamedInv
      /\ UNCHANGED pidfile /\ Servers' = Servers
  BY DEF KInv, MovesOn
<1>1. \A p \in Servers :
        /\ server'[p].region = server[p].region /\ server'[p].node = server[p].node
        /\ server'[p].nodes = server[p].nodes
        /\ server'[p].state # "ended" => server[p].state # "ended"
        /\ server'[p].state = "running" => server[p].state = "running"
  BY DEF MovesOn
<1>2. PidInv'
  BY <1>0, <1>1 DEF PidInv
<1>3. PortsInv'
  BY <1>0, <1>1 DEF PortsInv
<1>4. PlaceInv'
  BY <1>0, <1>1 DEF PlaceInv
<1>5. \A r : Live(r)' => Live(r)
  BY <1>0, <1>1 DEF Live
<1>6. ASSUME UNCHANGED <<endpoint, byHand>> PROVE NamedInv'
  BY <1>0, <1>1, <1>5, <1>6 DEF NamedInv
<1> QED
  BY <1>2, <1>3, <1>4, <1>5, <1>6

\* SIGTERM leaves no server of the region running that its pid file names.
LEMMA StopServerStep ==
  ASSUME KInv, StopServer
  PROVE  KInv'
<1> DEFINE r == Head(todo)
           pid == pidfile[r]
<1>0. /\ Types /\ PidInv /\ PortsInv /\ PlaceInv /\ DataInv /\ NamedInv /\ StepInv
      /\ PhaseInv /\ phase = "stop-servers" /\ todo # <<>> /\ r \in Region
      /\ r \in Items(todo)
      /\ UNCHANGED <<faults, dirs, data, endpoint, pidfile, neon>>
  <2>1. Types /\ todo # <<>>
    BY DEF KInv, StopServer, At
  <2>2. r \in Region /\ r \in Items(todo)
    BY <2>1, TailIs DEF Types
  <2> QED
    BY <2>1, <2>2 DEF KInv, StopServer, At, disk
<1>1. CASE Raise /\ UNCHANGED server
  <2>1. PidInv' /\ PortsInv' /\ PlaceInv' /\ UNCHANGED byHand
    BY <1>0, <1>1, SameServers DEF Raise, End
  <2>2. NamedInv' /\ DataInv'
    BY <1>0, <1>1, <2>1, SameNamed DEF Types
  <2> QED
    BY <1>0, <1>1, <2>1, <2>2, EndKeeps DEF Raise, Types
<1>2. CASE /\ Did
           /\ \/ pid = None /\ UNCHANGED server
              \/ pid \notin {None, Empty} /\ server' = Kill(pid)
  <2>0. /\ todo' = Tail(todo)
        /\ UNCHANGED <<command, phase, order, manual, commands, byHand>>
    BY <1>2 DEF Did
  <2>1. todo' \in Seq(Region) /\ Once(todo') /\ Items(todo') = Items(todo) \ {r}
    BY <1>0, <2>0, DidIs
  <2>2. /\ Len(server) \in Nat /\ Servers = 1..Len(server)
        /\ \A p \in Servers : server[p] \in Server
    BY <1>0 DEF Types, Servers
  <2>3. MovesOn /\ (pid \in Nat => server'[pid].state # "running")
    <3>1. CASE pid = None /\ UNCHANGED server
      BY <1>0, <3>1, PidAssumption DEF MovesOn, Types, Servers
    <3>2. CASE pid \notin {None, Empty} /\ server' = Kill(pid)
      <4>1. server' \in [1..Len(server) -> Server] /\ Servers' = Servers
        BY <2>2, <3>2 DEF Kill, Server, Servers
      <4>2. server' \in Seq(Server)
        BY <2>2, <4>1, SeqDef
      <4>3. \A p \in Servers :
              /\ server'[p].region = server[p].region /\ server'[p].node = server[p].node
              /\ server'[p].nodes = server[p].nodes
              /\ server'[p].state # "ended" => server[p].state # "ended"
              /\ server'[p].state = "running" => server[p].state = "running"
        BY <2>2, <3>2 DEF Kill, Server
      <4>4. pid \in Nat => pid \in Servers
        BY <1>0 DEF PidInv
      <4>5. pid \in Servers => server'[pid].state # "running"
        BY <2>2, <3>2 DEF Kill, Server
      <4> QED
        BY <1>0, <4>1, <4>2, <4>3, <4>4, <4>5 DEF MovesOn
    <3> QED
      BY <1>2, <3>1, <3>2
  <2>4. /\ PidInv' /\ PortsInv' /\ PlaceInv' /\ NamedInv'
        /\ \A s : Live(s)' => Live(s)
    BY <1>0, <2>0, <2>3, MovesOnKeeps
  <2>5. Types'
    BY <1>0, <2>0, <2>1, <2>3 DEF Types, MovesOn
  <2>6. PhaseInv' /\ CreateInv' /\ DataInv'
    BY <1>0, <2>0, <2>1 DEF PhaseInv, CreateInv, DataInv
  <2>7. StepInv'
    <3> SUFFICES ASSUME ~byHand, NEW s \in dirs \ Items(todo')
                 PROVE  ~Live(s)'
      BY <1>0, <2>0 DEF StepInv
    <3>1. CASE s = r
      <4> SUFFICES ASSUME NEW p \in Servers', server'[p].state = "running",
                          server'[p].region = r
                   PROVE  FALSE
        BY <3>1 DEF Live
      <4>1. pidfile'[r] = p
        BY <2>0, <2>4 DEF NamedInv
      <4>2. p \in Nat /\ pid = p
        BY <1>0, <2>2, <2>3, <4>1 DEF MovesOn
      <4> QED
        BY <2>3, <4>2
    <3>2. CASE s # r
      BY <1>0, <2>1, <2>4, <3>2 DEF StepInv
    <3> QED
      BY <3>1, <3>2
  <2> QED
    BY <2>4, <2>5, <2>6, <2>7 DEF KInv
<1> QED
  BY <1>1, <1>2 DEF StopServer

\* When the endpoints are stopped no server runs, unless one was left by hand.
LEMMA StopNeonStep ==
  ASSUME KInv, StopNeon
  PROVE  KInv'
<1> DEFINE r == Head(todo)
<1>0. /\ Types /\ PidInv /\ PortsInv /\ PlaceInv /\ DataInv /\ NamedInv /\ StepInv
      /\ PhaseInv /\ phase = "stop-neon" /\ todo # <<>> /\ r \in Region
      /\ r \in Items(todo) /\ Did
      /\ UNCHANGED <<dirs, data, pidfile, server>>
  <2>1. Types /\ todo # <<>>
    BY DEF KInv, StopNeon, At
  <2>2. r \in Region /\ r \in Items(todo)
    BY <2>1, TailIs DEF Types
  <2> QED
    BY <2>1, <2>2 DEF KInv, StopNeon, At
<1>1. faults' \in 0..MaxFaults /\ neon' \subseteq Region
  BY <1>0, BoundsAssumption DEF Types, StopNeon, Fault
<1>2. /\ endpoint' \in [Region -> {"none", "stopped", "running"}]
      /\ \A s \in Region : endpoint'[s] = "running" => endpoint[s] = "running"
  BY <1>0 DEF Types, StopNeon
<1>3. /\ todo' = Tail(todo)
      /\ UNCHANGED <<command, phase, order, manual, commands, byHand>>
  BY <1>0 DEF Did
<1>4. todo' \in Seq(Region) /\ Once(todo') /\ Items(todo') = Items(todo) \ {r}
  BY <1>0, <1>3, DidIs
<1>5. PidInv' /\ PortsInv' /\ PlaceInv' /\ \A s : Live(s)' <=> Live(s)
  BY <1>0, SameServers
<1>6. Types'
  BY <1>0, <1>1, <1>2, <1>3, <1>4 DEF Types
<1>7. PhaseInv' /\ CreateInv' /\ DataInv'
  BY <1>0, <1>2, <1>3, <1>4 DEF PhaseInv, CreateInv, DataInv
<1>8. NamedInv' /\ StepInv'
  BY <1>0, <1>3, <1>5 DEF NamedInv, StepInv, Servers
<1> QED
  BY <1>5, <1>6, <1>7, <1>8 DEF KInv

\* destroy removes the pid file and the endpoint of a region together.
LEMMA RemoveStep ==
  ASSUME KInv, Remove
  PROVE  KInv'
<1> DEFINE r == Head(todo)
<1>0. /\ Types /\ PidInv /\ PortsInv /\ PlaceInv /\ DataInv /\ NamedInv /\ StepInv
      /\ PhaseInv /\ phase = "remove" /\ todo # <<>> /\ r \in Region
      /\ UNCHANGED <<neon, server>>
  <2>1. Types /\ todo # <<>>
    BY DEF KInv, Remove, At
  <2>2. r \in Region
    BY <2>1, TailIs DEF Types
  <2> QED
    BY <2>1, <2>2 DEF KInv, Remove, At
<1>1. faults' \in 0..MaxFaults /\ UNCHANGED byHand
  BY <1>0, BoundsAssumption DEF Types, Remove, Fault, Raise, End, Did
<1>2. CASE Raise /\ UNCHANGED disk
  <2>1. UNCHANGED <<dirs, data, endpoint, pidfile>>
    BY <1>2 DEF disk
  <2>2. PidInv' /\ PortsInv' /\ PlaceInv' /\ NamedInv' /\ DataInv'
    BY <1>0, <1>1, <2>1, SameServers, SameNamed DEF Types
  <2> QED
    BY <1>0, <1>1, <1>2, <2>1, <2>2, EndKeeps DEF Raise, Types
<1>3. CASE /\ dirs' = dirs \ {r} /\ data' = data \ {r}
           /\ endpoint' = [endpoint EXCEPT ![r] = "none"]
           /\ pidfile' = [pidfile EXCEPT ![r] = None] /\ Did
  <2>0. /\ todo' = Tail(todo)
        /\ UNCHANGED <<command, phase, order, manual, commands, byHand>>
    BY <1>3 DEF Did
  <2>1. todo' \in Seq(Region) /\ Once(todo')
    BY <1>0, <2>0, DidIs
  <2>2. /\ endpoint' \in [Region -> {"none", "stopped", "running"}]
        /\ pidfile' \in [Region -> Nat \cup {None, Empty}]
        /\ endpoint'[r] = "none" /\ pidfile'[r] = None
        /\ \A s \in Region \ {r} : endpoint'[s] = endpoint[s] /\ pidfile'[s] = pidfile[s]
    BY <1>0, <1>3 DEF Types
  <2>3. Types'
    BY <1>0, <1>1, <1>3, <2>0, <2>1, <2>2 DEF Types
  <2>4. PhaseInv' /\ CreateInv'
    BY <1>0, <2>0 DEF PhaseInv, CreateInv
  <2>5. PidInv'
    BY <1>0, <2>2, PidAssumption DEF PidInv, Servers
  <2>6. PortsInv' /\ PlaceInv'
    BY <1>0 DEF PortsInv, PlaceInv, Servers
  <2>7. DataInv'
    BY <1>0, <1>3, <2>2 DEF DataInv
  <2>8. \A s : Live(s)' <=> Live(s)
    BY <1>0 DEF Live, Servers
  <2>9. StepInv'
    BY <1>0, <2>0, <2>8 DEF StepInv
  <2>10. NamedInv'
    <3>1. ~byHand => \A s \in Region : ~Live(s)
      BY <1>0 DEF StepInv
    <3>2. \A p \in Servers : server[p].region \in Region
      <4>1. \A p \in Servers : server[p] \in Server
        BY <1>0 DEF Types, Servers
      <4> QED
        BY <4>1 DEF Server
    <3>3. ~byHand => \A p \in Servers : server[p].state # "running"
      BY <3>1, <3>2 DEF Live
    <3> QED
      BY <1>0, <1>1, <2>8, <3>1, <3>3 DEF NamedInv, Servers
  <2> QED
    BY <2>3, <2>4, <2>5, <2>6, <2>7, <2>9, <2>10 DEF KInv
<1> QED
  BY <1>2, <1>3 DEF Remove

\* Between two phases: stop comes to the endpoints when no server runs, and
\* start to the servers when every endpoint does.
LEMMA AdvanceStep ==
  ASSUME KInv, Advance
  PROVE  KInv'
<1>0. /\ Types /\ PidInv /\ PortsInv /\ PlaceInv /\ DataInv /\ NamedInv /\ StepInv
      /\ PhaseInv /\ CreateInv /\ todo = <<>>
      /\ UNCHANGED <<faults, dirs, data, endpoint, pidfile, neon, server>>
  BY DEF KInv, Advance, disk
<1>1. UNCHANGED byHand
  BY DEF Advance, End, To
<1>2. /\ PidInv' /\ PortsInv' /\ PlaceInv' /\ NamedInv' /\ DataInv'
      /\ \A s : Live(s)' <=> Live(s)
  BY <1>0, <1>1, SameServers, SameNamed DEF Types
<1>3. CASE End
  BY <1>0, <1>2, <1>3, EndKeeps DEF Types
<1>4. ASSUME NEW p \in PhaseName, NEW q, To(p, q), q \in Seq(Region), Once(q)
      PROVE  /\ Types' /\ phase' = p /\ todo' = q
             /\ UNCHANGED <<order, command, manual, dirs, endpoint>>
  <2>1. /\ phase' = p /\ todo' = q
        /\ UNCHANGED <<command, order, manual, commands, byHand>>
    BY <1>4 DEF To
  <2> QED
    BY <1>0, <1>4, <2>1 DEF Types
<1>5. Items(todo) = {}
  BY <1>0, EmptyIs
<1>6. CASE phase = "clone" /\ To("endpoint", Ascending(Region \ {0}))
  <2>1. /\ Types' /\ phase' = "endpoint" /\ todo' = Ascending(Region \ {0})
        /\ UNCHANGED endpoint
    BY <1>4, <1>6, AscendingIs, AscendingType DEF PhaseName
  <2>2. PhaseInv' /\ StepInv'
    BY <2>1, AscendingIs DEF PhaseInv, StepInv
  <2>3. CreateInv'
    BY <1>0, <1>5, <1>6, <2>1 DEF CreateInv
  <2> QED
    BY <1>2, <2>1, <2>2, <2>3 DEF KInv
<1>7. CASE phase = "neon" /\ To("servers", order)
  <2>1. /\ Types' /\ phase' = "servers" /\ todo' = order /\ UNCHANGED <<order, dirs, endpoint>>
    BY <1>0, <1>4, <1>7 DEF Types, PhaseName
  <2>2. PhaseInv' /\ CreateInv'
    BY <1>0, <1>7, <2>1 DEF PhaseInv, CreateInv
  <2>3. StepInv'
    BY <1>0, <1>1, <1>2, <1>5, <1>7, <2>1 DEF StepInv, PhaseInv
  <2> QED
    BY <1>2, <2>1, <2>2, <2>3 DEF KInv
<1>8. CASE phase = "stop-servers" /\ To("stop-neon", order)
  <2>1. /\ Types' /\ phase' = "stop-neon" /\ todo' = order
        /\ UNCHANGED <<order, dirs, endpoint>>
    BY <1>0, <1>4, <1>8 DEF Types, PhaseName
  <2>2. PhaseInv' /\ CreateInv'
    BY <1>0, <1>8, <2>1 DEF PhaseInv, CreateInv
  <2>3. StepInv'
    <3> SUFFICES ASSUME ~byHand, NEW s \in Region, Live(s)
                 PROVE  FALSE
      BY <1>1, <1>2, <2>1 DEF StepInv
    <3>1. endpoint[s] = "running" /\ s \in dirs
      BY <1>0 DEF NamedInv, DataInv, Types
    <3> QED
      BY <1>0, <1>5, <1>8, <3>1 DEF StepInv
  <2> QED
    BY <1>2, <2>1, <2>2, <2>3 DEF KInv
<1>9. CASE phase = "stop-neon" /\ To("remove", InOrder(dirs))
  <2>1. Types' /\ phase' = "remove"
    BY <1>0, <1>4, <1>9, InOrderIs, InOrderType DEF Types, PhaseName
  <2>2. PhaseInv' /\ CreateInv'
    BY <2>1 DEF PhaseInv, CreateInv
  <2>3. StepInv'
    BY <1>0, <1>1, <1>2, <1>9, <2>1 DEF StepInv
  <2> QED
    BY <1>2, <2>1, <2>2, <2>3 DEF KInv
<1> QED
  BY <1>3, <1>6, <1>7, <1>8, <1>9 DEF Advance

LEMMA ServerEndsStep ==
  ASSUME KInv, NEW p \in Servers, ServerEnds(p)
  PROVE  KInv'
<1>0. /\ Types /\ PhaseInv /\ DataInv /\ CreateInv /\ StepInv /\ server[p].state = "ending"
      /\ server' = [server EXCEPT ![p].state = "ended"]
      /\ UNCHANGED <<command, phase, todo, order, manual, commands, byHand>>
      /\ UNCHANGED <<faults, dirs, data, endpoint, pidfile, neon>>
  BY DEF KInv, ServerEnds, ctl, disk
<1>1. /\ server \in Seq(Server) /\ server[p] \in Server
      /\ \A q \in Servers : server[q] \in Server
  BY <1>0 DEF Types, Servers
<1>2. MovesOn
  <2>1. [server[p] EXCEPT !.state = "ended"] \in Server
    BY <1>1 DEF Server
  <2>2. server' \in Seq(Server) /\ Servers' = Servers
    BY <1>0, <1>1, <2>1 DEF Servers
  <2>3. \A q \in Servers : server'[q] = IF q = p THEN [server[p] EXCEPT !.state = "ended"]
                                        ELSE server[q]
    BY <1>0 DEF Servers
  <2> QED
    BY <1>0, <1>1, <2>2, <2>3 DEF MovesOn, Server
<1>3. /\ PidInv' /\ PortsInv' /\ PlaceInv' /\ NamedInv'
      /\ \A r : Live(r)' => Live(r)
  BY <1>0, <1>2, MovesOnKeeps
<1>4. Types'
  BY <1>0, <1>2 DEF Types, MovesOn
<1>5. PhaseInv' /\ DataInv' /\ CreateInv'
  BY <1>0 DEF PhaseInv, DataInv, CreateInv
<1>6. StepInv'
  BY <1>0, <1>3 DEF StepInv
<1> QED
  BY <1>3, <1>4, <1>5, <1>6 DEF KInv

LEMMA KInvInit == Init => KInv
<1> SUFFICES ASSUME Init PROVE KInv
  OBVIOUS
<1>1. Types
  <2>1. server \in Seq(Server) /\ Len(order) <= NumRegions + 1
    BY NumRegionsAssumption DEF Init
  <2>2. commands \in 0..MaxCommands /\ faults \in 0..MaxFaults
    BY BoundsAssumption DEF Init
  <2>3. /\ todo \in Seq(Region) /\ Once(todo) /\ order \in Seq(Region) /\ Once(order)
    BY EmptyIs DEF Init
  <2>4. /\ endpoint \in [Region -> {"none", "stopped", "running"}]
        /\ pidfile \in [Region -> Nat \cup {None, Empty}]
    BY DEF Init
  <2> QED
    BY <2>1, <2>2, <2>3, <2>4 DEF Init, Types, PhaseName
<1>2. PhaseInv /\ DataInv /\ CreateInv
  BY DEF Init, PhaseInv, DataInv, CreateInv
<1>3. Servers = {}
  BY DEF Init, Servers
<1>4. PortsInv /\ PlaceInv /\ NamedInv /\ StepInv
  BY <1>3 DEF Init, PortsInv, PlaceInv, NamedInv, StepInv, Live
<1>5. PidInv
  BY PidAssumption DEF Init, PidInv
<1> QED
  BY <1>1, <1>2, <1>4, <1>5 DEF KInv

LEMMA KInvNext == KInv /\ [Next]_vars => KInv'
<1> SUFFICES ASSUME KInv, [Next]_vars PROVE KInv'
  OBVIOUS
<1>1. CASE Create
  BY <1>1, BeginStep DEF Create
<1>2. ASSUME NEW m \in BOOLEAN, Start(m) PROVE KInv'
  BY <1>2, BeginStep DEF Start
<1>3. ASSUME NEW c \in {"stop", "destroy"}, NEW m \in BOOLEAN, Stop(c, m) PROVE KInv'
  <2>1. CASE m
    BY <1>3, <2>1, BeginStep DEF Stop
  <2>2. CASE ~m
    BY <1>3, <2>2, BeginStep DEF Stop
  <2> QED
    BY <2>1, <2>2
<1>4. CASE Step
  BY <1>4, InitGlobalStep, BranchStep, CloneStep, CreateEndpointStep, StartNeonStep,
     StartServerStep, StopServerStep, StopNeonStep, RemoveStep, AdvanceStep DEF Step
<1>5. ASSUME NEW p \in Servers, ServerEnds(p) PROVE KInv'
  BY <1>5, ServerEndsStep
<1>6. CASE UNCHANGED vars
  <2>1. /\ UNCHANGED <<command, phase, todo, order, manual, commands, byHand>>
        /\ UNCHANGED <<faults, dirs, data, endpoint, pidfile, neon, server>>
    BY <1>6 DEF vars, ctl, disk
  <2>2. Types' /\ PhaseInv' /\ DataInv' /\ CreateInv'
    BY <2>1 DEF KInv, Types, PhaseInv, DataInv, CreateInv
  <2>3. /\ PidInv' /\ PortsInv' /\ PlaceInv'
        /\ \A r : Live(r)' <=> Live(r)
    BY <2>1, SameServers DEF KInv
  <2>4. NamedInv' /\ StepInv'
    BY <2>1, <2>3 DEF KInv, NamedInv, StepInv, Servers
  <2> QED
    BY <2>2, <2>3, <2>4 DEF KInv
<1> QED
  BY <1>1, <1>2, <1>3, <1>4, <1>5, <1>6 DEF Next

----------------------------------------------------------------------------
\* The inductive invariant of the local cluster tool: whatever commands were
\* given and wherever they failed, the pid files name servers of their own
\* region, ports belong to one server at a time, and the servers that run are
\* named and have an endpoint that runs, in every phase of every command.
THEOREM KInvHolds == Spec => []KInv
BY KInvInit, KInvNext, PTL DEF Spec

\* As long as --no-xactserver was never given, every server that runs is the
\* one its pid file names, so that stop_all_regions reaches it.
THEOREM RunningIsNamedHolds == Spec => []RunningIsNamed
<1>1. KInv => RunningIsNamed
  BY DEF KInv, NamedInv, RunningIsNamed
<1> QED
  BY <1>1, KInvHolds, PTL

----------------------------------------------------------------------------
\* The servers that run have been given one list, and while servers are being
\* started it is the list of this start.
AgreeInv ==
  ~byHand =>
    /\ \A p, q \in Servers : server[p].state = "running" /\ server[q].state = "running"
         => server[p].nodes = server[q].nodes
    /\ phase = "servers" =>
         \A p \in Servers : server[p].state = "running" => server[p].nodes = order

\* No server starts, and start does not come to the servers.
LEMMA AgreeKept ==
  ASSUME AgreeInv, byHand => byHand', Servers' = Servers,
         \A p \in Servers : /\ server'[p].nodes = server[p].nodes
                            /\ server'[p].state = "running" => server[p].state = "running",
         phase' = "servers" => phase = "servers" /\ order' = order
  PROVE  AgreeInv'
BY DEF AgreeInv

\* When the endpoints of all directories have been started no server runs: its
\* endpoint would run, and start would have refused it.
LEMMA NoneRuns ==
  ASSUME KInv, ~byHand, phase = "neon", todo = <<>>
  PROVE  \A p \in Servers : server[p].state # "running"
<1> SUFFICES ASSUME NEW p \in Servers, server[p].state = "running" PROVE FALSE
  OBVIOUS
<1> DEFINE r == server[p].region
<1>1. r \in Region
  <2>1. server[p] \in Server
    BY DEF KInv, Types, Servers
  <2> QED
    BY <2>1 DEF Server
<1>2. Live(r)
  BY DEF Live
<1> HIDE DEF r
<1>3. endpoint[r] = "running" /\ r \in dirs
  BY <1>1, <1>2 DEF KInv, NamedInv, DataInv, Types
<1>4. Items(todo) = {}
  BY EmptyIs
<1> QED
  BY <1>2, <1>3, <1>4 DEF KInv, StepInv

\* A server that starts is given the list of this start.
LEMMA StartServerAgrees ==
  ASSUME KInv, AgreeInv, StartServer
  PROVE  AgreeInv'
<1>1. phase = "servers" /\ UNCHANGED <<byHand, order>>
  BY DEF StartServer, At, Launch, Did, Raise, End
<1>2. CASE UNCHANGED server /\ phase' = "none"
  BY <1>1, <1>2, AgreeKept DEF Servers
<1>3. ASSUME NEW new, new.nodes = order, server' = Append(server, new)
      PROVE  AgreeInv'
  <2>1. /\ Servers' = Servers \cup {Pid} /\ server'[Pid] = new
        /\ \A p \in Servers : server'[p] = server[p]
    BY <1>3 DEF KInv, Types, Servers, Pid
  <2>2. ASSUME ~byHand, NEW p \in Servers', server'[p].state = "running"
        PROVE  server'[p].nodes = order
    BY <1>1, <1>3, <2>1, <2>2 DEF AgreeInv
  <2> QED
    BY <1>1, <2>2 DEF AgreeInv
<1>4. \/ UNCHANGED server /\ phase' = "none"
      \/ \E new : new.nodes = order /\ server' = Append(server, new)
  <2>1. CASE Raise /\ UNCHANGED server
    BY <2>1 DEF Raise, End
  <2> DEFINE new == [region |-> Head(todo), node |-> Node(Head(todo)), nodes |-> order,
                     state |-> IF PortsTaken(Node(Head(todo))) THEN "ended" ELSE "running"]
  <2>2. CASE server' = Append(server, new)
    <3>1. new.nodes = order
      OBVIOUS
    <3> QED
      BY <2>2, <3>1
  <2> QED
    BY <2>1, <2>2 DEF StartServer, Launch
<1> QED
  BY <1>2, <1>3, <1>4

\* Every step keeps the agreement.
LEMMA AgreeNext == KInv /\ AgreeInv /\ [Next]_vars => AgreeInv'
<1> SUFFICES ASSUME KInv, AgreeInv, [Next]_vars PROVE AgreeInv'
  OBVIOUS
<1>1. CASE /\ UNCHANGED server /\ (byHand => byHand')
           /\ phase' = "servers" => phase = "servers" /\ order' = order
  BY <1>1, AgreeKept DEF Servers
<1>2. CASE Create \/ (\E m \in BOOLEAN : Start(m))
             \/ (\E c \in {"stop", "destroy"}, m \in BOOLEAN : Stop(c, m))
  <2>1. /\ UNCHANGED server /\ (byHand => byHand')
        /\ phase' \in {"init", "neon", "stop-neon", "stop-servers"}
    BY <1>2 DEF Create, Start, Stop, Begin
  <2> QED
    BY <1>1, <2>1
<1>3. CASE InitGlobal \/ (\E keep \in BOOLEAN : Branch(keep))
  BY <1>1, <1>3 DEF InitGlobal, Branch, Raise, End, To
<1>4. CASE Clone \/ CreateEndpoint \/ StartNeon \/ StopNeon \/ Remove
  BY <1>1, <1>4 DEF Clone, CreateEndpoint, StartNeon, StopNeon, Remove, Did, Raise, End
<1>5. CASE StartServer
  BY <1>5, StartServerAgrees
<1>6. CASE StopServer
  <2>1. /\ UNCHANGED byHand /\ (phase' = "servers" => phase = "servers" /\ order' = order)
    BY <1>6 DEF StopServer, Did, Raise, End
  <2>2. CASE UNCHANGED server
    BY <1>1, <2>1, <2>2
  <2>3. ASSUME NEW pid, server' = Kill(pid) PROVE AgreeInv'
    <3>1. \A p \in Servers : server[p] \in Server
      BY DEF KInv, Types, Servers
    <3>2. /\ Servers' = Servers
          /\ \A p \in Servers :
               /\ server'[p].nodes = server[p].nodes
               /\ server'[p].state = "running" => server[p].state = "running"
      BY <2>3, <3>1 DEF Kill, Server, Servers
    <3> QED
      BY <2>1, <3>2, AgreeKept
  <2> QED
    BY <1>6, <2>2, <2>3 DEF StopServer
<1>7. CASE Advance
  <2>1. UNCHANGED <<server, byHand>> /\ todo = <<>>
    BY <1>7 DEF Advance, End, To
  <2>2. phase' = "servers" => phase = "neon"
    BY <1>7 DEF Advance, End, To
  <2>3. CASE phase' = "servers" /\ ~byHand
    BY <2>1, <2>2, <2>3, NoneRuns DEF AgreeInv, Servers
  <2>4. CASE phase' # "servers" \/ byHand
    BY <2>1, <2>4 DEF AgreeInv, Servers
  <2> QED
    BY <2>3, <2>4
<1>8. ASSUME NEW p \in Servers, ServerEnds(p) PROVE AgreeInv'
  <2>1. /\ server' = [server EXCEPT ![p].state = "ended"]
        /\ UNCHANGED <<byHand, phase, order>>
    BY <1>8 DEF ServerEnds, ctl
  <2>2. \A q \in Servers : server[q] \in Server
    BY DEF KInv, Types, Servers
  <2>3. /\ Servers' = Servers
        /\ \A q \in Servers :
             /\ server'[q].nodes = server[q].nodes
             /\ server'[q].state = "running" => server[q].state = "running"
    BY <2>1, <2>2 DEF Server, Servers
  <2> QED
    BY <2>1, <2>3, AgreeKept
<1>9. CASE UNCHANGED vars
  BY <1>1, <1>9 DEF vars, ctl
<1> QED
  BY <1>2, <1>3, <1>4, <1>5, <1>6, <1>7, <1>8, <1>9 DEF Next, Step

\* As long as --no-xactserver was never given, the servers that run agree on the
\* region each node number stands for, although start_all_regions numbers them by
\* whichever directories it finds.
THEOREM NumberingIsSharedHolds == Spec => []NumberingIsShared
<1>1. Init => AgreeInv
  BY DEF Init, AgreeInv, Servers
<1>2. AgreeInv => NumberingIsShared
  BY DEF AgreeInv, NumberingIsShared
<1> QED
  BY <1>1, <1>2, AgreeNext, KInvHolds, PTL DEF Spec

\* No region has two servers that run and were given the same list, even when
\* some were left to be stopped by hand: the later one found its ports taken.
THEOREM OneServerPerRegionHolds == Spec => []OneServerPerRegion
<1>1. KInv => OneServerPerRegion
  <2> SUFFICES ASSUME KInv, NEW p \in Servers, NEW q \in Servers, p # q,
                      server[p].nodes = server[q].nodes,
                      server[p].state = "running", server[q].state = "running",
                      server[p].region = server[q].region
               PROVE  FALSE
    BY DEF OneServerPerRegion
  <2>1. server[p].node = server[q].node
    BY DEF KInv, PlaceInv
  <2>2. server[p].node # server[q].node
    BY DEF KInv, PortsInv
  <2> QED
    BY <2>1, <2>2
<1> QED
  BY <1>1, KInvHolds, PTL
=============================================================================
