------------------------------- MODULE NeonCtl -------------------------------
(***************************************************************************)
(* tools/neonctl.py: the commands create, start, stop and destroy of a     *)
(* local cluster, one region after the other, over what earlier commands   *)
(* left in the data directory and among the running processes.             *)
(*                                                                         *)
(* Region 0 is the global one.  The directory of region i is called        *)
(* <prefix>i; start knows the regions only by the order of these names.    *)
(* neon_local, its processes and the xactserver processes are external: a  *)
(* server ends some time after SIGTERM, and at once when its ports are     *)
(* taken.  The port of an endpoint is 55432 + 2 * i, and those of a server *)
(* are 10000 + i, 8080 + i and 23000 + i: only i is kept.                  *)
(***************************************************************************)
EXTENDS Naturals, Sequences, FiniteSets

CONSTANTS
  NumRegions,    \* --num-regions of create
  MaxCommands,   \* bound: commands
  MaxFaults,     \* bound: commands of neon_local, and others, that fail
  None, Empty    \* a pid file that is not there, and one that is empty

ASSUME NumRegionsAssumption == NumRegions \in 1..98
ASSUME PidAssumption == {None, Empty} \cap Nat = {} /\ None # Empty
ASSUME BoundsAssumption == MaxCommands \in Nat /\ MaxFaults \in Nat

Region == 0..NumRegions

VARIABLES
  command,       \* the command at hand, or "none"
  phase,         \* what it does
  todo,          \* the regions it has yet to do in this phase, in order
  order,         \* the order of the regions when start or stop began
  manual,        \* --no-xactserver
  commands, faults,
  byHand,        \* history: some command was given --no-xactserver
  dirs,          \* the directories of regions
  data,          \* the directories that have a .neon
  neon,          \* external: the regions whose neon runs
  endpoint,      \* external: the endpoints, "none", "stopped" or "running"
  pidfile,       \* xactserver.pid: None, Empty or the number of a server
  server         \* external: the servers ever started, in order

ctl == <<command, phase, todo, order, manual, commands, byHand>>
disk == <<dirs, data, endpoint, pidfile>>
vars == <<ctl, faults, disk, neon, server>>

Servers == DOMAIN server
Alive == {p \in Servers : server[p].state # "ended"}

Init ==
  /\ command = "none" /\ phase = "none" /\ todo = <<>> /\ order = <<>>
  /\ manual = FALSE /\ commands = 0 /\ faults = 0 /\ byHand = FALSE
  /\ dirs = {} /\ data = {} /\ neon = {}
  /\ endpoint = [r \in Region |-> "none"]
  /\ pidfile = [r \in Region |-> None] /\ server = <<>>

----------------------------------------------------------------------------
Fault == faults < MaxFaults /\ faults' = faults + 1

\* The names of directories are compared as strings: r10 comes before r2.
NameBefore(r, s) ==
  LET digits(n) == IF n < 10 THEN <<n, 0>> ELSE <<n \div 10, 1 + (n % 10)>> IN
  \/ digits(r)[1] < digits(s)[1]
  \/ digits(r)[1] = digits(s)[1] /\ digits(r)[2] < digits(s)[2]

\* get_regions_in_root_dir
InOrder(S) ==
  [k \in 1..Cardinality(S) |->
     CHOOSE r \in S : Cardinality({s \in S : NameBefore(s, r)}) = k - 1]
Ascending(S) ==
  [k \in 1..Cardinality(S) |-> CHOOSE r \in S : Cardinality({s \in S : s < r}) = k - 1]

\* A command ends, at its end or by an exception.
End ==
  /\ command' = "none" /\ phase' = "none" /\ todo' = <<>>
  /\ UNCHANGED <<order, manual, commands, byHand>>
Raise == End

To(p, regions) ==
  /\ phase' = p /\ todo' = regions
  /\ UNCHANGED <<command, order, manual, commands, byHand>>

Did == todo' = Tail(todo) /\ UNCHANGED <<command, phase, order, manual, commands, byHand>>

Begin(c, p, m) ==
  /\ command = "none" /\ commands < MaxCommands /\ commands' = commands + 1
  /\ command' = c /\ phase' = p /\ manual' = m /\ byHand' = (byHand \/ m)
  /\ order' = InOrder(dirs) /\ todo' = order'
  /\ UNCHANGED <<faults, disk, neon, server>>

At(p) == phase = p /\ todo # <<>>

----------------------------------------------------------------------------
\* CreateCommand: the global region is set up, ...
Create == Begin("create", "init", FALSE)

InitGlobal ==
  /\ phase = "init"
  /\ dirs' = dirs \cup {0}
  /\ \/ 0 \notin data /\ data' = data \cup {0} /\ neon' = neon \cup {0}
        /\ To("branch", <<>>) /\ UNCHANGED faults
     \/ 0 \in data /\ Raise /\ UNCHANGED <<data, neon, faults>>
     \/ Fault /\ Raise /\ data' \in {data, data \cup {0}} /\ neon' \in {neon, neon \cup {0}}
  /\ UNCHANGED <<endpoint, pidfile, server>>

\* ... its tenant is given a timeline per region, it is stopped, unless it is
\* to be kept, ...
Branch(keep) ==
  /\ phase = "branch"
  /\ \/ /\ neon' = IF keep THEN neon ELSE neon \ {0}
        /\ To("clone", Ascending(Region \ {0})) /\ UNCHANGED faults
     \/ Fault /\ Raise /\ UNCHANGED neon
  /\ UNCHANGED <<disk, server>>

\* ... cloned for every region (see NeonClone), ...
Clone ==
  /\ At("clone")
  /\ LET r == Head(todo) IN
     /\ dirs' = dirs \cup {r}
     /\ \/ r \notin data /\ data' = data \cup {r} /\ Did /\ UNCHANGED faults
        \/ r \in data /\ Raise /\ UNCHANGED <<data, faults>>
        \/ Fault /\ Raise /\ data' \in {data, data \cup {r}}
  /\ UNCHANGED <<neon, endpoint, pidfile, server>>

\* ... and every region but the global one is given an endpoint.
CreateEndpoint ==
  /\ At("endpoint")
  /\ LET r == Head(todo) IN
     \/ /\ endpoint' = [endpoint EXCEPT ![r] = "stopped"]
        /\ Did /\ UNCHANGED faults
     \/ Fault /\ Raise /\ UNCHANGED endpoint
  /\ UNCHANGED <<dirs, data, pidfile, neon, server>>

----------------------------------------------------------------------------
\* start_all_regions: neon and the endpoint of every region first.  neon_local
\* creates an endpoint that does not exist, and refuses one that runs; it may
\* refuse to start a neon that runs.
Start(m) == Begin("start", "neon", m)

Refused(r) == endpoint[r] = "running"

StartNeon ==
  /\ At("neon")
  /\ LET r == Head(todo) IN
     \/ /\ r \in data /\ ~Refused(r)
        /\ neon' = neon \cup {r} /\ endpoint' = [endpoint EXCEPT ![r] = "running"]
        /\ Did /\ UNCHANGED faults
     \/ /\ r \notin data \/ r \in neon
        /\ Raise /\ UNCHANGED <<neon, endpoint, faults>>
     \/ Fault /\ Raise /\ neon' \in {neon, neon \cup {r}} /\ UNCHANGED endpoint
  /\ UNCHANGED <<dirs, data, pidfile, server>>

\* A slip: the nodes are numbered by a counter that goes on.
NodeByCounter(r) == Len(server)
Node(r) == (CHOOSE k \in DOMAIN order : order[k] = r) - 1

PortsTaken(node) == \E p \in Alive : server[p].node = node

Pid == Len(server) + 1

\* XactServer.run: the pid file is emptied, the server started, its pid written.
\* --nodes lists the servers by their number: the k-th is that of region nodes[k].
\* When it cannot be started the file stays empty.
Launch(r, node) ==
  \/ /\ server' = Append(server,
            [region |-> r, node |-> node, nodes |-> order,
             state |-> IF PortsTaken(node) THEN "ended" ELSE "running"])
     /\ pidfile' = [pidfile EXCEPT ![r] = Pid]
     /\ Did /\ UNCHANGED faults
  \/ Fault /\ Raise /\ pidfile' = [pidfile EXCEPT ![r] = Empty] /\ UNCHANGED server

\* start_all_regions: then the servers, numbered by their place.
StartServer ==
  /\ At("servers")
  /\ Launch(Head(todo), Node(Head(todo)))
  /\ UNCHANGED <<dirs, data, endpoint, neon>>

----------------------------------------------------------------------------
\* A slip: the servers are left out.
StopOnlyNeon(c, m) == Begin(c, "stop-neon", m)

\* stop_all_regions, the first part of destroy too.
Stop(c, m) == Begin(c, IF m THEN "stop-neon" ELSE "stop-servers", m)

\* os.kill(pid, SIGTERM); it does not wait, and the pid file stays.
Kill(pid) == [p \in Servers |->
  IF p = pid /\ server[p].state = "running" THEN [server[p] EXCEPT !.state = "ending"]
  ELSE server[p]]

\* XactServer.stop: int(f.read()) raises when the pid file is empty.
StopServer ==
  /\ At("stop-servers")
  /\ LET pid == pidfile[Head(todo)] IN
     \/ pid = None /\ Did /\ UNCHANGED server
     \/ pid = Empty /\ Raise /\ UNCHANGED server
     \/ pid \notin {None, Empty} /\ server' = Kill(pid) /\ Did
  /\ UNCHANGED <<faults, disk, neon>>

\* neon_local stop stops the endpoint too; its result is not looked at.
StopNeon ==
  /\ At("stop-neon") /\ Did
  /\ LET r == Head(todo) IN
     \/ /\ neon' = neon \ {r} /\ UNCHANGED faults
        /\ endpoint' = IF endpoint[r] = "running" THEN [endpoint EXCEPT ![r] = "stopped"]
                       ELSE endpoint
     \/ Fault /\ UNCHANGED <<neon, endpoint>>
  /\ UNCHANGED <<dirs, data, pidfile, server>>

\* DestroyCommand, after all is stopped.
Remove ==
  /\ At("remove")
  /\ LET r == Head(todo) IN
     \/ /\ dirs' = dirs \ {r} /\ data' = data \ {r}
        /\ endpoint' = [endpoint EXCEPT ![r] = "none"] /\ pidfile' = [pidfile EXCEPT ![r] = None]
        /\ Did /\ UNCHANGED faults
     \/ Fault /\ Raise /\ UNCHANGED disk
  /\ UNCHANGED <<neon, server>>

\* The next phase, when the regions are done.
Advance ==
  /\ command # "none" /\ todo = <<>>
  /\ CASE phase = "clone" -> To("endpoint", Ascending(Region \ {0}))
       [] phase = "neon" -> IF manual THEN End ELSE To("servers", order)
       [] phase = "stop-servers" -> To("stop-neon", order)
       [] phase = "stop-neon" /\ command = "destroy" -> To("remove", InOrder(dirs))
       [] phase = "stop-neon" /\ command # "destroy" -> End
       [] phase \in {"endpoint", "servers", "remove"} -> End
       [] OTHER -> FALSE
  /\ UNCHANGED <<faults, disk, neon, server>>

\* External: a server ends after SIGTERM.
ServerEnds(p) ==
  /\ server[p].state = "ending"
  /\ server' = [server EXCEPT ![p].state = "ended"]
  /\ UNCHANGED <<ctl, faults, disk, neon>>

Step ==
  \/ InitGlobal \/ (\E keep \in BOOLEAN : Branch(keep)) \/ Clone \/ CreateEndpoint
  \/ StartNeon \/ StartServer \/ StopServer \/ StopNeon \/ Remove \/ Advance

Next ==
  \/ Create \/ (\E m \in BOOLEAN : Start(m))
  \/ \E c \in {"stop", "destroy"}, m \in BOOLEAN : Stop(c, m)
  \/ Step
  \/ \E p \in Servers : ServerEnds(p)

Spec == Init /\ [][Next]_vars

----------------------------------------------------------------------------
\* The type invariant: a pid file names a server of its own region.
TypeOK ==
  /\ command \in {"none", "create", "start", "stop", "destroy"}
  /\ \A k \in DOMAIN todo : todo[k] \in Region
  /\ dirs \subseteq Region /\ data \subseteq dirs /\ neon \subseteq Region
  /\ endpoint \in [Region -> {"none", "stopped", "running"}]
  /\ \A p \in Servers : server[p].region \in Region /\ server[p].node \in Region
  /\ \A r \in Region : pidfile[r] \in Servers => server[pidfile[r]].region = r
  /\ commands \in 0..MaxCommands /\ faults \in 0..MaxFaults

\* The servers that run agree on which region each node number stands for, as
\* long as --no-xactserver was never given: servers of two starts, between which
\* a create or a destroy stopped half way and moved the places of the regions,
\* never run side by side.
NumberingIsShared ==
  \A p, q \in Servers :
    server[p].state = "running" /\ server[q].state = "running"
      => byHand \/ server[p].nodes = server[q].nodes

\* As long as --no-xactserver was never given, every server that runs is the one
\* its pid file names, so that stop reaches it, whatever start, stop and destroy
\* came before and wherever they failed.
RunningIsNamed ==
  \A p \in Servers :
    server[p].state = "running" => byHand \/ pidfile[server[p].region] = p

\* No region has two servers that run, even when servers were left to be
\* stopped by hand and their pid files overwritten since: the later one finds
\* its ports taken, as long as both starts found the same directories.
OneServerPerRegion ==
  \A p, q \in Servers :
    /\ p # q /\ server[p].nodes = server[q].nodes
    /\ server[p].state = "running" /\ server[q].state = "running"
    => server[p].region # server[q].region
=============================================================================
