------------------------------ MODULE NeonClone ------------------------------
(***************************************************************************)
(* tools/neonclone.py: clones of a .neon directory.  A clone gets the      *)
(* ports and ids of its source, moved by an offset, so that all of them    *)
(* can run on one machine; neonctl.py clones the global region once for    *)
(* each region, and the command line clones any directory, clones too.     *)
(*                                                                         *)
(* The steps of a clone write pageserver.toml, config, the directories of  *)
(* the safekeepers and config again; a clone may be stopped between any    *)
(* two of them.  The host names, that are only copied or replaced, are     *)
(* left out.                                                               *)
(***************************************************************************)
EXTENDS Integers, FiniteSets

CONSTANTS
  Dir,          \* the directories
  Source,       \* the one that neon_local has set up
  NumSk,        \* the number of safekeepers
  Offset,       \* the offsets that are used
  BaseId,       \* the ids and ports of Source
  BaseHttp, BasePg, BaseXact, BaseSkHttp, BaseSkPg

Sk == 1..NumSk

ASSUME SourceAssumption == Source \in Dir
ASSUME NumSkAssumption == NumSk \in Nat \ {0}
ASSUME OffsetAssumption == Offset \subseteq Nat
ASSUME BaseAssumption ==
  /\ BaseId \in Nat /\ BaseHttp \in Nat /\ BasePg \in Nat /\ BaseXact \in Nat
  /\ BaseSkHttp \in [Sk -> Nat] /\ BaseSkPg \in [Sk -> Nat]

VARIABLES
  neon,         \* the directories that have a .neon
  toml,         \* pageserver.toml of each
  conf,         \* config of each: the pageserver and the xactserver
  sk,           \* config of each: the safekeepers
  disk,         \* where each safekeeper's directory is: its id on disk
  pc,           \* the next step of the clone at hand, or "idle"
  src, dst, offset,
                \* its source, target and offset
  at,           \* the safekeeper it renames next
  ended,        \* history: the directories whose own cloning came to the end
  whole,        \* history: the directories whose cloning came to the end, and
                \* that of the directories they come from
  total         \* history: the sum of the offsets that led to a directory

files == <<neon, toml, conf, sk, disk>>
vars == <<files, pc, src, dst, offset, at, ended, whole, total>>

Init ==
  /\ neon = {Source} /\ ended = {Source} /\ whole = {Source}
  /\ toml = [d \in Dir |-> [http |-> BaseHttp, pg |-> BasePg, id |-> BaseId]]
  /\ conf = [d \in Dir |-> [http |-> BaseHttp, pg |-> BasePg, id |-> BaseId,
                            xact |-> BaseXact]]
  /\ sk = [d \in Dir |-> [i \in Sk |-> [id |-> i, http |-> BaseSkHttp[i],
                                        pg |-> BaseSkPg[i]]]]
  /\ disk = [d \in Dir |-> [i \in Sk |-> i]]
  /\ pc = "idle" /\ src = Source /\ dst = Source /\ offset = 0 /\ at = 1
  /\ total = [d \in Dir |-> 0]

----------------------------------------------------------------------------
\* deep_copy_neon: the source must have a .neon and the target must not.
DeepCopy(old, new, o) ==
  /\ pc = "idle" /\ old \in neon /\ new \notin neon
  /\ neon' = neon \cup {new}
  /\ toml' = [toml EXCEPT ![new] = toml[old]]
  /\ conf' = [conf EXCEPT ![new] = conf[old]]
  /\ sk' = [sk EXCEPT ![new] = sk[old]]
  /\ disk' = [disk EXCEPT ![new] = disk[old]]
  /\ pc' = "toml" /\ src' = old /\ dst' = new /\ offset' = o /\ at' = 1
  /\ total' = [total EXCEPT ![new] = total[old] + o]
  /\ UNCHANGED <<ended, whole>>

\* A slip: the id of the pageserver is kept.
MovedPorts(t) == [http |-> t.http + offset, pg |-> t.pg + offset, id |-> t.id]
Moved(t) == [http |-> t.http + offset, pg |-> t.pg + offset, id |-> t.id + offset]

\* edit_configs: pageserver.toml is edited and saved, ...
EditToml ==
  /\ pc = "toml" /\ pc' = "conf"
  /\ toml' = [toml EXCEPT ![dst] = Moved(toml[dst])]
  /\ UNCHANGED <<neon, conf, sk, disk, src, dst, offset, at, ended, whole, total>>

\* A slip: the pageserver is moved in each file by itself.
PageserverMoved ==
  Moved([http |-> conf[dst].http, pg |-> conf[dst].pg, id |-> conf[dst].id])
Pageserver == toml[dst]

\* ... then config: the pageserver gets the values of pageserver.toml.
EditConf ==
  /\ pc = "conf" /\ pc' = "rename"
  /\ conf' = [conf EXCEPT ![dst] =
       [http |-> Pageserver.http, pg |-> Pageserver.pg, id |-> Pageserver.id,
        xact |-> conf[dst].xact + offset]]
  /\ sk' = [sk EXCEPT ![dst] =
       [i \in Sk |-> [id |-> sk[dst][i].id, http |-> sk[dst][i].http + offset,
                      pg |-> sk[dst][i].pg + offset]]]
  /\ UNCHANGED <<neon, toml, disk, src, dst, offset, at, ended, whole, total>>

\* A slip: the ids are moved like the ports.
NewIdByOffset(i) == sk[dst][i].id + offset
NewId(i) == sk[dst][i].id + NumSk * offset

\* edit_safekeeper_ids: the directory sk<id> gets the new id.  It stops when
\* there is no such directory, or one with the new id in the way.
Rename ==
  /\ pc = "rename" /\ at \in Sk
  /\ disk[dst][at] = sk[dst][at].id
  /\ \A i \in Sk \ {at} : disk[dst][i] # NewId(at)
  /\ disk' = [disk EXCEPT ![dst][at] = NewId(at)]
  /\ at' = at + 1
  /\ UNCHANGED <<neon, toml, conf, sk, pc, src, dst, offset, ended, whole, total>>

\* The new ids are saved when all are renamed.
SaveIds ==
  /\ pc = "rename" /\ at = NumSk + 1
  /\ sk' = [sk EXCEPT ![dst] = [i \in Sk |-> [id |-> NewId(i), http |-> sk[dst][i].http,
                                              pg |-> sk[dst][i].pg]]]
  /\ pc' = "idle" /\ ended' = ended \cup {dst}
  /\ whole' = IF src \in whole THEN whole \cup {dst} ELSE whole
  /\ UNCHANGED <<neon, toml, conf, disk, src, dst, offset, at, total>>

\* An error or an interruption: what was written stays.
Stop ==
  /\ pc # "idle" /\ pc' = "idle"
  /\ UNCHANGED <<files, src, dst, offset, at, ended, whole, total>>

Next ==
  \/ \E old, new \in Dir, o \in Offset : DeepCopy(old, new, o)
  \/ EditToml \/ EditConf \/ Rename \/ SaveIds \/ Stop

Spec == Init /\ [][Next]_vars

----------------------------------------------------------------------------
\* The type invariant.
TypeOK ==
  /\ neon \subseteq Dir /\ whole \subseteq neon /\ ended \subseteq neon
  /\ toml \in [Dir -> [http : Nat, pg : Nat, id : Nat]]
  /\ conf \in [Dir -> [http : Nat, pg : Nat, id : Nat, xact : Nat]]
  /\ sk \in [Dir -> [Sk -> [id : Nat, http : Nat, pg : Nat]]]
  /\ disk \in [Dir -> [Sk -> Nat]]
  /\ pc \in {"idle", "toml", "conf", "rename"}
  /\ src \in Dir /\ dst \in Dir /\ offset \in Nat /\ at \in 1..(NumSk + 1)
  /\ total \in [Dir -> Nat]

Shifted(d) ==
  /\ toml[d] = [http |-> BaseHttp + total[d], pg |-> BasePg + total[d],
                id |-> BaseId + total[d]]
  /\ conf[d] = [http |-> BaseHttp + total[d], pg |-> BasePg + total[d],
                id |-> BaseId + total[d], xact |-> BaseXact + total[d]]
  /\ \A i \in Sk : /\ sk[d][i].id = i + NumSk * total[d]
                   /\ sk[d][i].http = BaseSkHttp[i] + total[d]
                   /\ sk[d][i].pg = BaseSkPg[i] + total[d]
                   /\ disk[d][i] = sk[d][i].id

\* A clone that ended agrees with itself, whatever it was made of: even from a
\* directory that another clone left half edited or half renamed, its two files
\* name one pageserver and its safekeepers are where the file says.
EndedIsConsistent ==
  \A d \in ended :
    /\ toml[d] = [http |-> conf[d].http, pg |-> conf[d].pg, id |-> conf[d].id]
    /\ \A i \in Sk : disk[d][i] = sk[d][i].id

\* A clone that ended, and whose ancestors did, is its first ancestor moved by
\* the sum of the offsets, in both files and on disk: a clone of a clone is no
\* different from a clone.
CloneIsShifted ==
  \A d \in whole : Shifted(d)

\* Two such directories with different sums share no pageserver id, no port of
\* the same server and no safekeeper id.
ClonesAreApart ==
  \A d, e \in whole : total[d] # total[e] =>
    /\ conf[d].id # conf[e].id /\ conf[d].http # conf[e].http
    /\ conf[d].pg # conf[e].pg /\ conf[d].xact # conf[e].xact
    /\ \A i \in Sk : sk[d][i].http # sk[e][i].http /\ sk[d][i].pg # sk[e][i].pg
    /\ \A i, j \in Sk : sk[d][i].id # sk[e][j].id
=============================================================================
