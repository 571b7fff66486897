--------------------------- MODULE NeonCloneProofs ---------------------------
(***************************************************************************)
(* For any number of safekeepers, any directories, offsets, ports and ids, *)
(* and with clones that stop at any step: a clone that ended is the first  *)
(* source moved by the sum of the offsets, so that clones with different   *)
(* sums never share an id or a port of the same server.                    *)
(*                                                                         *)
(* CloneIsShifted says nothing of the clone at hand; the inductive         *)
(* invariant adds what each of its steps has written so far.  For clones   *)
(* of half clones nothing is known of the values, only that they agree.    *)
(***************************************************************************)
EXTENDS NeonClone, TLAPS

\* The values moved by n, file by file.
TomlAt(d, n) ==
  toml[d] = [http |-> BaseHttp + n, pg |-> BasePg + n, id |-> BaseId + n]
ConfAt(d, n) ==
  conf[d] = [http |-> BaseHttp + n, pg |-> BasePg + n, id |-> BaseId + n,
             xact |-> BaseXact + n]
PortsAt(d, n) ==
  \A i \in Sk : sk[d][i].http = BaseSkHttp[i] + n /\ sk[d][i].pg = BaseSkPg[i] + n
IdsAt(d, n) == \A i \in Sk : sk[d][i].id = i + NumSk * n
DiskAt(d, i, n) == disk[d][i] = i + NumSk * n

\* What the clone at hand has written, if its source is whole.
AtHand ==
  pc # "idle" =>
    /\ dst \in neon /\ dst \notin whole /\ src # dst
    /\ total[dst] = total[src] + offset
    /\ src \in whole =>
         /\ TomlAt(dst, IF pc = "toml" THEN total[src] ELSE total[dst])
         /\ ConfAt(dst, IF pc = "rename" THEN total[dst] ELSE total[src])
         /\ PortsAt(dst, IF pc = "rename" THEN total[dst] ELSE total[src])
         /\ IdsAt(dst, total[src])
         /\ \A i \in Sk :
              DiskAt(dst, i, IF pc = "rename" /\ i < at THEN total[dst] ELSE total[src])
    /\ pc # "rename" => at = 1

\* The parts of Shifted.
ShiftedParts(d) ==
  /\ TomlAt(d, total[d]) /\ ConfAt(d, total[d]) /\ PortsAt(d, total[d])
  /\ IdsAt(d, total[d]) /\ \A i \in Sk : DiskAt(d, i, total[d])

IInv == TypeOK /\ AtHand /\ \A d \in whole : ShiftedParts(d)

\* Offsets add up in the ids of the safekeepers.
LEMMA Distributes ==
  ASSUME NEW n \in Nat, NEW a \in Nat, NEW b \in Nat
  PROVE  n * (a + b) = n * a + n * b /\ n * a \in Nat
OBVIOUS

\* The parts say the same as Shifted.
LEMMA PartsAreShifted == TypeOK => \A d \in Dir : ShiftedParts(d) <=> Shifted(d)
BY DEF TypeOK, ShiftedParts, Shifted, TomlAt, ConfAt, PortsAt, IdsAt, DiskAt

\* The invariant holds for the source that neon_local set up.
LEMMA InitIInv == Init => IInv
<1> SUFFICES ASSUME Init PROVE IInv
  OBVIOUS
<1>1. TypeOK
  BY SourceAssumption, NumSkAssumption, BaseAssumption DEF Init, TypeOK, Sk
<1>2. AtHand
  BY DEF Init, AtHand
<1>3. \A d \in whole : ShiftedParts(d)
  BY SourceAssumption, NumSkAssumption, BaseAssumption
     DEF Init, ShiftedParts, TomlAt, ConfAt, PortsAt, IdsAt, DiskAt, Sk
<1> QED
  BY <1>1, <1>2, <1>3 DEF IInv

\* The types, step by step.
LEMMA NextTypeOK == TypeOK /\ AtHand /\ [Next]_vars => TypeOK'
<1> SUFFICES ASSUME TypeOK, AtHand, [Next]_vars PROVE TypeOK'
  OBVIOUS
<1>1. ASSUME NEW old \in Dir, NEW new \in Dir, NEW o \in Offset, DeepCopy(old, new, o)
      PROVE  TypeOK'
  <2>1. total[old] + o \in Nat
    BY OffsetAssumption DEF TypeOK
  <2> QED
    BY <1>1, <2>1, OffsetAssumption, NumSkAssumption DEF TypeOK, DeepCopy
<1>2. CASE EditToml
  BY <1>2 DEF TypeOK, EditToml, Moved
<1>3. CASE EditConf
  BY <1>3 DEF TypeOK, EditConf, Pageserver
<1>4. \A i \in Sk : NewId(i) \in Nat
  <2> SUFFICES ASSUME NEW i \in Sk PROVE NewId(i) \in Nat
    OBVIOUS
  <2>1. sk[dst][i].id \in Nat /\ offset \in Nat
    BY DEF TypeOK
  <2> QED
    BY <2>1, Distributes, NumSkAssumption DEF NewId
<1>5. CASE Rename
  <2>1. at' \in 1..(NumSk + 1)
    BY <1>5, NumSkAssumption DEF TypeOK, Rename, Sk
  <2>2. disk' \in [Dir -> [Sk -> Nat]]
    BY <1>4, <1>5 DEF TypeOK, Rename
  <2> QED
    BY <1>5, <2>1, <2>2 DEF TypeOK, Rename
<1>6. CASE SaveIds
  <2>1. [i \in Sk |-> [id |-> NewId(i), http |-> sk[dst][i].http, pg |-> sk[dst][i].pg]]
          \in [Sk -> [id : Nat, http : Nat, pg : Nat]]
    BY <1>4 DEF TypeOK
  <2>2. sk' \in [Dir -> [Sk -> [id : Nat, http : Nat, pg : Nat]]]
    BY <1>6, <2>1 DEF TypeOK, SaveIds
  <2>3. whole' \subseteq neon' /\ ended' \subseteq neon'
    BY <1>6 DEF TypeOK, SaveIds, AtHand
  <2> QED
    BY <1>6, <2>2, <2>3 DEF TypeOK, SaveIds
<1>7. CASE Stop
  BY <1>7 DEF TypeOK, Stop, files
<1>8. CASE UNCHANGED vars
  BY <1>8 DEF TypeOK, vars, files
<1> QED
  BY <1>1, <1>2, <1>3, <1>5, <1>6, <1>7, <1>8 DEF Next

\* A directory that is neither made nor being worked on stays as it is.
LEMMA Untouched ==
  ASSUME NEW d \in Dir, toml'[d] = toml[d], conf'[d] = conf[d], sk'[d] = sk[d],
         disk'[d] = disk[d], total'[d] = total[d], ShiftedParts(d)
  PROVE  ShiftedParts(d)'
BY DEF ShiftedParts, TomlAt, ConfAt, PortsAt, IdsAt, DiskAt

\* Every step keeps the invariant.
LEMMA NextIInv == IInv /\ [Next]_vars => IInv'
<1> SUFFICES ASSUME IInv, [Next]_vars PROVE IInv'
  OBVIOUS
<1> USE DEF IInv
<1>t. TypeOK'
  BY NextTypeOK
<1>n. ASSUME NEW i \in Sk, src \in whole, pc = "rename"
      PROVE  NewId(i) = i + NumSk * total[dst]
  <2>1. total[dst] = total[src] + offset /\ sk[dst][i].id = i + NumSk * total[src]
    BY <1>n DEF AtHand, IdsAt
  <2>2. total[src] \in Nat /\ offset \in Nat /\ NumSk \in Nat /\ i \in Nat
    BY NumSkAssumption DEF TypeOK, Sk
  <2>3. NumSk * (total[src] + offset) = NumSk * total[src] + NumSk * offset
          /\ NumSk * total[src] \in Nat /\ NumSk * offset \in Nat
    BY <2>2, Distributes
  <2> QED
    BY <2>1, <2>2, <2>3 DEF NewId
<1>1. ASSUME NEW old \in Dir, NEW new \in Dir, NEW o \in Offset, DeepCopy(old, new, o)
      PROVE  IInv'
  <2>1. \A d \in Dir \ {new} : /\ toml'[d] = toml[d] /\ conf'[d] = conf[d]
                              /\ sk'[d] = sk[d] /\ disk'[d] = disk[d]
                              /\ total'[d] = total[d]
    BY <1>1 DEF DeepCopy, TypeOK
  <2>2. new \notin whole /\ old # new /\ whole' = whole
    BY <1>1 DEF DeepCopy, TypeOK
  <2>3. \A d \in whole' : ShiftedParts(d)'
    BY <2>1, <2>2, Untouched DEF TypeOK
  <2>4. /\ toml'[new] = toml[old] /\ conf'[new] = conf[old] /\ sk'[new] = sk[old]
        /\ disk'[new] = disk[old] /\ total'[new] = total[old] + o
        /\ total'[old] = total[old]
    BY <1>1, <2>2 DEF DeepCopy, TypeOK
  <2>5. AtHand'
    BY <1>1, <2>2, <2>4
       DEF DeepCopy, AtHand, ShiftedParts, TomlAt, ConfAt, PortsAt, IdsAt, DiskAt
  <2> QED
    BY <1>t, <2>3, <2>5
<1>2. CASE EditToml
  <2>1. \A d \in Dir \ {dst} : toml'[d] = toml[d]
    BY <1>2 DEF EditToml, TypeOK
  <2>2. pc # "idle" /\ dst \notin whole
    BY <1>2 DEF EditToml, AtHand
  <2>3. \A d \in whole' : ShiftedParts(d)'
    BY <1>2, <2>1, <2>2, Untouched DEF EditToml, TypeOK
  <2>4. src \in whole => TomlAt(dst, total[dst])'
    <3> SUFFICES ASSUME src \in whole PROVE TomlAt(dst, total[dst])'
      OBVIOUS
    <3>1. toml'[dst] = Moved(toml[dst])
      BY <1>2 DEF EditToml, TypeOK
    <3>2. TomlAt(dst, total[src]) /\ total[dst] = total[src] + offset
      BY <1>2 DEF EditToml, AtHand
    <3>3. total[src] \in Nat /\ offset \in Nat
      BY DEF TypeOK
    <3> QED
      BY <1>2, <3>1, <3>2, <3>3, BaseAssumption DEF EditToml, TomlAt, Moved
  <2>5. AtHand'
    BY <1>2, <2>4 DEF EditToml, AtHand, TomlAt, ConfAt, PortsAt, IdsAt, DiskAt
  <2> QED
    BY <1>t, <2>3, <2>5
<1>3. CASE EditConf
  <2>1. \A d \in Dir \ {dst} : conf'[d] = conf[d] /\ sk'[d] = sk[d]
    BY <1>3 DEF EditConf, TypeOK
  <2>2. pc # "idle" /\ dst \notin whole
    BY <1>3 DEF EditConf, AtHand
  <2>3. \A d \in whole' : ShiftedParts(d)'
    BY <1>3, <2>1, <2>2, Untouched DEF EditConf, TypeOK
  <2>4. ASSUME src \in whole
        PROVE  ConfAt(dst, total[dst])' /\ PortsAt(dst, total[dst])' /\ IdsAt(dst, total[src])'
    <3>1. /\ TomlAt(dst, total[dst]) /\ ConfAt(dst, total[src])
          /\ PortsAt(dst, total[src]) /\ IdsAt(dst, total[src])
          /\ total[dst] = total[src] + offset
      BY <1>3, <2>4 DEF EditConf, AtHand
    <3>2. total[src] \in Nat /\ offset \in Nat
      BY DEF TypeOK
    <3>3. ConfAt(dst, total[dst])'
      BY <1>3, <3>1, <3>2, BaseAssumption DEF EditConf, Pageserver, TypeOK, TomlAt, ConfAt
    <3>4. \A i \in Sk : /\ sk'[dst][i].id = sk[dst][i].id
                       /\ sk'[dst][i].http = sk[dst][i].http + offset
                       /\ sk'[dst][i].pg = sk[dst][i].pg + offset
      BY <1>3 DEF EditConf, TypeOK
    <3>5. PortsAt(dst, total[dst])'
      BY <1>3, <3>1, <3>2, <3>4, BaseAssumption DEF EditConf, PortsAt
    <3>6. IdsAt(dst, total[src])'
      BY <1>3, <3>1, <3>4 DEF EditConf, IdsAt
    <3> QED
      BY <3>3, <3>5, <3>6
  <2>5. AtHand'
    <3>1. src \in whole => TomlAt(dst, total[dst]) /\ \A i \in Sk : DiskAt(dst, i, total[src])
      BY <1>3 DEF EditConf, AtHand
    <3>2. at = 1 /\ \A i \in Sk : ~(i < 1)
      BY <1>3, NumSkAssumption DEF EditConf, AtHand, Sk
    <3> QED
      BY <1>3, <2>4, <3>1, <3>2 DEF EditConf, AtHand, TomlAt, DiskAt
  <2> QED
    BY <1>t, <2>3, <2>5
<1>4. CASE Rename
  <2>1. \A d \in Dir \ {dst} : disk'[d] = disk[d]
    BY <1>4 DEF Rename, TypeOK
  <2>2. pc # "idle" /\ dst \notin whole
    BY <1>4 DEF Rename, AtHand
  <2>3. \A d \in whole' : ShiftedParts(d)'
    BY <1>4, <2>1, <2>2, Untouched DEF Rename, TypeOK
  <2>4. ASSUME src \in whole, NEW i \in Sk
        PROVE  disk'[dst][i] = i + NumSk * (IF i < at' THEN total[dst] ELSE total[src])
    <3>1. disk'[dst][i] = IF i = at THEN NewId(at) ELSE disk[dst][i]
      BY <1>4 DEF Rename, TypeOK
    <3>2. DiskAt(dst, i, IF i < at THEN total[dst] ELSE total[src])
      BY <1>4, <2>4 DEF Rename, AtHand
    <3>3. NewId(at) = at + NumSk * total[dst]
      BY <1>4, <2>4, <1>n DEF Rename
    <3>4. i < at' <=> i < at \/ i = at
      BY <1>4 DEF Rename, TypeOK, Sk
    <3>5. CASE i = at
      BY <3>1, <3>3, <3>4, <3>5
    <3>6. CASE i # at
      BY <3>1, <3>2, <3>4, <3>6 DEF DiskAt
    <3> QED
      BY <3>5, <3>6
  <2>5. src \in whole' => \A i \in Sk :
          DiskAt(dst, i, IF pc = "rename" /\ i < at THEN total[dst] ELSE total[src])'
    BY <1>4, <2>4 DEF Rename, DiskAt
  <2>6. src \in whole' =>
          /\ TomlAt(dst, total[dst])' /\ ConfAt(dst, total[dst])'
          /\ PortsAt(dst, total[dst])' /\ IdsAt(dst, total[src])'
    BY <1>4 DEF Rename, AtHand, TomlAt, ConfAt, PortsAt, IdsAt
  <2>7. AtHand'
    BY <1>4, <2>5, <2>6 DEF Rename, AtHand
  <2> QED
    BY <1>t, <2>3, <2>7
<1>5. CASE SaveIds
  <2>1. \A d \in Dir \ {dst} : sk'[d] = sk[d]
    BY <1>5 DEF SaveIds, TypeOK
  <2>2. dst \notin whole
    BY <1>5 DEF SaveIds, AtHand
  <2>3. \A d \in whole : ShiftedParts(d)'
    BY <1>5, <2>1, <2>2, Untouched DEF SaveIds, TypeOK
  <2>4. ASSUME src \in whole PROVE ShiftedParts(dst)'
    <3>1. /\ TomlAt(dst, total[dst]) /\ ConfAt(dst, total[dst]) /\ PortsAt(dst, total[dst])
          /\ \A i \in Sk : DiskAt(dst, i, IF i < at THEN total[dst] ELSE total[src])
      BY <1>5, <2>4 DEF SaveIds, AtHand
    <3>2. \A i \in Sk : i < at
      BY <1>5, NumSkAssumption DEF SaveIds, Sk
    <3>3. \A i \in Sk : DiskAt(dst, i, total[dst])
      BY <3>1, <3>2
    <3>4. \A i \in Sk : /\ sk'[dst][i].id = NewId(i)
                       /\ sk'[dst][i].http = sk[dst][i].http
                       /\ sk'[dst][i].pg = sk[dst][i].pg
      BY <1>5 DEF SaveIds, TypeOK
    <3>5. PortsAt(dst, total[dst])'
      BY <1>5, <3>1, <3>4 DEF SaveIds, PortsAt
    <3>6. IdsAt(dst, total[dst])'
      BY <1>5, <1>n, <2>4, <3>4 DEF SaveIds, IdsAt
    <3> QED
      BY <1>5, <3>1, <3>3, <3>5, <3>6 DEF SaveIds, ShiftedParts, TomlAt, ConfAt, DiskAt
  <2>5. \A d \in whole' : ShiftedParts(d)'
    BY <1>5, <2>3, <2>4 DEF SaveIds
  <2>6. AtHand'
    BY <1>5 DEF SaveIds, AtHand
  <2> QED
    BY <1>t, <2>5, <2>6
<1>6. CASE Stop
  <2>1. \A d \in whole' : ShiftedParts(d)'
    BY <1>6, Untouched DEF Stop, files, TypeOK
  <2>2. AtHand'
    BY <1>6 DEF Stop, AtHand
  <2> QED
    BY <1>t, <2>1, <2>2
<1>7. CASE UNCHANGED vars
  <2>1. \A d \in whole' : ShiftedParts(d)'
    BY <1>7, Untouched DEF vars, files, TypeOK
  <2>2. AtHand'
    BY <1>7 DEF vars, files, AtHand, TomlAt, ConfAt, PortsAt, IdsAt, DiskAt
  <2> QED
    BY <1>t, <2>1, <2>2
<1> QED
  BY <1>1, <1>2, <1>3, <1>4, <1>5, <1>6, <1>7 DEF Next

----------------------------------------------------------------------------
\* The invariant holds throughout.
THEOREM IInvHolds == Spec => []IInv
<1>1. Init => IInv
  BY InitIInv
<1>2. IInv /\ [Next]_vars => IInv'
  BY NextIInv
<1> QED
  BY <1>1, <1>2, PTL DEF Spec

\* The types are right: no id or port ever goes below zero.
THEOREM TypesHold == Spec => []TypeOK
<1>1. IInv => TypeOK
  BY DEF IInv
<1> QED
  BY <1>1, IInvHolds, PTL

\* A clone that ended is the first source moved by the sum of the offsets.
THEOREM ClonesAreShifted == Spec => []CloneIsShifted
<1>1. IInv => CloneIsShifted
  BY PartsAreShifted DEF IInv, CloneIsShifted, TypeOK
<1> QED
  BY <1>1, IInvHolds, PTL

----------------------------------------------------------------------------
\* The two files of a directory name one pageserver.
FilesAgree(d) ==
  toml[d] = [http |-> conf[d].http, pg |-> conf[d].pg, id |-> conf[d].id]

\* What the clone at hand has made agree so far, whatever its source.
EInv ==
  /\ \A d \in ended : FilesAgree(d) /\ \A i \in Sk : disk[d][i] = sk[d][i].id
  /\ pc # "idle" => dst \notin ended
  /\ pc = "rename" =>
       FilesAgree(dst) /\ \A i \in Sk : i < at => disk[dst][i] = NewId(i)

\* A directory that no step touches goes on agreeing.
LEMMA StillAgrees ==
  ASSUME NEW d \in Dir, toml'[d] = toml[d], conf'[d] = conf[d], sk'[d] = sk[d],
         disk'[d] = disk[d], FilesAgree(d), \A i \in Sk : disk[d][i] = sk[d][i].id
  PROVE  FilesAgree(d)' /\ \A i \in Sk : disk'[d][i] = sk'[d][i].id
BY DEF FilesAgree

\* Every step keeps this invariant.
LEMMA NextEInv == IInv /\ EInv /\ [Next]_vars => EInv'
<1> SUFFICES ASSUME IInv, EInv, [Next]_vars PROVE EInv'
  OBVIOUS
<1>0. TypeOK /\ ended \subseteq Dir /\ dst \in Dir
  BY DEF IInv, TypeOK
<1>1. ASSUME NEW old \in Dir, NEW new \in Dir, NEW o \in Offset, DeepCopy(old, new, o)
      PROVE  EInv'
  <2>1. \A d \in Dir \ {new} : /\ toml'[d] = toml[d] /\ conf'[d] = conf[d]
                              /\ sk'[d] = sk[d] /\ disk'[d] = disk[d]
    BY <1>0, <1>1 DEF DeepCopy, TypeOK
  <2>2. new \notin ended /\ ended' = ended /\ dst' = new /\ pc' = "toml"
    BY <1>0, <1>1 DEF DeepCopy, TypeOK
  <2> QED
    BY <1>0, <2>1, <2>2, StillAgrees DEF EInv
<1>2. CASE EditToml
  <2>1. /\ \A d \in Dir \ {dst} : toml'[d] = toml[d]
        /\ UNCHANGED <<conf, sk, disk, dst, ended>> /\ pc = "toml" /\ pc' = "conf"
    BY <1>0, <1>2 DEF EditToml, TypeOK
  <2> QED
    BY <1>0, <2>1, StillAgrees DEF EInv
<1>3. CASE EditConf
  <2>1. /\ \A d \in Dir \ {dst} : conf'[d] = conf[d] /\ sk'[d] = sk[d]
        /\ UNCHANGED <<toml, disk, dst, at, ended>> /\ pc = "conf" /\ at = 1
    BY <1>0, <1>3 DEF EditConf, TypeOK, IInv, AtHand
  <2>2. FilesAgree(dst)'
    <3>1. /\ conf'[dst].http = toml[dst].http /\ conf'[dst].pg = toml[dst].pg
          /\ conf'[dst].id = toml[dst].id
      BY <1>0, <1>3 DEF EditConf, Pageserver, TypeOK
    <3>2. toml[dst] \in [http : Nat, pg : Nat, id : Nat]
      BY <1>0 DEF TypeOK
    <3> QED
      BY <2>1, <3>1, <3>2 DEF FilesAgree
  <2>3. \A i \in Sk : ~(i < at')
    BY <2>1 DEF Sk
  <2> QED
    BY <1>0, <2>1, <2>2, <2>3, StillAgrees DEF EInv
<1>4. CASE Rename
  <2>1. /\ \A d \in Dir \ {dst} : disk'[d] = disk[d]
        /\ UNCHANGED <<toml, conf, sk, dst, offset, pc, ended>> /\ pc = "rename"
        /\ at \in Sk /\ at' = at + 1
        /\ \A i \in Sk : disk'[dst][i] = IF i = at THEN NewId(at) ELSE disk[dst][i]
    BY <1>0, <1>4 DEF Rename, TypeOK
  <2>2. ASSUME NEW i \in Sk, i < at' PROVE disk'[dst][i] = NewId(i)
    <3>1. i = at \/ i < at
      BY <2>1, <2>2 DEF Sk
    <3> QED
      BY <2>1, <3>1 DEF EInv
  <2>3. \A i \in Sk : NewId(i)' = NewId(i)
    BY <2>1 DEF NewId
  <2> QED
    BY <1>0, <2>1, <2>2, <2>3, StillAgrees DEF EInv, FilesAgree
<1>5. CASE SaveIds
  <2>1. /\ \A d \in Dir \ {dst} : sk'[d] = sk[d]
        /\ UNCHANGED <<toml, conf, disk, dst>> /\ pc = "rename" /\ pc' = "idle"
        /\ ended' = ended \cup {dst} /\ at = NumSk + 1
        /\ \A i \in Sk : sk'[dst][i].id = NewId(i)
    BY <1>0, <1>5 DEF SaveIds, TypeOK
  <2>2. \A i \in Sk : i < at
    BY <2>1, NumSkAssumption DEF Sk
  <2>3. FilesAgree(dst)' /\ \A i \in Sk : disk'[dst][i] = sk'[dst][i].id
    BY <2>1, <2>2 DEF EInv, FilesAgree
  <2>4. dst \notin ended
    BY <2>1 DEF EInv
  <2> QED
    BY <1>0, <2>1, <2>3, <2>4, StillAgrees DEF EInv
<1>6. CASE Stop
  BY <1>6 DEF Stop, files, EInv, FilesAgree
<1>7. CASE UNCHANGED vars
  BY <1>7 DEF vars, files, EInv, FilesAgree, NewId
<1> QED
  BY <1>1, <1>2, <1>3, <1>4, <1>5, <1>6, <1>7 DEF Next

\* A clone that ended agrees with itself, even one made of half a clone.
THEOREM EndedIsConsistentHolds == Spec => []EndedIsConsistent
<1>1. Init => EInv
  BY SourceAssumption, NumSkAssumption, BaseAssumption DEF Init, EInv, FilesAgree, Sk
<1>2. IInv /\ EInv /\ [Next]_vars => EInv'
  BY NextEInv
<1>3. EInv => EndedIsConsistent
  BY DEF EInv, FilesAgree, EndedIsConsistent
<1> QED
  BY <1>1, <1>2, <1>3, IInvHolds, PTL DEF Spec

----------------------------------------------------------------------------
\* Ids i + n * a and j + n * b with i and j from 1 to n are different unless a
\* and b are the same.
LEMMA IdsApart ==
  ASSUME NEW n \in Nat, NEW a \in Nat, NEW b \in Nat, a < b,
         NEW i \in 1..n, NEW j \in 1..n
  PROVE  i + n * a < j + n * b
<1>1. PICK c \in Nat : b = a + 1 + c
  <2>1. b - a - 1 \in Nat /\ b = a + 1 + (b - a - 1)
    OBVIOUS
  <2> QED
    BY <2>1
<1>2. n * b = n * a + n * (1 + c) /\ n * a \in Nat
  BY <1>1, Distributes
<1>3. n * (1 + c) = n * 1 + n * c /\ n * c \in Nat /\ n * 1 = n
  BY <1>1, Distributes
<1>4. i <= n /\ j >= 1
  OBVIOUS
<1> QED
  BY <1>2, <1>3, <1>4

\* Clones with different sums share no id and no port of the same server.
THEOREM ClonesApartHolds == Spec => []ClonesAreApart
<1>1. TypeOK /\ CloneIsShifted => ClonesAreApart
  <2> SUFFICES ASSUME TypeOK, CloneIsShifted, NEW d \in whole, NEW e \in whole,
                      total[d] # total[e]
               PROVE  /\ conf[d].id # conf[e].id /\ conf[d].http # conf[e].http
                      /\ conf[d].pg # conf[e].pg /\ conf[d].xact # conf[e].xact
                      /\ \A i \in Sk : sk[d][i].http # sk[e][i].http /\ sk[d][i].pg # sk[e][i].pg
                      /\ \A i, j \in Sk : sk[d][i].id # sk[e][j].id
    BY DEF ClonesAreApart
  <2>1. total[d] \in Nat /\ total[e] \in Nat
    BY DEF TypeOK
  <2>2. Shifted(d) /\ Shifted(e)
    BY DEF CloneIsShifted
  <2>3. /\ conf[d].id # conf[e].id /\ conf[d].http # conf[e].http
        /\ conf[d].pg # conf[e].pg /\ conf[d].xact # conf[e].xact
    <3>1. \A x \in {d, e} : /\ conf[x].id = BaseId + total[x] /\ conf[x].http = BaseHttp + total[x]
                            /\ conf[x].pg = BasePg + total[x] /\ conf[x].xact = BaseXact + total[x]
      BY <2>2 DEF Shifted
    <3> QED
      BY <2>1, <3>1, BaseAssumption
  <2>4. ASSUME NEW i \in Sk
        PROVE  sk[d][i].http # sk[e][i].http /\ sk[d][i].pg # sk[e][i].pg
    <3>1. \A x \in {d, e} : /\ sk[x][i].http = BaseSkHttp[i] + total[x]
                            /\ sk[x][i].pg = BaseSkPg[i] + total[x]
      BY <2>2 DEF Shifted
    <3>2. BaseSkHttp[i] \in Nat /\ BaseSkPg[i] \in Nat
      BY BaseAssumption
    <3> QED
      BY <2>1, <3>1, <3>2
  <2>5. ASSUME NEW i \in Sk, NEW j \in Sk PROVE sk[d][i].id # sk[e][j].id
    <3>1. sk[d][i].id = i + NumSk * total[d] /\ sk[e][j].id = j + NumSk * total[e]
      BY <2>2 DEF Shifted
    <3>2. i + NumSk * total[d] \in Nat /\ j + NumSk * total[e] \in Nat
      BY <2>1, NumSkAssumption, Distributes DEF Sk
    <3>3. \/ i + NumSk * total[d] < j + NumSk * total[e]
          \/ j + NumSk * total[e] < i + NumSk * total[d]
      <4>1. CASE total[d] < total[e]
        BY <4>1, <2>1, IdsApart, NumSkAssumption DEF Sk
      <4>2. CASE total[e] < total[d]
        BY <4>2, <2>1, IdsApart, NumSkAssumption DEF Sk
      <4> QED
        BY <2>1, <4>1, <4>2
    <3> QED
      BY <3>1, <3>2, <3>3
  <2> QED
    BY <2>3, <2>4, <2>5
<1> QED
  BY <1>1, TypesHold, ClonesAreShifted, PTL
=============================================================================
