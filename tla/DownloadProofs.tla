--------------------------- MODULE DownloadProofs ---------------------------
(***************************************************************************)
(* Proofs about Download: its types for any processes and files, and that  *)
(* a process that is alone leaves only whole files under their final name, *)
(* refuses none without a cause and keeps its blocks until then.           *)
(***************************************************************************)
EXTENDS Download, TLAPS

-----------------------------------------------------------------------------
(* Types. *)

(* A block of a record is a block of a version. *)
LEMMA JobLemma ==
    ASSUME TypeOK, NEW p \in Processes, step[p] # "idle"
    PROVE  /\ job[p].version \in Versions /\ Digest(p) \in Digests
           /\ file[p] \in Files
           /\ Count(p) \in Nat \ {0} /\ idx[p] \in 1..Count(p)
           /\ idx[p] \in Positions /\ 1 \in Positions
           /\ <<job[p].from[idx[p]], idx[p]>> \in Blocks
           /\ Block(Digest(p), idx[p]) \in Names
           /\ BlockTmp(Digest(p), idx[p]) \in Names
           /\ Tmp(file[p]) \in Names /\ Target(file[p]) \in Names
<1>1. job[p] \in Record /\ file[p] \in Files /\ idx[p] \in 1..Count(p)
  BY RecordsAssumption DEF TypeOK
<1>2. job[p].version \in Versions /\ job[p].from \in UNION {[1..n -> Versions] : n \in Positions}
      /\ DOMAIN job[p].from = 1..Count(p)
  BY <1>1 DEF Record, Count
<1>3. Count(p) \in Nat \ {0}
  BY <1>2, CountAssumption DEF Count
<1>4. idx[p] \in Positions /\ 1 \in Positions
  BY <1>1, <1>2, <1>3 DEF Positions, Count
<1>5. job[p].from[idx[p]] \in Versions
  <2>1. PICK n \in Positions : job[p].from \in [1..n -> Versions]
    BY <1>2
  <2>2. idx[p] \in 1..n
    BY <1>1, <1>2, <2>1
  <2> QED BY <2>1, <2>2
<1>6. Digest(p) \in Digests
  BY <1>2 DEF Digest, Digests
<1> QED BY <1>1, <1>2, <1>3, <1>4, <1>5, <1>6 DEF Blocks, Names, BlockNames

LEMMA InitTypes == Init => TypeOK
<1> SUFFICES ASSUME Init PROVE TypeOK
  OBVIOUS
<1> QED BY DEF Init, TypeOK, Steps

(* Putting a content under a name keeps the type of the disk. *)
DiskOK(d) ==
    /\ DOMAIN d = Names
    /\ \A n \in Names : d[n] = Absent \/ d[n] \in [Positions -> Blocks]

LEMMA EmptyTyped == Empty \in [Positions -> Blocks]
BY DEF Empty, Blocks, Hole

(* Advancing keeps a process on a block of its file. *)
LEMMA AdvanceLemma ==
    ASSUME TypeOK, NEW p \in Processes, step[p] # "idle",
           NEW next \in Steps \ {"idle"}, NEW last \in Steps \ {"idle"}, Advance(p, next, last),
           UNCHANGED <<job, file>>
    PROVE  /\ step' \in [Processes -> Steps] /\ idx' \in [Processes -> Positions \cup {0}]
           /\ \A q \in Processes :
                IF step'[q] = "idle" THEN job'[q] = NoJob
                ELSE job'[q] \in Records /\ file'[q] \in Files /\ idx'[q] \in 1..Count(q)'
<1>1. Count(p) \in Nat \ {0} /\ idx[p] \in 1..Count(p) /\ job[p] \in Records /\ file[p] \in Files
  BY JobLemma DEF TypeOK
<1>2. step' = [step EXCEPT ![p] = IF idx[p] < Count(p) THEN next ELSE last]
  BY DEF Advance, Goto
<1>3. ASSUME NEW q \in Processes PROVE Count(q)' = Count(q)
  BY DEF Count
<1>4. idx' = [idx EXCEPT ![p] = IF idx[p] < Count(p) THEN idx[p] + 1 ELSE 1]
  BY DEF Advance
<1>5. step' \in [Processes -> Steps] /\ step'[p] # "idle"
  BY <1>2 DEF TypeOK
<1>6. idx'[p] \in 1..Count(p)
  BY <1>1, <1>4 DEF TypeOK
<1>7. 1..Count(p) \subseteq Positions
  BY JobLemma DEF Count, Positions
<1>8. idx' \in [Processes -> Positions \cup {0}]
  BY <1>4, <1>6, <1>7 DEF TypeOK
<1>9. ASSUME NEW q \in Processes, q # p PROVE step'[q] = step[q] /\ idx'[q] = idx[q]
  BY <1>2, <1>4, <1>9 DEF TypeOK
<1> QED BY <1>1, <1>3, <1>5, <1>6, <1>8, <1>9 DEF TypeOK

(* Going to another place keeps a process on a block of its file. *)
LEMMA GotoLemma ==
    ASSUME TypeOK, NEW p \in Processes, step[p] # "idle",
           NEW s \in Steps \ {"idle"}, Goto(p, s), UNCHANGED <<job, file, idx>>
    PROVE  /\ step' \in [Processes -> Steps]
           /\ \A q \in Processes :
                IF step'[q] = "idle" THEN job'[q] = NoJob
                ELSE job'[q] \in Records /\ file'[q] \in Files /\ idx'[q] \in 1..Count(q)'
<1>1. step' = [step EXCEPT ![p] = s]
  BY DEF Goto
<1>2. ASSUME NEW q \in Processes PROVE Count(q)' = Count(q)
  BY DEF Count
<1> QED BY <1>1, <1>2 DEF TypeOK

LEMMA OpenLemma ==
    ASSUME TypeOK, NEW p \in Processes, NEW n \in Names, Open(p, n)
    PROVE  DiskOK(disk') /\ handle' \in [Processes -> Names \cup {Nowhere}]
BY EmptyTyped DEF Open, TypeOK, DiskOK

LEMMA WriteLemma ==
    ASSUME TypeOK, NEW p \in Processes, NEW i \in Positions, NEW data \in Blocks, NEW wanted,
           NEW place \in Digests \cup Files, Write(p, i, data, wanted, place)
    PROVE  DiskOK(disk') /\ spoiled' \subseteq Digests \cup Files
<1>1. PICK d \in {data} \cup (IF ShortWrites THEN {Hole} ELSE {}) :
        /\ IF handle[p] = Nowhere THEN UNCHANGED disk
           ELSE disk' = [disk EXCEPT ![handle[p]] = [@ EXCEPT ![i] = d]]
        /\ spoiled' = IF d = wanted /\ handle[p] # Nowhere THEN spoiled ELSE spoiled \cup {place}
  BY DEF Write
<1>2. d \in Blocks
  BY <1>1 DEF Blocks
<1>3. spoiled' \subseteq Digests \cup Files
  BY <1>1 DEF TypeOK
<1>4. CASE handle[p] = Nowhere
  BY <1>1, <1>3, <1>4 DEF TypeOK, DiskOK
<1>5. CASE handle[p] # Nowhere
  <2>1. handle[p] \in Names
    BY <1>5 DEF TypeOK
  <2>2. ASSUME NEW c, c = Absent \/ c \in [Positions -> Blocks]
        PROVE  [c EXCEPT ![i] = d] = Absent \/ [c EXCEPT ![i] = d] \in [Positions -> Blocks]
    <3>1. CASE c = Absent
      BY <3>1 DEF Absent
    <3>2. CASE c \in [Positions -> Blocks]
      BY <3>2, <1>2
    <3> QED BY <2>2, <3>1, <3>2
  <2>3. DOMAIN disk' = Names
    BY <1>1, <1>5 DEF TypeOK
  <2>4. \A n \in Names : disk'[n] = IF n = handle[p] THEN [disk[n] EXCEPT ![i] = d] ELSE disk[n]
    BY <1>1, <1>5, <2>1 DEF TypeOK
  <2> QED BY <1>3, <2>2, <2>3, <2>4 DEF TypeOK, DiskOK
<1> QED BY <1>4, <1>5

LEMMA RenameLemma ==
    ASSUME TypeOK, NEW p \in Processes, NEW n \in Names, NEW new \in Names, Rename(p, n, new)
    PROVE  DiskOK(disk') /\ handle' \in [Processes -> Names \cup {Nowhere}]
<1>1. DiskOK(disk')
  BY DEF Rename, TypeOK, DiskOK
<1>2. handle' \in [Processes -> Names \cup {Nowhere}]
  BY DEF Rename, TypeOK
<1> QED BY <1>1, <1>2

LEMMA RemoveLemma ==
    ASSUME TypeOK, NEW n \in Names, Remove(n)
    PROVE  DiskOK(disk') /\ handle' \in [Processes -> Names \cup {Nowhere}]
BY DEF Remove, TypeOK, DiskOK

(* A process that ends leaves the others as they are. *)
LEMMA IdleLemma ==
    ASSUME TypeOK, NEW p \in Processes, Idle(p), UNCHANGED <<record, disk>>,
           dirs' \subseteq Digests, spoiled' \subseteq Digests \cup Files
    PROVE  TypeOK'
<1>1. ASSUME NEW q \in Processes, q # p
      PROVE  /\ step'[q] = step[q] /\ job'[q] = job[q] /\ file'[q] = file[q] /\ idx'[q] = idx[q]
             /\ Count(q)' = Count(q)
  BY <1>1 DEF Idle, Goto, TypeOK, Count
<1>2. step'[p] = "idle" /\ job'[p] = NoJob
  BY DEF Idle, Goto, TypeOK
<1>3. /\ step' \in [Processes -> Steps] /\ file' \in [Processes -> Files \cup {NoFile}]
      /\ job' \in [Processes -> Records \cup {NoJob}] /\ idx' \in [Processes -> Positions \cup {0}]
      /\ handle' \in [Processes -> Names \cup {Nowhere}]
  BY DEF Idle, Goto, TypeOK, Steps
<1> QED BY <1>1, <1>2, <1>3 DEF TypeOK

LEMMA TypeStep == TypeOK /\ [Next]_vars => TypeOK'
<1> SUFFICES ASSUME TypeOK, [Next]_vars PROVE TypeOK'
  OBVIOUS
<1>1. ASSUME NEW p \in Processes, NEW f \in Files, DownloadFile(p, f) PROVE TypeOK'
  <2>1. record[f] \in Records /\ record[f].version \in Versions /\ 1 \in 1..BlockCount[record[f].version]
    BY RecordsAssumption, CountAssumption DEF TypeOK, Record
  <2>2. 1 \in Positions
    BY <2>1 DEF Positions
  <2>3. step' = [step EXCEPT ![p] = "prepare"] /\ job'[p] = record[f] /\ idx'[p] = 1 /\ file'[p] = f
    BY <1>1 DEF DownloadFile, Goto, TypeOK
  <2>4. 1 \in 1..Count(p)'
    BY <2>1, <2>3 DEF Count
  <2>5. ASSUME NEW q \in Processes, q # p
        PROVE  /\ step'[q] = step[q] /\ job'[q] = job[q] /\ file'[q] = file[q] /\ idx'[q] = idx[q]
               /\ Count(q)' = Count(q)
    BY <1>1, <2>5 DEF DownloadFile, Goto, TypeOK, Count
  <2>6. /\ step' \in [Processes -> Steps] /\ file' \in [Processes -> Files \cup {NoFile}]
        /\ job' \in [Processes -> Records \cup {NoJob}] /\ idx' \in [Processes -> Positions \cup {0}]
    BY <1>1, <2>1, <2>2, <2>3 DEF DownloadFile, TypeOK, Steps
  <2> QED BY <1>1, <2>1, <2>3, <2>4, <2>5, <2>6 DEF DownloadFile, TypeOK
<1>2. ASSUME NEW p \in Processes, Prepare(p) PROVE TypeOK'
  <2>1. Tmp(file[p]) \in Names /\ Digest(p) \in Digests
    BY <1>2, JobLemma DEF Prepare
  <2>2. DiskOK(disk') /\ handle' \in [Processes -> Names \cup {Nowhere}]
    BY <1>2, <2>1, RemoveLemma DEF Prepare
  <2> QED BY <1>2, <2>1, <2>2, GotoLemma DEF Prepare, TypeOK, DiskOK, Steps
<1>3. ASSUME NEW p \in Processes, SkipBlock(p) PROVE TypeOK'
  BY <1>3, AdvanceLemma DEF SkipBlock, TypeOK, Steps
<1>4. ASSUME NEW p \in Processes, FetchBlock(p) PROVE TypeOK'
  <2>1. BlockTmp(Digest(p), idx[p]) \in Names
    BY <1>4, JobLemma DEF FetchBlock
  <2>2. DiskOK(disk') /\ handle' \in [Processes -> Names \cup {Nowhere}]
    BY <1>4, <2>1, OpenLemma DEF FetchBlock
  <2> QED BY <1>4, <2>2, GotoLemma DEF FetchBlock, TypeOK, DiskOK, Steps
<1>5. ASSUME NEW p \in Processes, WriteBlock(p) PROVE TypeOK'
  <2>1. 1 \in Positions /\ <<job[p].from[idx[p]], idx[p]>> \in Blocks /\ Digest(p) \in Digests
    BY <1>5, JobLemma DEF WriteBlock
  <2>2. DiskOK(disk') /\ spoiled' \subseteq Digests \cup Files
    BY <1>5, <2>1, WriteLemma DEF WriteBlock
  <2> QED BY <1>5, <2>2, GotoLemma DEF WriteBlock, TypeOK, DiskOK, Steps
<1>6. ASSUME NEW p \in Processes, RenameBlock(p) PROVE TypeOK'
  <2>1. BlockTmp(Digest(p), idx[p]) \in Names /\ Block(Digest(p), idx[p]) \in Names
    BY <1>6, JobLemma DEF RenameBlock
  <2>2. DiskOK(disk') /\ handle' \in [Processes -> Names \cup {Nowhere}]
    BY <1>6, <2>1, RenameLemma DEF RenameBlock
  <2> QED BY <1>6, <2>2, AdvanceLemma DEF RenameBlock, TypeOK, DiskOK, Steps
<1>7. ASSUME NEW p \in Processes, OpenOutput(p) PROVE TypeOK'
  <2>1. Tmp(file[p]) \in Names
    BY <1>7, JobLemma DEF OpenOutput
  <2>2. DiskOK(disk') /\ handle' \in [Processes -> Names \cup {Nowhere}]
    BY <1>7, <2>1, OpenLemma DEF OpenOutput
  <2> QED BY <1>7, <2>2, GotoLemma DEF OpenOutput, TypeOK, DiskOK, Steps
<1>8. ASSUME NEW p \in Processes, CopyBlock(p) PROVE TypeOK'
  <2> DEFINE data == disk[Block(Digest(p), idx[p])][1]
  <2>1. idx[p] \in Positions /\ 1 \in Positions /\ Block(Digest(p), idx[p]) \in Names /\ file[p] \in Files
    BY <1>8, JobLemma DEF CopyBlock
  <2>2. data \in Blocks
    BY <1>8, <2>1 DEF CopyBlock, Exists, TypeOK
  <2>3. Write(p, idx[p], data, data, file[p])
    BY <1>8 DEF CopyBlock
  <2> HIDE DEF data
  <2>4. DiskOK(disk') /\ spoiled' \subseteq Digests \cup Files
    BY <2>1, <2>2, <2>3, WriteLemma
  <2> QED BY <1>8, <2>4, AdvanceLemma DEF CopyBlock, TypeOK, DiskOK, Steps
<1>9. ASSUME NEW p \in Processes, Verify(p) PROVE TypeOK'
  BY <1>9, GotoLemma DEF Verify, TypeOK, Steps
<1>10. ASSUME NEW p \in Processes, Save(p) PROVE TypeOK'
  <2>1. Tmp(file[p]) \in Names /\ Target(file[p]) \in Names
    BY <1>10, JobLemma DEF Save
  <2>2. DiskOK(disk') /\ handle' \in [Processes -> Names \cup {Nowhere}]
    BY <1>10, <2>1, RenameLemma DEF Save
  <2> QED BY <1>10, <2>2, GotoLemma DEF Save, TypeOK, DiskOK, Steps
<1>11. ASSUME NEW p \in Processes, SweepBlock(p) PROVE TypeOK'
  <2>1. DiskOK(disk') /\ handle' \in [Processes -> Names \cup {Nowhere}]
    BY <1>11, RemoveLemma DEF SweepBlock, InDir
  <2>2. \A q \in Processes : Count(q)' = Count(q)
    BY <1>11 DEF SweepBlock, Count
  <2> QED BY <1>11, <2>1, <2>2 DEF SweepBlock, TypeOK, DiskOK
<1>12. ASSUME NEW p \in Processes, Return(p) PROVE TypeOK'
  BY <1>12, IdleLemma DEF Return, TypeOK
<1>13. ASSUME NEW p \in Processes, Abort(p) PROVE TypeOK'
  BY <1>13, IdleLemma DEF Abort, TypeOK
<1>14. ASSUME NEW f \in Files, Reindex(f) PROVE TypeOK'
  <2>1. \A q \in Processes : Count(q)' = Count(q)
    BY <1>14 DEF Reindex, Count, local
  <2> QED BY <1>14, <2>1 DEF Reindex, TypeOK, local
<1>15. ASSUME NEW f \in Files, TakeAway(f) PROVE TypeOK'
  <2>1. DiskOK(disk') /\ handle' \in [Processes -> Names \cup {Nowhere}]
    BY <1>15, RemoveLemma DEF TakeAway, Names
  <2>2. \A q \in Processes : Count(q)' = Count(q)
    BY <1>15 DEF TakeAway, Count
  <2> QED BY <1>15, <2>1, <2>2 DEF TakeAway, TypeOK, DiskOK
<1>16. CASE UNCHANGED vars
  <2>1. \A q \in Processes : Count(q)' = Count(q)
    BY <1>16 DEF vars, local, Count
  <2> QED BY <1>16, <2>1 DEF vars, local, TypeOK
<1> QED BY <1>1, <1>2, <1>3, <1>4, <1>5, <1>6, <1>7, <1>8, <1>9, <1>10, <1>11, <1>12, <1>13,
           <1>14, <1>15, <1>16 DEF Next

(* Disk, directories and the places of the processes have their types in    *)
(* every reachable state, for any number of processes and files: each       *)
(* process is on a block that its record has.                               *)
THEOREM TypeCorrect == Spec => []TypeOK
BY InitTypes, TypeStep, PTL DEF Spec

-----------------------------------------------------------------------------
(* A process that is alone. *)

Alone == \A p, q \in Processes : p = q

(* Nobody writes under a final name, and what is about to be renamed is     *)
(* still what was compared.                                                 *)
SavedInv ==
    /\ \A p \in Processes, f \in Files : handle[p] # Target(f)
    /\ \A p \in Processes : step[p] = "save" => \E v \in Versions : disk[Tmp(file[p])] = Whole(v)
    /\ SavedIsWhole

LEMMA NamesDiffer ==
    ASSUME NEW f \in Files, NEW m, NEW s, NEW g
    PROVE  /\ Target(f) # Block(m, s) /\ Target(f) # BlockTmp(m, s) /\ Target(f) # Tmp(g)
           /\ Target(f) # Nowhere /\ Target(f) \in Names
BY DEF Names, Target, Block, BlockTmp, Tmp, Nowhere

(* A step that touches no final name, nor leads to one, is harmless. *)
LEMMA HarmlessLemma ==
    ASSUME SavedInv,
           \A f \in Files : disk'[Target(f)] \in {disk[Target(f)], Absent},
           \A p \in Processes, f \in Files : handle'[p] # Target(f),
           \A p \in Processes : step'[p] # "save"
    PROVE  SavedInv'
BY DEF SavedInv, SavedIsWhole, Exists

LEMMA SavedStep == Alone /\ TypeOK /\ SavedInv /\ [Next]_vars => SavedInv'
<1> SUFFICES ASSUME Alone, TypeOK, SavedInv, [Next]_vars PROVE SavedInv'
  OBVIOUS
<1>1. ASSUME NEW p \in Processes, NEW f \in Files, DownloadFile(p, f) PROVE SavedInv'
  <2>1. \A q \in Processes : step'[q] # "save"
    BY <1>1 DEF DownloadFile, Goto, TypeOK, Alone
  <2> QED BY <1>1, <2>1, HarmlessLemma DEF DownloadFile, SavedInv
<1>2. ASSUME NEW p \in Processes, Prepare(p) PROVE SavedInv'
  <2>1. \A q \in Processes : step'[q] # "save"
    BY <1>2 DEF Prepare, Goto, TypeOK, Alone
  <2>2. \A f \in Files : disk'[Target(f)] = disk[Target(f)]
    BY <1>2, NamesDiffer DEF Prepare, Remove, TypeOK
  <2>3. \A q \in Processes, f \in Files : handle'[q] # Target(f)
    BY <1>2, NamesDiffer DEF Prepare, Remove, SavedInv
  <2> QED BY <2>1, <2>2, <2>3, HarmlessLemma
<1>3. ASSUME NEW p \in Processes, SkipBlock(p) PROVE SavedInv'
  <2>1. \A q \in Processes : step'[q] # "save"
    BY <1>3 DEF SkipBlock, Advance, Goto, TypeOK, Alone
  <2> QED BY <1>3, <2>1, HarmlessLemma DEF SkipBlock, SavedInv
<1>4. ASSUME NEW p \in Processes, FetchBlock(p) PROVE SavedInv'
  <2>1. \A q \in Processes : step'[q] # "save"
    BY <1>4 DEF FetchBlock, Goto, TypeOK, Alone
  <2>2. \A f \in Files : disk'[Target(f)] = disk[Target(f)]
    BY <1>4, NamesDiffer DEF FetchBlock, Open, TypeOK
  <2>3. \A q \in Processes, f \in Files : handle'[q] # Target(f)
    BY <1>4, NamesDiffer DEF FetchBlock, Open, SavedInv, TypeOK
  <2> QED BY <2>1, <2>2, <2>3, HarmlessLemma
<1>5. ASSUME NEW p \in Processes, WriteBlock(p) PROVE SavedInv'
  <2>1. \A q \in Processes : step'[q] # "save"
    BY <1>5 DEF WriteBlock, Goto, TypeOK, Alone
  <2>2. \A f \in Files : disk'[Target(f)] = disk[Target(f)]
    BY <1>5, NamesDiffer DEF WriteBlock, Write, SavedInv, TypeOK
  <2> QED BY <1>5, <2>1, <2>2, HarmlessLemma DEF WriteBlock, SavedInv
<1>6. ASSUME NEW p \in Processes, RenameBlock(p) PROVE SavedInv'
  <2>1. \A q \in Processes : step'[q] # "save"
    BY <1>6 DEF RenameBlock, Advance, Goto, TypeOK, Alone
  <2>2. \A f \in Files : disk'[Target(f)] = disk[Target(f)]
    BY <1>6, NamesDiffer DEF RenameBlock, Rename, TypeOK
  <2>3. \A q \in Processes, f \in Files : handle'[q] # Target(f)
    BY <1>6, NamesDiffer DEF RenameBlock, Rename, Alone
  <2> QED BY <2>1, <2>2, <2>3, HarmlessLemma
<1>7. ASSUME NEW p \in Processes, OpenOutput(p) PROVE SavedInv'
  <2>1. \A q \in Processes : step'[q] # "save"
    BY <1>7 DEF OpenOutput, Goto, TypeOK, Alone
  <2>2. \A f \in Files : disk'[Target(f)] = disk[Target(f)]
    BY <1>7, NamesDiffer DEF OpenOutput, Open, TypeOK
  <2>3. \A q \in Processes, f \in Files : handle'[q] # Target(f)
    BY <1>7, NamesDiffer DEF OpenOutput, Open, SavedInv, TypeOK
  <2> QED BY <2>1, <2>2, <2>3, HarmlessLemma
<1>8. ASSUME NEW p \in Processes, CopyBlock(p) PROVE SavedInv'
  <2>1. \A q \in Processes : step'[q] # "save"
    BY <1>8 DEF CopyBlock, Advance, Goto, TypeOK, Alone
  <2>2. \A f \in Files : disk'[Target(f)] = disk[Target(f)]
    BY <1>8, NamesDiffer DEF CopyBlock, Write, SavedInv, TypeOK
  <2> QED BY <1>8, <2>1, <2>2, HarmlessLemma DEF CopyBlock, SavedInv
<1>9. ASSUME NEW p \in Processes, Verify(p) PROVE SavedInv'
  <2>1. \A q \in Processes : step'[q] = "save" => \E v \in Versions : disk[Tmp(file[q])] = Whole(v)
    BY <1>9 DEF Verify, Goto, Md5Matches, TypeOK, Alone
  <2>2. \A q \in Processes, f \in Files : handle'[q] # Target(f)
    BY <1>9, NamesDiffer DEF Verify, SavedInv, TypeOK
  <2> QED BY <1>9, <2>1, <2>2 DEF Verify, SavedInv, SavedIsWhole, Exists
<1>10. ASSUME NEW p \in Processes, Save(p) PROVE SavedInv'
  <2>1. \A q \in Processes : step'[q] # "save"
    BY <1>10 DEF Save, Goto, TypeOK, Alone
  <2>2. \A f \in Files : disk'[Target(f)] = IF Target(f) = Target(file[p]) THEN disk[Tmp(file[p])]
                                            ELSE disk[Target(f)]
    <3>1. ASSUME NEW f \in Files PROVE Target(f) \in Names /\ Target(f) # Tmp(file[p])
      BY NamesDiffer DEF Names
    <3> QED BY <1>10, <3>1 DEF Save, Rename, TypeOK
  <2>3. \E v \in Versions : disk[Tmp(file[p])] = Whole(v)
    BY <1>10 DEF Save, SavedInv
  <2>4. \A q \in Processes, f \in Files : handle'[q] # Target(f)
    BY <1>10, NamesDiffer DEF Save, Rename, Alone
  <2> QED BY <2>1, <2>2, <2>3, <2>4 DEF SavedInv, SavedIsWhole, Exists
<1>11. ASSUME NEW p \in Processes, SweepBlock(p) PROVE SavedInv'
  <2>1. \A q \in Processes : step'[q] # "save"
    BY <1>11 DEF SweepBlock, Alone
  <2>2. \A f \in Files : disk'[Target(f)] \in {disk[Target(f)], Absent}
    BY <1>11 DEF SweepBlock, InDir, Remove, TypeOK
  <2>3. \A q \in Processes, f \in Files : handle'[q] # Target(f)
    BY <1>11, NamesDiffer DEF SweepBlock, Remove, SavedInv
  <2> QED BY <2>1, <2>2, <2>3, HarmlessLemma
<1>12. ASSUME NEW p \in Processes, Idle(p), UNCHANGED disk PROVE SavedInv'
  <2>1. \A q \in Processes : step'[q] # "save"
    BY <1>12 DEF Idle, Goto, TypeOK, Alone
  <2>2. \A q \in Processes, f \in Files : handle'[q] # Target(f)
    BY <1>12, NamesDiffer DEF Idle, SavedInv, TypeOK
  <2> QED BY <1>12, <2>1, <2>2, HarmlessLemma
<1>13. ASSUME NEW f \in Files, Reindex(f) PROVE SavedInv'
  BY <1>13 DEF Reindex, local, SavedInv, SavedIsWhole, Exists
<1>14. ASSUME NEW f \in Files, TakeAway(f) PROVE SavedInv'
  <2>1. \A g \in Files : disk'[Target(g)] \in {disk[Target(g)], Absent}
    BY <1>14 DEF TakeAway, Remove, TypeOK
  <2>2. \A q \in Processes, g \in Files : handle'[q] # Target(g)
    BY <1>14, NamesDiffer DEF TakeAway, Remove, SavedInv
  <2>3. ASSUME NEW q \in Processes, step[q] = "save"
        PROVE  disk'[Tmp(file[q])] = disk[Tmp(file[q])]
    <3>1. Tmp(file[q]) \in Names
      BY <2>3, JobLemma
    <3> QED BY <1>14, <3>1, NamesDiffer DEF TakeAway, Remove, TypeOK
  <2> QED BY <1>14, <2>1, <2>2, <2>3 DEF TakeAway, SavedInv, SavedIsWhole, Exists
<1>15. CASE UNCHANGED vars
  BY <1>15 DEF vars, local, SavedInv, SavedIsWhole, Exists
<1> QED BY <1>1, <1>2, <1>3, <1>4, <1>5, <1>6, <1>7, <1>8, <1>9, <1>10, <1>11, <1>12, <1>13,
           <1>14, <1>15 DEF Next, Return, Abort

(* Whatever crashes, full disks, leftover blocks and mixed indexes do, a    *)
(* process that is the only one leaves nothing but whole files under their  *)
(* final names, for any files, versions and digests.                        *)
THEOREM SavedIsWholeHolds == Spec => [](Alone => SavedIsWhole)
<1>1. Init => SavedInv
  BY NamesDiffer DEF Init, SavedInv, SavedIsWhole, Exists, Names
<1>2. SavedInv => SavedIsWhole
  BY DEF SavedInv
<1>3. TypeOK /\ (Alone => SavedInv) /\ [Next]_vars => (Alone => SavedInv)'
  BY SavedStep DEF Alone
<1> QED BY <1>1, <1>2, <1>3, TypeCorrect, PTL DEF Spec

-----------------------------------------------------------------------------
(* Why a process that is alone refuses a file, and what it may throw away.  *)

(* A block file of a directory that nothing spoiled has its own block of a  *)
(* version.                                                                 *)
BlocksFit ==
    \A m \in Digests, s \in Positions : Exists(Block(m, s)) /\ m \notin spoiled =>
        \E v \in Versions : disk[Block(m, s)][1] = <<v, s>>

(* How far p has copied, and what it has copied. *)
Copied(p) == IF step[p] = "copy" THEN idx[p] - 1 ELSE Count(p)

Output(p) ==
    /\ handle[p] = Tmp(file[p]) /\ Exists(Tmp(file[p]))
    /\ \A i \in 1..Copied(p) : Exists(Block(Digest(p), i))
    /\ file[p] \in spoiled \/ \A i \in Positions :
         disk[Tmp(file[p])][i] = IF i <= Copied(p) THEN disk[Block(Digest(p), i)][1] ELSE Hole

Matches(p, n) == \E v \in Versions : Md5[v] = Digest(p) /\ disk[n] = Whole(v)

PlaceInv(p) ==
    /\ step[p] = "write" =>
         handle[p] = BlockTmp(Digest(p), idx[p]) /\ Exists(BlockTmp(Digest(p), idx[p]))
    /\ step[p] = "rename" =>
         Digest(p) \in spoiled \/ disk[BlockTmp(Digest(p), idx[p])][1] = <<job[p].version, idx[p]>>
    /\ step[p] = "open" => idx[p] = 1
    /\ step[p] \in {"copy", "verify"} => Output(p)
    /\ step[p] = "mismatch" =>
         Digest(p) \in spoiled \/ file[p] \in spoiled \/ HasTwin(job[p].version)
    /\ step[p] = "save" => Matches(p, Tmp(file[p]))
    /\ step[p] = "sweep" => Matches(p, Target(file[p]))

CauseInv == BlocksFit /\ \A p \in Processes : PlaceInv(p)

LEMMA BlockNamesDiffer ==
    ASSUME NEW m, NEW s, NEW m2, NEW s2, NEW f
    PROVE  /\ Block(m, s) = Block(m2, s2) <=> m = m2 /\ s = s2
           /\ Block(m, s) # BlockTmp(m2, s2) /\ Block(m, s) # Tmp(f) /\ Block(m, s) # Target(f)
           /\ BlockTmp(m, s) # Tmp(f) /\ BlockTmp(m, s) # Target(f) /\ Tmp(f) # Target(m)
           /\ m \in Digests /\ s \in Positions => Block(m, s) \in Names /\ Block(m, s) \in BlockNames
  BY DEF Block, BlockTmp, Tmp, Target, Names, BlockNames

(* A step that leaves the block files alone, or removes some. *)
LEMMA BlocksFrame ==
    ASSUME BlocksFit, \A m \in Digests : m \notin spoiled' => m \notin spoiled,
           \A m \in Digests, s \in Positions : disk'[Block(m, s)] \in {disk[Block(m, s)], Absent}
    PROVE  BlocksFit'
  BY DEF BlocksFit, Exists

LEMMA TargetsDiffer ==
    ASSUME NEW f, NEW g, f # g
    PROVE  Target(f) # Target(g) /\ Tmp(f) # Tmp(g)
  BY DEF Target, Tmp

LEMMA CauseInit == Init => CauseInv
  BY BlockNamesDiffer DEF Init, CauseInv, BlocksFit, PlaceInv, Exists

(* A step of the only process, to a place where nothing is claimed. *)
LEMMA QuietPlace ==
    ASSUME Alone, TypeOK, CauseInv, NEW p \in Processes,
           step'[p] \in {"idle", "prepare", "block"} \/ (step'[p] = "open" /\ idx'[p] = 1),
           BlocksFit'
    PROVE  CauseInv'
<1>1. PlaceInv(p)'
  BY DEF PlaceInv
<1> QED BY <1>1 DEF CauseInv, Alone

(* Only what is written under the name of a block file touches one. *)
LEMMA BlocksUntouched ==
    ASSUME TypeOK, NEW n, NEW x, disk' = [disk EXCEPT ![n] = x], n[1] # "block"
    PROVE  \A m \in Digests, s \in Positions : disk'[Block(m, s)] = disk[Block(m, s)]
<1> TAKE m \in Digests, s \in Positions
<1>1. Block(m, s) \in Names
  BY DEF Names, BlockNames
<1>2. Block(m, s) # n
  BY DEF Block
<1> QED BY <1>1, <1>2 DEF TypeOK

LEMMA FetchCause ==
    ASSUME Alone, TypeOK, CauseInv, NEW p \in Processes, FetchBlock(p)
    PROVE  CauseInv'
<1> DEFINE n == BlockTmp(Digest(p), idx[p])
<1>1. /\ step[p] = "block" /\ disk' = [disk EXCEPT ![n] = Empty]
      /\ handle' = [handle EXCEPT ![p] = n] /\ step' = [step EXCEPT ![p] = "write"]
      /\ UNCHANGED <<spoiled, file, job, idx>>
  BY DEF FetchBlock, Open, Goto
<1>2. n \in Names /\ 1 \in Positions
  BY <1>1, JobLemma
<1>3. step'[p] = "write" /\ handle'[p] = n /\ disk'[n] = Empty
  BY <1>1, <1>2 DEF TypeOK
<1>4. Empty # Absent
  BY <1>2 DEF Empty, Absent
<1>5. \A m \in Digests, s \in Positions : disk'[Block(m, s)] = disk[Block(m, s)]
  BY <1>1, BlocksUntouched DEF BlockTmp, Tmp
<1>6. BlocksFit'
  BY <1>1, <1>5, BlocksFrame DEF CauseInv
<1>7. PlaceInv(p)'
  BY <1>1, <1>3, <1>4 DEF PlaceInv, Digest, Exists
<1> QED BY <1>6, <1>7 DEF CauseInv, Alone

LEMMA WriteBlockCause ==
    ASSUME Alone, TypeOK, CauseInv, NEW p \in Processes, WriteBlock(p)
    PROVE  CauseInv'
<1> DEFINE n == BlockTmp(Digest(p), idx[p])
           good == <<job[p].version, idx[p]>>
<1>1. /\ step[p] = "write" /\ step' = [step EXCEPT ![p] = "rename"]
      /\ Write(p, 1, <<job[p].from[idx[p]], idx[p]>>, good, Digest(p))
      /\ UNCHANGED <<file, job, idx, handle>>
  BY DEF WriteBlock, Goto
<1>2. n \in Names /\ 1 \in Positions /\ Digest(p) \in Digests
  BY <1>1, JobLemma
<1>3. handle[p] = n /\ disk[n] # Absent
  BY <1>1 DEF CauseInv, PlaceInv, Exists
<1>4. n # Nowhere
  BY DEF BlockTmp, Nowhere
<1> PICK d : /\ disk' = [disk EXCEPT ![n][1] = d]
             /\ spoiled' = IF d = good THEN spoiled ELSE spoiled \cup {Digest(p)}
  BY <1>1, <1>3, <1>4 DEF Write
<1>5. disk[n] \in [Positions -> Blocks]
  BY <1>2, <1>3 DEF TypeOK
<1>6. disk'[n][1] = d
  BY <1>2, <1>5 DEF TypeOK
<1>7. \A m \in Digests, s \in Positions : disk'[Block(m, s)] = disk[Block(m, s)]
  BY BlocksUntouched DEF BlockTmp
<1>8. BlocksFit'
  BY <1>7, BlocksFrame DEF CauseInv
<1>9. step'[p] = "rename"
  BY <1>1 DEF TypeOK
<1>10. PlaceInv(p)'
  BY <1>1, <1>6, <1>9 DEF PlaceInv, Digest
<1> QED BY <1>8, <1>10 DEF CauseInv, Alone

LEMMA RenameBlockCause ==
    ASSUME Alone, TypeOK, CauseInv, NEW p \in Processes, RenameBlock(p)
    PROVE  CauseInv'
<1> DEFINE n == BlockTmp(Digest(p), idx[p])
           b == Block(Digest(p), idx[p])
<1>1. /\ step[p] = "rename" /\ Advance(p, "block", "open")
      /\ disk' = [disk EXCEPT ![n] = Absent, ![b] = disk[n]]
      /\ UNCHANGED <<spoiled, file, job>>
  BY DEF RenameBlock, Rename
<1>2. /\ n \in Names /\ b \in Names /\ job[p].version \in Versions /\ Digest(p) \in Digests
      /\ idx[p] \in Positions
  BY <1>1, JobLemma
<1>3. disk'[b] = disk[n]
  BY <1>1, <1>2, BlockNamesDiffer DEF TypeOK
<1>4. ASSUME NEW m \in Digests, NEW s \in Positions, Block(m, s) # b
      PROVE  disk'[Block(m, s)] = disk[Block(m, s)]
  <2>1. Block(m, s) \in Names
    BY DEF Names, BlockNames
  <2>2. Block(m, s) # n
    BY DEF Block, BlockTmp
  <2> QED BY <1>1, <1>4, <2>1, <2>2 DEF TypeOK
<1>5. BlocksFit'
  <2> SUFFICES ASSUME NEW m \in Digests, NEW s \in Positions, disk'[Block(m, s)] # Absent, m \notin spoiled
               PROVE  \E v \in Versions : disk'[Block(m, s)][1] = <<v, s>>
    BY <1>1 DEF BlocksFit, Exists
  <2>1. CASE Block(m, s) = b
    <3>1. m = Digest(p) /\ s = idx[p]
      BY <2>1, BlockNamesDiffer
    <3>2. disk[n][1] = <<job[p].version, idx[p]>>
      BY <1>1, <3>1 DEF CauseInv, PlaceInv
    <3> QED BY <1>2, <1>3, <2>1, <3>1, <3>2
  <2>2. CASE Block(m, s) # b
    BY <1>4, <2>2 DEF CauseInv, BlocksFit, Exists
  <2> QED BY <2>1, <2>2
<1>6. step'[p] = "block" \/ (step'[p] = "open" /\ idx'[p] = 1)
  BY <1>1 DEF Advance, Goto, TypeOK
<1> QED BY <1>5, <1>6, QuietPlace

LEMMA OpenOutputCause ==
    ASSUME Alone, TypeOK, CauseInv, NEW p \in Processes, OpenOutput(p)
    PROVE  CauseInv'
<1> DEFINE n == Tmp(file[p])
<1>1. /\ step[p] = "open" /\ disk' = [disk EXCEPT ![n] = Empty]
      /\ handle' = [handle EXCEPT ![p] = n] /\ step' = [step EXCEPT ![p] = "copy"]
      /\ spoiled' = spoiled \ {file[p]}
      /\ UNCHANGED <<file, job, idx>>
  BY DEF OpenOutput, Open, Goto
<1>2. n \in Names /\ 1 \in Positions /\ file[p] \in Files
  BY <1>1, JobLemma
<1>3. step'[p] = "copy" /\ handle'[p] = n /\ disk'[n] = Empty /\ idx[p] = 1
  BY <1>1, <1>2 DEF TypeOK, CauseInv, PlaceInv
<1>4. Empty # Absent
  BY <1>2 DEF Empty, Absent
<1>5. \A m \in Digests, s \in Positions : disk'[Block(m, s)] = disk[Block(m, s)]
  BY <1>1, BlocksUntouched DEF BlockTmp, Tmp
<1>6. BlocksFit'
  BY <1>1, <1>2, <1>5, BlocksFrame, PlacesAssumption DEF CauseInv
<1>7. Output(p)'
  <2>1. Copied(p)' = 0
    BY <1>1, <1>3 DEF Copied
  <2>2. \A i \in Positions : disk'[n][i] = Hole /\ i > 0
    BY <1>3, CountAssumption DEF Empty, Positions
  <2> QED BY <1>1, <1>3, <1>4, <2>1, <2>2 DEF Output, Exists, Positions
<1>8. PlaceInv(p)'
  BY <1>3, <1>7 DEF PlaceInv
<1> QED BY <1>6, <1>8 DEF CauseInv, Alone

LEMMA CopyCause ==
    ASSUME Alone, TypeOK, CauseInv, NEW p \in Processes, CopyBlock(p)
    PROVE  CauseInv'
<1> DEFINE n == Tmp(file[p])
           b == Block(Digest(p), idx[p])
           data == disk[b][1]
<1>1. /\ step[p] = "copy" /\ Exists(b) /\ Write(p, idx[p], data, data, file[p])
      /\ Advance(p, "copy", "verify") /\ UNCHANGED <<file, job, handle>>
  BY DEF CopyBlock
<1>2. /\ n \in Names /\ b \in Names /\ Digest(p) \in Digests /\ file[p] \in Files
      /\ idx[p] \in 1..Count(p) /\ Count(p) \in Nat \ {0} /\ idx[p] \in Positions
  BY <1>1, JobLemma
<1>3. Output(p) /\ Copied(p) = idx[p] - 1
  BY <1>1 DEF CauseInv, PlaceInv, Copied
<1>4. handle[p] = n /\ n # Nowhere /\ disk[n] # Absent
  BY <1>3 DEF Output, Exists, Tmp, Nowhere
<1> PICK d : /\ disk' = [disk EXCEPT ![n][idx[p]] = d]
             /\ spoiled' = IF d = data THEN spoiled ELSE spoiled \cup {file[p]}
  BY <1>1, <1>4 DEF Write
<1>5. disk[n] \in [Positions -> Blocks]
  BY <1>2, <1>4 DEF TypeOK
<1>6. /\ disk'[n] = [disk[n] EXCEPT ![idx[p]] = d] /\ disk'[n] # Absent
      /\ disk'[n][idx[p]] = d
      /\ \A i \in Positions : i # idx[p] => disk'[n][i] = disk[n][i]
  <2>1. disk'[n] = [disk[n] EXCEPT ![idx[p]] = d]
    BY <1>2 DEF TypeOK
  <2> QED BY <1>2, <1>5, <2>1 DEF Absent
<1>7. \A m \in Digests, s \in Positions : disk'[Block(m, s)] = disk[Block(m, s)]
  BY BlocksUntouched DEF Tmp
<1>8. BlocksFit'
  BY <1>7, BlocksFrame DEF CauseInv
<1>9. Digest(p)' = Digest(p) /\ Count(p)' = Count(p)
  BY <1>1 DEF Digest, Count
<1>10. /\ Copied(p)' = idx[p]
       /\ \/ step'[p] = "copy"
          \/ step'[p] = "verify"
  <2>1. CASE idx[p] < Count(p)
    BY <1>1, <1>2, <2>1 DEF Advance, Goto, TypeOK, Copied
  <2>2. CASE ~(idx[p] < Count(p))
    <3>1. step'[p] = "verify"
      BY <1>1, <2>2 DEF Advance, Goto, TypeOK
    <3>2. idx[p] = Count(p)
      BY <1>2, <2>2
    <3> QED BY <1>9, <3>1, <3>2 DEF Copied
  <2> QED BY <2>1, <2>2
<1>11. Output(p)'
  <2>1. \A i \in 1..idx[p] : i \in Positions /\ disk[Block(Digest(p), i)] # Absent
    <3>1. ASSUME NEW i \in 1..idx[p]
          PROVE  i \in Positions /\ disk[Block(Digest(p), i)] # Absent
      <4>1. i \in 1..Count(p) /\ (i = idx[p] \/ i \in 1..(idx[p] - 1))
        BY <1>2
      <4>2. i \in Positions
        BY <1>1, <4>1, JobLemma DEF Positions, Count
      <4> QED BY <1>1, <1>3, <4>1, <4>2 DEF Output, Exists
    <3> QED BY <3>1
  <2>2. \A i \in 1..idx[p] : disk'[Block(Digest(p), i)] = disk[Block(Digest(p), i)]
    BY <1>2, <1>7, <2>1
  <2>3. ASSUME file[p] \notin spoiled', NEW i \in Positions
        PROVE  disk'[n][i] = IF i <= idx[p] THEN disk'[Block(Digest(p), i)][1] ELSE Hole
    <3>1. d = data /\ file[p] \notin spoiled
      BY <2>3
    <3>2. disk[n][i] = IF i <= idx[p] - 1 THEN disk[Block(Digest(p), i)][1] ELSE Hole
      BY <1>3, <3>1 DEF Output
    <3>3. i \in Nat /\ i >= 1
      BY CountAssumption DEF Positions
    <3>4. CASE i = idx[p]
      BY <1>2, <1>6, <2>2, <3>1, <3>4
    <3>5. CASE i # idx[p]
      <4>1. i <= idx[p] <=> i <= idx[p] - 1
        BY <1>2, <3>3, <3>5
      <4>2. i <= idx[p] => i \in 1..idx[p]
        BY <1>2, <3>3
      <4> QED BY <1>6, <2>2, <3>2, <3>5, <4>1, <4>2
    <3> QED BY <3>4, <3>5
  <2> QED BY <1>1, <1>4, <1>6, <1>9, <1>10, <2>1, <2>2, <2>3 DEF Output, Exists
<1>12. PlaceInv(p)'
  BY <1>10, <1>11 DEF PlaceInv
<1> QED BY <1>8, <1>12 DEF CauseInv, Alone

(* Without a cause, what was copied is the whole file of the record. *)
LEMMA CauseLemma ==
    ASSUME TypeOK, BlocksFit, NEW p \in Processes, step[p] = "verify", Output(p),
           Digest(p) \notin spoiled, file[p] \notin spoiled, ~HasTwin(job[p].version)
    PROVE  Md5Matches(p)
<1> DEFINE n == Tmp(file[p])
           v == job[p].version
<1>1. v \in Versions /\ Digest(p) \in Digests /\ n \in Names /\ Count(p) \in Nat
  BY JobLemma
<1>2. Copied(p) = Count(p)
  BY DEF Copied
<1>3. disk[n] \in [Positions -> Blocks]
  BY <1>1 DEF TypeOK, Output, Exists
<1>4. ASSUME NEW i \in Positions
      PROVE  disk[n][i] = IF i <= Count(p) THEN <<v, i>> ELSE Hole
  <2>1. disk[n][i] = IF i <= Count(p) THEN disk[Block(Digest(p), i)][1] ELSE Hole
    BY <1>2 DEF Output
  <2>2. ASSUME i <= Count(p)
        PROVE  disk[Block(Digest(p), i)][1] = <<v, i>>
    <3> DEFINE b == Block(Digest(p), i)
    <3>1. i \in 1..Count(p)
      BY <1>1, <2>2, CountAssumption DEF Positions
    <3>2. Exists(b)
      BY <1>2, <3>1 DEF Output
    <3>3. PICK w \in Versions : disk[b][1] = <<w, i>>
      BY <1>1, <3>2 DEF BlocksFit
    <3>4. b \in BlockNames /\ b[2] = Md5[v] /\ disk[b][1][1] = w
      BY <1>1, <3>3 DEF BlockNames, Block, Digest
    <3>5. w = v
      BY <3>2, <3>4 DEF HasTwin
    <3> QED BY <3>3, <3>5
  <2> QED BY <2>1, <2>2
<1>5. disk[n] = Whole(v)
  BY <1>3, <1>4 DEF Whole, Count
<1> QED BY <1>1, <1>5 DEF Md5Matches, Digest

LEMMA VerifyCause ==
    ASSUME Alone, TypeOK, CauseInv, NEW p \in Processes, Verify(p)
    PROVE  CauseInv'
<1>1. /\ step[p] = "verify"
      /\ step' = [step EXCEPT ![p] = IF Md5Matches(p) THEN "save" ELSE "mismatch"]
      /\ UNCHANGED <<spoiled, disk, file, job, idx>>
  BY DEF Verify, Goto
<1>2. BlocksFit'
  BY <1>1, BlocksFrame DEF CauseInv
<1>3. Output(p)
  BY <1>1 DEF CauseInv, PlaceInv
<1>4. CASE Md5Matches(p)
  <2>1. step'[p] = "save"
    BY <1>1, <1>4 DEF TypeOK
  <2>2. Matches(p, Tmp(file[p]))
    BY <1>4 DEF Md5Matches, Matches
  <2>3. \E v \in Versions : Md5[v] = Digest(p)' /\ disk'[Tmp(file'[p])] = Whole(v)
    BY <1>1, <2>2 DEF Matches, Digest
  <2>4. PlaceInv(p)'
    BY <2>1, <2>3 DEF PlaceInv, Matches
  <2> QED BY <1>2, <2>4 DEF CauseInv, Alone
<1>5. CASE ~Md5Matches(p)
  <2>1. step'[p] = "mismatch"
    BY <1>1, <1>5 DEF TypeOK
  <2>2. Digest(p) \in spoiled \/ file[p] \in spoiled \/ HasTwin(job[p].version)
    BY <1>1, <1>3, <1>5, CauseLemma DEF CauseInv
  <2>3. (Digest(p) \in spoiled \/ file[p] \in spoiled \/ HasTwin(job[p].version))'
    BY <1>1, <2>2 DEF Digest, HasTwin, Exists
  <2>4. PlaceInv(p)'
    BY <2>1, <2>3 DEF PlaceInv
  <2> QED BY <1>2, <2>4 DEF CauseInv, Alone
<1> QED BY <1>4, <1>5

LEMMA SaveCause ==
    ASSUME Alone, TypeOK, CauseInv, NEW p \in Processes, Save(p)
    PROVE  CauseInv'
<1> DEFINE n == Tmp(file[p])
           t == Target(file[p])
<1>1. /\ step[p] = "save" /\ step' = [step EXCEPT ![p] = "sweep"]
      /\ disk' = [disk EXCEPT ![n] = Absent, ![t] = disk[n]]
      /\ UNCHANGED <<spoiled, file, job, idx>>
  BY DEF Save, Rename, Goto
<1>2. n \in Names /\ t \in Names
  BY <1>1, JobLemma
<1>3. step'[p] = "sweep" /\ disk'[t] = disk[n]
  BY <1>1, <1>2 DEF TypeOK
<1>4. ASSUME NEW m \in Digests, NEW s \in Positions
      PROVE  disk'[Block(m, s)] = disk[Block(m, s)]
  <2>1. Block(m, s) \in Names
    BY DEF Names, BlockNames
  <2>2. Block(m, s) # n /\ Block(m, s) # t
    BY DEF Block, Tmp, Target
  <2> QED BY <1>1, <2>1, <2>2 DEF TypeOK
<1>5. BlocksFit'
  BY <1>1, <1>4, BlocksFrame DEF CauseInv
<1>6. \E v \in Versions : Md5[v] = Digest(p) /\ disk[n] = Whole(v)
  BY <1>1 DEF CauseInv, PlaceInv, Matches
<1>7. \E v \in Versions : Md5[v] = Digest(p)' /\ disk'[Target(file'[p])] = Whole(v)
  BY <1>1, <1>3, <1>6 DEF Digest
<1>8. PlaceInv(p)'
  BY <1>3, <1>7 DEF PlaceInv, Matches
<1> QED BY <1>5, <1>8 DEF CauseInv, Alone

LEMMA SweepCause ==
    ASSUME Alone, TypeOK, CauseInv, NEW p \in Processes, SweepBlock(p)
    PROVE  CauseInv'
<1>1. PICK n \in InDir(Digest(p)) : disk' = [disk EXCEPT ![n] = Absent]
  BY DEF SweepBlock, Remove
<1>2. step[p] = "sweep" /\ UNCHANGED <<spoiled, step, file, job, idx>>
  BY DEF SweepBlock
<1>3. n \in Names /\ n[1] \in {"block", "block.tmp"}
  BY DEF InDir
<1>4. \A x \in Names : disk'[x] \in {disk[x], Absent} /\ (x # n => disk'[x] = disk[x])
  BY <1>1, <1>3 DEF TypeOK
<1>5. BlocksFit'
  <2>1. \A m \in Digests, s \in Positions : Block(m, s) \in Names
    BY DEF Names, BlockNames
  <2> QED BY <1>2, <1>4, <2>1, BlocksFrame DEF CauseInv
<1>6. disk'[Target(file[p])] = disk[Target(file[p])]
  <2>1. Target(file[p]) \in Names
    BY <1>2, JobLemma
  <2>2. Target(file[p]) # n
    BY <1>3 DEF Target
  <2> QED BY <1>4, <2>1, <2>2
<1>7. \E v \in Versions : Md5[v] = Digest(p)' /\ disk'[Target(file'[p])] = Whole(v)
  BY <1>2, <1>6 DEF CauseInv, PlaceInv, Matches, Digest
<1>8. PlaceInv(p)'
  BY <1>2, <1>7 DEF PlaceInv, Matches
<1> QED BY <1>5, <1>8 DEF CauseInv, Alone

LEMMA TakeAwayCause ==
    ASSUME Alone, TypeOK, CauseInv, NEW f \in Files, TakeAway(f)
    PROVE  CauseInv'
<1> DEFINE t == Target(f)
<1>1. /\ \A p \in Processes : file[p] # f
      /\ disk' = [disk EXCEPT ![t] = Absent]
      /\ handle' = [q \in Processes |-> IF handle[q] = t THEN Nowhere ELSE handle[q]]
      /\ UNCHANGED <<spoiled, step, file, job, idx>>
  BY DEF TakeAway, Remove
<1>2. \A x \in Names : x # t => disk'[x] = disk[x]
  BY <1>1 DEF TypeOK
<1>3. \A m \in Digests, s \in Positions : disk'[Block(m, s)] = disk[Block(m, s)]
  BY <1>1, BlocksUntouched DEF Target
<1>4. BlocksFit'
  BY <1>1, <1>3, BlocksFrame DEF CauseInv
<1>5. ASSUME NEW p \in Processes
      PROVE  PlaceInv(p)'
  <2>1. Digest(p)' = Digest(p) /\ Copied(p)' = Copied(p) /\ Count(p)' = Count(p)
    BY <1>1 DEF Digest, Copied, Count
  <2>2. CASE step[p] = "idle"
    BY <1>1, <2>2 DEF PlaceInv
  <2>3. CASE step[p] # "idle"
    <3>1. /\ Digest(p) \in Digests /\ BlockTmp(Digest(p), idx[p]) \in Names
          /\ Tmp(file[p]) \in Names /\ Target(file[p]) \in Names /\ file[p] # f
          /\ Count(p) \in Nat \ {0} /\ idx[p] \in 1..Count(p) /\ job[p].version \in Versions
      BY <1>1, <2>3, JobLemma
    <3>2. /\ BlockTmp(Digest(p), idx[p]) # t /\ Tmp(file[p]) # t /\ Target(file[p]) # t
      BY <3>1 DEF BlockTmp, Tmp, Target
    <3>3. /\ disk'[BlockTmp(Digest(p), idx[p])] = disk[BlockTmp(Digest(p), idx[p])]
          /\ disk'[Tmp(file[p])] = disk[Tmp(file[p])]
          /\ disk'[Target(file[p])] = disk[Target(file[p])]
          /\ handle[p] = BlockTmp(Digest(p), idx[p]) => handle'[p] = handle[p]
          /\ handle[p] = Tmp(file[p]) => handle'[p] = handle[p]
      BY <1>1, <1>2, <3>1, <3>2
    <3>4. CASE step[p] \in {"copy", "verify"}
      <4>1. Output(p)
        BY <3>4 DEF CauseInv, PlaceInv
      <4>2. \A i \in Positions : disk'[Block(Digest(p), i)] = disk[Block(Digest(p), i)]
        BY <1>3, <3>1
      <4>3. \A i \in 1..Copied(p) : i \in Positions
        <5>1. \A i \in 1..Copied(p) : i \in 1..Count(p)
          BY <3>1, <3>4 DEF Copied
        <5>2. Count(p) = BlockCount[job[p].version]
          BY DEF Count
        <5> QED BY <3>1, <5>1, <5>2 DEF Positions
      <4>4. \A i \in 1..Copied(p) : disk'[Block(Digest(p), i)] # Absent
        BY <4>1, <4>2, <4>3 DEF Output, Exists
      <4>5. file[p] \in spoiled \/ \A i \in Positions :
              disk'[Tmp(file[p])][i] = IF i <= Copied(p) THEN disk'[Block(Digest(p), i)][1] ELSE Hole
        BY <3>3, <4>1, <4>2 DEF Output
      <4>6. handle'[p] = Tmp(file[p]) /\ disk'[Tmp(file[p])] # Absent
        BY <3>3, <4>1 DEF Output, Exists
      <4>7. Output(p)'
        BY <1>1, <2>1, <4>4, <4>5, <4>6 DEF Output, Exists
      <4> QED BY <1>1, <3>4, <4>7 DEF PlaceInv
    <3>5. CASE step[p] = "mismatch"
      <4>1. HasTwin(job[p].version)' <=> HasTwin(job[p].version)
        <5>1. \A n \in BlockNames : n # t /\ n \in Names
          BY DEF BlockNames, Names, Block, Target
        <5> QED BY <1>1, <1>2, <5>1 DEF HasTwin, Exists
      <4> QED BY <1>1, <2>1, <3>5, <4>1 DEF CauseInv, PlaceInv
    <3>6. CASE step[p] \in {"write", "rename", "open"}
      BY <1>1, <2>1, <3>3, <3>6 DEF CauseInv, PlaceInv, Exists
    <3>7. CASE step[p] \in {"save", "sweep"}
      <4>1. /\ step[p] = "save" => Matches(p, Tmp(file[p]))
            /\ step[p] = "sweep" => Matches(p, Target(file[p]))
        BY DEF CauseInv, PlaceInv
      <4>2. /\ step[p] = "save" =>
                 \E v \in Versions : Md5[v] = Digest(p)' /\ disk'[Tmp(file'[p])] = Whole(v)
            /\ step[p] = "sweep" =>
                 \E v \in Versions : Md5[v] = Digest(p)' /\ disk'[Target(file'[p])] = Whole(v)
        BY <1>1, <2>1, <3>3, <4>1 DEF Matches
      <4> QED BY <1>1, <3>7, <4>2 DEF PlaceInv, Matches
    <3>8. CASE step[p] \in {"prepare", "block"}
      BY <1>1, <3>8 DEF PlaceInv
    <3>9. step[p] \in Steps
      BY DEF TypeOK
    <3> QED BY <2>3, <3>4, <3>5, <3>6, <3>7, <3>8, <3>9 DEF Steps
  <2> QED BY <2>2, <2>3
<1> QED BY <1>4, <1>5 DEF CauseInv

LEMMA CauseStep == Alone /\ TypeOK /\ CauseInv /\ [Next]_vars => CauseInv'
<1> SUFFICES ASSUME Alone, TypeOK, CauseInv, [Next]_vars PROVE CauseInv'
  OBVIOUS
<1>1. ASSUME NEW p \in Processes, NEW f \in Files, DownloadFile(p, f) PROVE CauseInv'
  <2>1. step'[p] = "prepare" /\ UNCHANGED <<disk, spoiled>>
    BY <1>1 DEF DownloadFile, Goto, TypeOK
  <2> QED BY <2>1, BlocksFrame, QuietPlace DEF CauseInv
<1>2. ASSUME NEW p \in Processes, Prepare(p) PROVE CauseInv'
  <2>1. step'[p] = "block" /\ disk' = [disk EXCEPT ![Tmp(file[p])] = Absent] /\ UNCHANGED spoiled
    BY <1>2 DEF Prepare, Remove, Goto, TypeOK
  <2>2. \A m \in Digests, s \in Positions : disk'[Block(m, s)] = disk[Block(m, s)]
    BY <2>1, BlocksUntouched DEF Tmp
  <2> QED BY <2>1, <2>2, BlocksFrame, QuietPlace DEF CauseInv
<1>3. ASSUME NEW p \in Processes, SkipBlock(p) PROVE CauseInv'
  <2>1. step'[p] = "block" \/ (step'[p] = "open" /\ idx'[p] = 1)
    BY <1>3 DEF SkipBlock, Advance, Goto, TypeOK
  <2>2. UNCHANGED <<disk, spoiled>>
    BY <1>3 DEF SkipBlock
  <2> QED BY <2>1, <2>2, BlocksFrame, QuietPlace DEF CauseInv
<1>4. ASSUME NEW p \in Processes, Return(p) PROVE CauseInv'
  <2>1. /\ step'[p] = "idle" /\ UNCHANGED disk
        /\ spoiled' = spoiled \ {Digest(p)} /\ InDir(Digest(p)) = {}
    BY <1>4 DEF Return, Idle, Goto, TypeOK
  <2>2. ASSUME NEW s \in Positions, Digest(p) \in Digests
        PROVE  ~Exists(Block(Digest(p), s))
    <3>1. Block(Digest(p), s) \in Names
      BY <2>2 DEF Names, BlockNames
    <3> QED BY <2>1, <3>1 DEF InDir, Block
  <2>3. BlocksFit'
    <3> SUFFICES ASSUME NEW m \in Digests, NEW s \in Positions, Exists(Block(m, s)), m \notin spoiled'
                 PROVE  \E v \in Versions : disk[Block(m, s)][1] = <<v, s>>
      BY <2>1 DEF BlocksFit, Exists
    <3>1. m # Digest(p)
      BY <2>2
    <3> QED BY <2>1, <3>1 DEF CauseInv, BlocksFit
  <2> QED BY <2>1, <2>3, QuietPlace
<1>5. ASSUME NEW p \in Processes, Abort(p) PROVE CauseInv'
  <2>1. step'[p] = "idle" /\ UNCHANGED <<disk, spoiled>>
    BY <1>5 DEF Abort, Idle, Goto, TypeOK
  <2> QED BY <2>1, BlocksFrame, QuietPlace DEF CauseInv
<1>6. CASE (\E f \in Files : Reindex(f)) \/ UNCHANGED vars
  <2>1. UNCHANGED <<spoiled, disk, step, file, job, idx, handle>>
    BY <1>6 DEF Reindex, local, vars
  <2>2. BlocksFit'
    BY <2>1, BlocksFrame DEF CauseInv
  <2>3. ASSUME NEW p \in Processes PROVE PlaceInv(p)'
    BY <2>1 DEF CauseInv, PlaceInv, Digest, Count, Copied, Output, Matches, HasTwin, Exists
  <2> QED BY <2>2, <2>3 DEF CauseInv
<1> QED BY <1>1, <1>2, <1>3, <1>4, <1>5, <1>6, FetchCause, WriteBlockCause, RenameBlockCause, OpenOutputCause,
           CopyCause, VerifyCause, SaveCause, SweepCause, TakeAwayCause DEF Next

LEMMA CauseAlways == Spec => [](Alone => CauseInv)
<1>1. TypeOK /\ (Alone => CauseInv) /\ [Next]_vars => (Alone => CauseInv)'
  BY CauseStep DEF Alone
<1> QED BY <1>1, CauseInit, TypeCorrect, PTL DEF Spec

(* What an earlier download left, of whatever version and wherever it died, *)
(* is no reason for a process that is alone to refuse a file.               *)
THEOREM RefusedForACauseHolds == Spec => [](Alone => RefusedForACause)
<1>1. CauseInv => RefusedForACause
  BY DEF CauseInv, PlaceInv, RefusedForACause
<1> QED BY <1>1, CauseAlways, PTL

(* A step that makes a block file disappear is one of the sweep.            *)
LEMMA KeptStep ==
    ASSUME Alone, TypeOK, CauseInv, [Next]_vars, NEW n \in BlockNames, Exists(n), disk'[n] = Absent
    PROVE  \E f \in Files, v \in Versions : disk[Target(f)] = Whole(v) /\ Md5[v] = n[2]
<1>1. n \in Names /\ n[1] = "block" /\ disk[n] # Absent
  BY DEF BlockNames, Names, Block, Exists
<1>2. Empty # Absent
  BY <1>1, CountAssumption DEF BlockNames, Empty, Absent
<1>3. PICK p \in Processes : SweepBlock(p)
  <2>1. ASSUME NEW x, NEW y, disk' = [disk EXCEPT ![x] = y], x[1] # "block"
        PROVE  FALSE
    BY <1>1, <2>1 DEF TypeOK
  <2>2. ASSUME NEW p \in Processes, Prepare(p) PROVE FALSE
    <3>1. Tmp(file[p])[1] # "block"
      BY DEF Tmp
    <3> QED BY <2>1, <2>2, <3>1 DEF Prepare, Remove
  <2>3. ASSUME NEW p \in Processes, FetchBlock(p) PROVE FALSE
    BY <2>1, <2>3 DEF FetchBlock, Open, BlockTmp
  <2>4. ASSUME NEW p \in Processes, WriteBlock(p) PROVE FALSE
    <3>1. handle[p] = BlockTmp(Digest(p), idx[p]) /\ BlockTmp(Digest(p), idx[p])[1] # "block"
      BY <2>4 DEF WriteBlock, CauseInv, PlaceInv, BlockTmp
    <3> QED BY <1>1, <2>1, <2>4, <3>1 DEF WriteBlock, Write
  <2>5. ASSUME NEW p \in Processes, RenameBlock(p) PROVE FALSE
    <3>1. BlockTmp(Digest(p), idx[p]) # n
      BY <1>1 DEF BlockTmp
    <3> QED BY <1>1, <2>5, <3>1 DEF RenameBlock, Rename, Exists, TypeOK
  <2>6. ASSUME NEW p \in Processes, OpenOutput(p) PROVE FALSE
    BY <2>1, <2>6 DEF OpenOutput, Open, Tmp
  <2>7. ASSUME NEW p \in Processes, CopyBlock(p) PROVE FALSE
    <3>1. handle[p] = Tmp(file[p]) /\ Tmp(file[p])[1] # "block"
      BY <2>7 DEF CopyBlock, CauseInv, PlaceInv, Output, Tmp
    <3> QED BY <1>1, <2>1, <2>7, <3>1 DEF CopyBlock, Write
  <2>8. ASSUME NEW p \in Processes, Save(p) PROVE FALSE
    <3>1. Tmp(file[p]) # n /\ Target(file[p]) # n
      BY <1>1 DEF Tmp, Target
    <3> QED BY <1>1, <2>8, <3>1 DEF Save, Rename, TypeOK
  <2>9. ASSUME NEW f \in Files, TakeAway(f) PROVE FALSE
    BY <2>1, <2>9 DEF TakeAway, Remove, Target
  <2>10. ASSUME UNCHANGED disk PROVE FALSE
    BY <1>1, <2>10
  <2> QED BY <2>2, <2>3, <2>4, <2>5, <2>6, <2>7, <2>8, <2>9, <2>10
       DEF Next, DownloadFile, SkipBlock, Verify, Return, Abort, Reindex, vars
<1>4. PICK x \in InDir(Digest(p)) : disk' = [disk EXCEPT ![x] = Absent]
  BY <1>3 DEF SweepBlock, Remove
<1>5. n = x
  BY <1>1, <1>4 DEF TypeOK
<1>6. n[2] = Digest(p)
  BY <1>4, <1>5 DEF InDir
<1>7. step[p] = "sweep" /\ file[p] \in Files
  BY <1>3, JobLemma DEF SweepBlock
<1>8. \E v \in Versions : Md5[v] = Digest(p) /\ disk[Target(file[p])] = Whole(v)
  BY <1>7 DEF CauseInv, PlaceInv, Matches
<1> QED BY <1>6, <1>7, <1>8

(* What was fetched is thrown away only once the file is in its place.      *)
THEOREM BlocksKeptHolds == Alone => (Spec => BlocksKeptUntilSaved)
<1> SUFFICES ASSUME Alone PROVE Spec => BlocksKeptUntilSaved
  OBVIOUS
<1>1. TypeOK /\ CauseInv /\ [Next]_vars =>
        [\A n \in BlockNames : Exists(n) /\ disk'[n] = Absent =>
           \E f \in Files, v \in Versions : disk[Target(f)] = Whole(v) /\ Md5[v] = n[2]]_vars
  BY KeptStep
<1> QED BY <1>1, TypeCorrect, CauseAlways, PTL DEF Spec, BlocksKeptUntilSaved
=============================================================================
