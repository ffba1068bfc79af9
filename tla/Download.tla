------------------------------ MODULE Download ------------------------------
(***************************************************************************)
(* MailfsService::download_file: the blocks of a file are fetched one by    *)
(* one into a directory named after the file's MD5, put together in a       *)
(* temporary file, compared with the MD5 and renamed.  A later download     *)
(* goes on with the blocks an earlier one left.                             *)
(*                                                                         *)
(* Processes are runs of the command line; each may fail or die before any  *)
(* call.  The files of this model lie in one download directory.  An open   *)
(* handle follows its file through a rename, as on POSIX.                   *)
(***************************************************************************)
EXTENDS Naturals

CONSTANTS
    Processes,
    Files,       \* names in the download directory
    Versions,    \* contents of files
    Md5,         \* version -> digest of the content
    BlockCount,  \* version -> block_count
    Records,     \* what the index may have of a file
    ShortWrites  \* whether a write may write nothing (the disk is full)

NoVersion == "no version"
NoFile == "no file"

ASSUME CountAssumption == \A v \in Versions : BlockCount[v] \in Nat \ {0}
ASSUME FlagAssumption == ShortWrites \in BOOLEAN

Positions == UNION {1..BlockCount[v] : v \in Versions}
Digests == {Md5[v] : v \in Versions}

(* A record has the version of the row and, for each block, the version the *)
(* block's mail was uploaded for.  resolve_cached_file compares only how    *)
(* many blocks there are; that they are 1 to BlockCount is what upload_file *)
(* writes.                                                                  *)
Record == {r \in [version : Versions, from : UNION {[1..n -> Versions] : n \in Positions}] :
             DOMAIN r.from = 1..BlockCount[r.version]}
ASSUME RecordsAssumption == Records \subseteq Record

(* spoiled names places of both kinds. *)
ASSUME PlacesAssumption == Digests \cap Files = {}

Hole == <<NoVersion, 0>>                       \* bytes that were not written
Blocks == {<<v, s>> : v \in Versions, s \in Positions} \cup {Hole}
Empty == [i \in Positions |-> Hole]
Absent == [i \in {} |-> Hole]

Whole(v) == [i \in Positions |-> IF i <= BlockCount[v] THEN <<v, i>> ELSE Hole]

(* Names of files; a block's file has its data at position 1. *)
Block(m, s) == <<"block", m, s>>
BlockTmp(m, s) == <<"block.tmp", m, s>>
Tmp(f) == <<"tmp", f, 0>>
Target(f) == <<"target", f, 0>>
BlockNames == {Block(m, s) : m \in Digests, s \in Positions}
Names == BlockNames \cup {BlockTmp(m, s) : m \in Digests, s \in Positions}
           \cup {Tmp(f) : f \in Files} \cup {Target(f) : f \in Files}
Nowhere == <<"nowhere", NoFile, 0>>

VARIABLES
    record,    \* file -> what the index has of it
    disk,      \* name -> content, or Absent
    dirs,      \* digests with a block directory
    step,      \* process -> where it is
    file,      \* process -> the file it downloads
    job,       \* process -> its copy of the record
    idx,       \* process -> block_seq of the block it is at
    handle,    \* process -> name of the file it writes
    spoiled    \* (history) digests and files whose block directory, or output, got
               \* something that was not wanted there

local == <<step, file, job, idx, handle>>
vars == <<record, disk, dirs, local, spoiled>>

NoJob == [version |-> NoVersion, from |-> <<>>]

Init ==
    /\ record \in [Files -> Records]
    /\ disk = [n \in Names |-> Absent]
    /\ dirs = {}
    /\ step = [p \in Processes |-> "idle"]
    /\ file = [p \in Processes |-> NoFile]
    /\ job = [p \in Processes |-> NoJob]
    /\ idx = [p \in Processes |-> 0]
    /\ handle = [p \in Processes |-> Nowhere]
    /\ spoiled = {}

Exists(n) == disk[n] # Absent
Digest(p) == Md5[job[p].version]
Count(p) == BlockCount[job[p].version]
Goto(p, s) == step' = [step EXCEPT ![p] = s]

-----------------------------------------------------------------------------
(* Calls of the file system. *)

(* std::ofstream with trunc: a file that is there loses its content, for    *)
(* whoever writes it.                                                       *)
Open(p, n) ==
    /\ disk' = [disk EXCEPT ![n] = Empty]
    /\ handle' = [handle EXCEPT ![p] = n]

(* Neither the stream nor its flush at the end of the scope is checked.  If *)
(* what arrives is not what is wanted there, the place is spoiled.          *)
Write(p, position, data, wanted, place) ==
    \E d \in {data} \cup (IF ShortWrites THEN {Hole} ELSE {}) :
        /\ IF handle[p] = Nowhere THEN UNCHANGED disk
           ELSE disk' = [disk EXCEPT ![handle[p]][position] = d]
        /\ spoiled' = IF d = wanted /\ handle[p] # Nowhere THEN spoiled ELSE spoiled \cup {place}

Rename(p, n, new) ==
    /\ Exists(n)
    /\ disk' = [disk EXCEPT ![n] = Absent, ![new] = disk[n]]
    /\ handle' = [q \in Processes |->
         CASE q = p -> Nowhere
           [] q # p /\ handle[q] = n -> new
           [] q # p /\ handle[q] = new -> Nowhere
           [] OTHER -> handle[q]]

Remove(n) ==
    /\ disk' = [disk EXCEPT ![n] = Absent]
    /\ handle' = [q \in Processes |-> IF handle[q] = n THEN Nowhere ELSE handle[q]]

-----------------------------------------------------------------------------
(* resolve_cached_file, then the look at the target: a file that is there   *)
(* is the result, whatever it holds.                                        *)
DownloadFile(p, f) ==
    /\ step[p] = "idle"
    /\ ~Exists(Target(f))
    /\ file' = [file EXCEPT ![p] = f]
    /\ job' = [job EXCEPT ![p] = record[f]]
    /\ idx' = [idx EXCEPT ![p] = 1]
    /\ Goto(p, "prepare")
    /\ UNCHANGED <<spoiled, record, disk, dirs, handle>>

Prepare(p) ==
    /\ step[p] = "prepare"
    /\ Remove(Tmp(file[p]))
    /\ dirs' = dirs \cup {Digest(p)}
    /\ Goto(p, "block")
    /\ UNCHANGED <<spoiled, record, file, job, idx>>

(* Mutant: the loop goes on counting. *)
AdvanceNoReset(p, next, last) ==
    /\ idx' = [idx EXCEPT ![p] = @ + 1]
    /\ Goto(p, IF idx[p] < Count(p) THEN next ELSE last)

(* The loop over the blocks: at block i + 1 after block i. *)
Advance(p, next, last) ==
    /\ idx' = [idx EXCEPT ![p] = IF @ < Count(p) THEN @ + 1 ELSE 1]
    /\ Goto(p, IF idx[p] < Count(p) THEN next ELSE last)

SkipBlock(p) ==
    /\ step[p] = "block"
    /\ Exists(Block(Digest(p), idx[p]))
    /\ Advance(p, "block", "open")
    /\ UNCHANGED <<spoiled, record, disk, dirs, file, job, handle>>

(* Mutant: the block is written in place, without a temporary file. *)
FetchBlockInPlace(p) ==
    /\ step[p] = "block"
    /\ ~Exists(Block(Digest(p), idx[p]))
    /\ Digest(p) \in dirs
    /\ Open(p, Block(Digest(p), idx[p]))
    /\ Goto(p, "write")
    /\ UNCHANGED <<spoiled, record, dirs, file, job, idx>>

(* fetch_cached_block, then the temporary file is opened. *)
FetchBlock(p) ==
    /\ step[p] = "block"
    /\ ~Exists(Block(Digest(p), idx[p]))
    /\ Digest(p) \in dirs
    /\ Open(p, BlockTmp(Digest(p), idx[p]))
    /\ Goto(p, "write")
    /\ UNCHANGED <<spoiled, record, dirs, file, job, idx>>

WriteBlock(p) ==
    /\ step[p] = "write"
    /\ Write(p, 1, <<job[p].from[idx[p]], idx[p]>>, <<job[p].version, idx[p]>>, Digest(p))
    /\ Goto(p, "rename")
    /\ UNCHANGED <<record, dirs, file, job, idx, handle>>

RenameBlock(p) ==
    /\ step[p] = "rename"
    /\ Rename(p, BlockTmp(Digest(p), idx[p]), Block(Digest(p), idx[p]))
    /\ Advance(p, "block", "open")
    /\ UNCHANGED <<spoiled, record, dirs, file, job>>

OpenOutput(p) ==
    /\ step[p] = "open"
    /\ Open(p, Tmp(file[p]))
    /\ spoiled' = spoiled \ {file[p]}
    /\ Goto(p, "copy")
    /\ UNCHANGED <<record, dirs, file, job, idx>>

CopyBlock(p) ==
    /\ step[p] = "copy"
    /\ Exists(Block(Digest(p), idx[p]))
    /\ LET data == disk[Block(Digest(p), idx[p])][1]
       IN  Write(p, idx[p], data, data, file[p])
    /\ Advance(p, "copy", "verify")
    /\ UNCHANGED <<record, dirs, file, job, handle>>

(* Mutant: the size is compared, not the digest. *)
SizeMatches(p) ==
    \A i \in 1..Count(p) : disk[Tmp(file[p])][i] # Hole

Md5Matches(p) ==
    \E v \in Versions : Md5[v] = Digest(p) /\ disk[Tmp(file[p])] = Whole(v)

(* Mutant: the block directory goes before the file is in its place. *)
VerifySweepsFirst(p) ==
    /\ step[p] = "verify"
    /\ Exists(Tmp(file[p]))
    /\ handle' = [handle EXCEPT ![p] = Nowhere]
    /\ Goto(p, IF Md5Matches(p) THEN "sweep" ELSE "mismatch")
    /\ UNCHANGED <<spoiled, record, disk, dirs, file, job, idx>>

Verify(p) ==
    /\ step[p] = "verify"
    /\ Exists(Tmp(file[p]))
    /\ handle' = [handle EXCEPT ![p] = Nowhere]
    /\ Goto(p, IF Md5Matches(p) THEN "save" ELSE "mismatch")
    /\ UNCHANGED <<spoiled, record, disk, dirs, file, job, idx>>

Save(p) ==
    /\ step[p] = "save"
    /\ Rename(p, Tmp(file[p]), Target(file[p]))
    /\ Goto(p, "sweep")
    /\ UNCHANGED <<spoiled, record, dirs, file, job, idx>>

(* remove_all of the block directory, name by name. *)
InDir(m) == {n \in Names : n[1] \in {"block", "block.tmp"} /\ n[2] = m /\ Exists(n)}

SweepBlock(p) ==
    /\ step[p] = "sweep"
    /\ \E n \in InDir(Digest(p)) : Remove(n)
    /\ UNCHANGED <<spoiled, record, dirs, step, file, job, idx>>

Idle(p) ==
    /\ Goto(p, "idle")
    /\ file' = [file EXCEPT ![p] = NoFile]
    /\ job' = [job EXCEPT ![p] = NoJob]
    /\ idx' = [idx EXCEPT ![p] = 0]
    /\ handle' = [handle EXCEPT ![p] = Nowhere]

Return(p) ==
    /\ step[p] = "sweep"
    /\ InDir(Digest(p)) = {}
    /\ dirs' = dirs \ {Digest(p)}
    /\ spoiled' = spoiled \ {Digest(p)}
    /\ Idle(p)
    /\ UNCHANGED <<record, disk>>

(* The next call throws - no connection, the mail is gone, a file cannot be *)
(* opened, the MD5 does not match - or the process dies: what is on disk    *)
(* stays.                                                                   *)
Abort(p) ==
    /\ step[p] # "idle"
    /\ Idle(p)
    /\ UNCHANGED <<spoiled, record, disk, dirs>>

(* The index changes under a refresh or an upload. *)
Reindex(f) ==
    /\ \E r \in Records \ {record[f]} : record' = [record EXCEPT ![f] = r]
    /\ UNCHANGED <<spoiled, disk, dirs, local>>

(* The user takes a downloaded file away, once nobody downloads it. *)
TakeAway(f) ==
    /\ Exists(Target(f))
    /\ \A p \in Processes : file[p] # f
    /\ Remove(Target(f))
    /\ UNCHANGED <<spoiled, record, dirs, step, file, job, idx>>

Next ==
    \/ \E p \in Processes :
        \/ \E f \in Files : DownloadFile(p, f)
        \/ Prepare(p) \/ SkipBlock(p) \/ FetchBlock(p) \/ WriteBlock(p) \/ RenameBlock(p)
        \/ OpenOutput(p) \/ CopyBlock(p) \/ Verify(p) \/ Save(p)
        \/ SweepBlock(p) \/ Return(p) \/ Abort(p)
    \/ \E f \in Files : Reindex(f) \/ TakeAway(f)

Spec == Init /\ [][Next]_vars

-----------------------------------------------------------------------------
Steps == {"idle", "prepare", "block", "write", "rename", "open", "copy", "verify", "save",
          "mismatch", "sweep"}

(* Every variable has its type, and a process works on a block of its file. *)
TypeOK ==
    /\ record \in [Files -> Records]
    /\ DOMAIN disk = Names
    /\ \A n \in Names : disk[n] = Absent \/ disk[n] \in [Positions -> Blocks]
    /\ dirs \subseteq Digests
    /\ step \in [Processes -> Steps]
    /\ file \in [Processes -> Files \cup {NoFile}]
    /\ job \in [Processes -> Records \cup {NoJob}]
    /\ idx \in [Processes -> Positions \cup {0}]
    /\ handle \in [Processes -> Names \cup {Nowhere}]
    /\ spoiled \subseteq Digests \cup Files
    /\ \A p \in Processes :
         IF step[p] = "idle" THEN job[p] = NoJob
         ELSE job[p] \in Records /\ file[p] \in Files /\ idx[p] \in 1..Count(p)

(* What lies under the name of a file is a whole file: no crash, no full    *)
(* disk, no block left by an earlier download and no index that mixes       *)
(* versions puts anything else there.                                       *)
SavedIsWhole ==
    \A f \in Files : Exists(Target(f)) => \E v \in Versions : disk[Target(f)] = Whole(v)

(* The same when no download is running: a file that was left under its     *)
(* final name is whole, since its MD5 is compared before the rename.        *)
LeftIsWhole == (\A p \in Processes : step[p] = "idle") => SavedIsWhole

(* The block directory of v has a block of another version of that content. *)
HasTwin(v) ==
    \E n \in BlockNames : n[2] = Md5[v] /\ Exists(n) /\ disk[n][1][1] \in Versions \ {v}

(* A download is refused for its MD5 only if since its block directory was  *)
(* made, or for its output, a write went wrong or the index mixed versions, *)
(* or if the same content was uploaded with another block size too.  Dead   *)
(* downloads, of whatever version, are no cause: what they left fits.       *)
RefusedForACause ==
    \A p \in Processes : step[p] = "mismatch" =>
        \/ Digest(p) \in spoiled \/ file[p] \in spoiled
        \/ HasTwin(job[p].version)

(* A block that was fetched is not thrown away before a file with that      *)
(* content is in its place, so a download that died never starts anew.      *)
BlocksKeptUntilSaved ==
    [][\A n \in BlockNames : Exists(n) /\ disk'[n] = Absent =>
         \E f \in Files, v \in Versions : disk[Target(f)] = Whole(v) /\ Md5[v] = n[2]]_vars
=============================================================================
