----------------------------- MODULE MailService -----------------------------
(***************************************************************************)
(* MailfsService over one mailbox: uploading a file block by block,        *)
(* refreshing the SQLite index from the mailbox (cache_mailbox), deleting a *)
(* mail and deduplicating.  The mailbox is on the server and shared; every  *)
(* client works on an index database, its own or one it shares (the CLI and *)
(* the threads of the HTTP server open the same file).                      *)
(*                                                                         *)
(* One action is one call of the transport or one SQLite transaction, with *)
(* the local steps after it.  Any of these calls may throw and the process *)
(* may die before it: Abort.                                                *)
(***************************************************************************)
EXTENDS Naturals, Sequences, FiniteSets, FiniteSetsExt

CONSTANTS
    Clients,     \* service objects, each running one operation at a time
    Databases,   \* index databases
    Db,          \* client -> the database it opens
    Paths,       \* local paths of uploaded files
    Enc,         \* path -> stored_local_path; the path itself unless the mailbox is encrypted
    Versions,    \* contents of a file with their block count: the code's VersionKey
    BlockCount,  \* version -> block_count
    Scopes,      \* the sets of names a local_path_prefix can select
    BatchSize,   \* cache_fetch_batch_size
    MaxMails,    \* mails that ever arrive, and among them those of other programs:
    MaxOthers    \* bounds on the runs, not of the code

Names == Paths \cup {Enc[p] : p \in Paths}
NoName == "no name"
NoVersion == "no version"
Seqs == UNION {1..BlockCount[v] : v \in Versions}

ASSUME BatchAssumption == BatchSize \in Nat \ {0}
ASSUME CountAssumption == \A v \in Versions : BlockCount[v] \in Nat \ {0}
ASSUME ScopesAssumption == Scopes \subseteq SUBSET Names
ASSUME DbAssumption == Db \in [Clients -> Databases]
ASSUME NamesAssumption ==
    /\ NoName \notin Names /\ NoVersion \notin Versions
    /\ \A p, q \in Paths : Enc[p] = Enc[q] => p = q
    /\ \A p, q \in Paths : Enc[p] = q => p = q

VARIABLES
    mails,      \* every mail that ever arrived; a mail's uid is its position
    flagged,    \* uids of mails marked \Deleted and still in the mailbox
    expunged,   \* uids deleted from the mailbox
    row,        \* cache_files: database, name -> version of the file, or NoVersion
    blocks,     \* cache_blocks: database -> [name, seq, uid] entries
    call,       \* client -> the operation it runs
    step,       \* client -> where it is
    todo,       \* client -> uids still to fetch, or to delete
    batch,      \* client -> uids fetched or appended, not yet in the index
    missing,    \* client -> blocks still to upload
    known       \* client -> what a deduplication knows of the mails

mailVars == <<mails, flagged, expunged>>
indexVars == <<row, blocks>>
clientVars == <<call, step, todo, batch, missing, known>>
vars == <<mailVars, indexVars, clientVars>>

Mail == [path : Paths, version : Versions, seq : Seqs]
Junk == [path |-> NoName, version |-> NoVersion, seq |-> 0]   \* not a mail of mailfs

Uids == DOMAIN mails
Live == Uids \ expunged
Cacheable(u) == mails[u] # Junk

NoCall == [op |-> "none", path |-> NoName, version |-> NoVersion, scope |-> {}]

Init ==
    /\ mails = <<>>
    /\ flagged = {}
    /\ expunged = {}
    /\ row = [d \in Databases |-> [n \in Names |-> NoVersion]]
    /\ blocks = [d \in Databases |-> {}]
    /\ call = [c \in Clients |-> NoCall]
    /\ step = [c \in Clients |-> "idle"]
    /\ todo = [c \in Clients |-> {}]
    /\ batch = [c \in Clients |-> {}]
    /\ missing = [c \in Clients |-> {}]
    /\ known = [c \in Clients |-> {}]

-----------------------------------------------------------------------------
(* The index: SQLiteCacheRepository.  Each of these is one transaction.     *)

IndexedUids(d) == {b.uid : b \in blocks[d]}
BlocksOf(d, n) == {b \in blocks[d] : b.name = n}

(* Mutant: the row of a file that is already known is left alone. *)
UpsertMailBlockKeepsRow(d, n, u) ==
    /\ row' = [row EXCEPT ![d][n] = IF @ = NoVersion THEN mails[u].version ELSE @]
    /\ blocks' = [blocks EXCEPT ![d] =
         {b \in @ : ~(b.name = n /\ b.seq = mails[u].seq)}
           \cup {[name |-> n, seq |-> mails[u].seq, uid |-> u]}]

(* Mutant: cache_blocks without UNIQUE(file_id, block_seq). *)
UpsertMailBlockTwice(d, n, u) ==
    /\ row' = [row EXCEPT ![d][n] = mails[u].version]
    /\ blocks' = [blocks EXCEPT ![d] = @ \cup {[name |-> n, seq |-> mails[u].seq, uid |-> u]}]

(* Mutant: ON CONFLICT DO NOTHING for the block. *)
UpsertMailBlockOnce(d, n, u) ==
    /\ row' = [row EXCEPT ![d][n] = mails[u].version]
    /\ blocks' = [blocks EXCEPT ![d] =
         IF \E b \in @ : b.name = n /\ b.seq = mails[u].seq
         THEN @ ELSE @ \cup {[name |-> n, seq |-> mails[u].seq, uid |-> u]}]

(* upsert_mail_block: the row takes the version of this mail, the block of  *)
(* its sequence number the mail's uid; other blocks stay as they are.       *)
UpsertMailBlock(d, n, u) ==
    /\ row' = [row EXCEPT ![d][n] = mails[u].version]
    /\ blocks' = [blocks EXCEPT ![d] =
         {b \in @ : ~(b.name = n /\ b.seq = mails[u].seq)}
           \cup {[name |-> n, seq |-> mails[u].seq, uid |-> u]}]

(* Mutant: the files go, the DELETE of their blocks is forgotten. *)
RemoveMessageUidNoCascade(d, u) ==
    LET hit == {b.name : b \in {x \in blocks[d] : x.uid = u}}
    IN  /\ row' = [row EXCEPT ![d] = [n \in Names |-> IF n \in hit THEN NoVersion ELSE @[n]]]
        /\ UNCHANGED blocks

(* remove_message_uid: every file with a block in that mail goes, whole. *)
RemoveMessageUid(d, u) ==
    LET hit == {b.name : b \in {x \in blocks[d] : x.uid = u}}
    IN  /\ row' = [row EXCEPT ![d] = [n \in Names |-> IF n \in hit THEN NoVersion ELSE @[n]]]
        /\ blocks' = [blocks EXCEPT ![d] = {b \in @ : b.name \notin hit}]

ClearMailbox(d) ==
    /\ row' = [row EXCEPT ![d] = [n \in Names |-> NoVersion]]
    /\ blocks' = [blocks EXCEPT ![d] = {}]

(* What resolve_cached_file accepts for a download or a stream: as many     *)
(* blocks as the row announces.                                             *)
Resolves(d, n) ==
    /\ row[d][n] # NoVersion
    /\ Cardinality(BlocksOf(d, n)) = BlockCount[row[d][n]]

(* has_complete_blocks: the blocks are 1 to block_count. *)
HasCompleteBlocks(d, n) ==
    /\ row[d][n] # NoVersion
    /\ {b.seq : b \in BlocksOf(d, n)} = 1..BlockCount[row[d][n]]

-----------------------------------------------------------------------------
(* A client's operations. *)

Goto(c, s) == step' = [step EXCEPT ![c] = s]

Begin(c, what) ==
    /\ step[c] = "idle"
    /\ call' = [call EXCEPT ![c] = what]
    /\ UNCHANGED <<mailVars, indexVars>>

(* cache_mailbox: search_all_uids, get_cached_uids, then batch by batch     *)
(* fetch_metadata and an upsert for each mail, in the order of the uids.    *)
CacheMailbox(c) ==
    /\ Begin(c, [NoCall EXCEPT !.op = "cache"])
    /\ Goto(c, "search")
    /\ UNCHANGED <<todo, batch, missing, known>>

Search(c) ==
    /\ step[c] = "search"
    /\ todo' = [todo EXCEPT ![c] = Live]
    /\ Goto(c, "compare")
    /\ UNCHANGED <<mailVars, indexVars, call, batch, missing, known>>

(* Where caching goes on with uids t to fetch and b to put into the index.  *)
Caching(c, t, b) ==
    /\ todo' = [todo EXCEPT ![c] = t]
    /\ batch' = [batch EXCEPT ![c] = b]
    /\ Goto(c, IF b # {} THEN "upsert" ELSE IF t # {} THEN "fetch" ELSE "done")

Compare(c) ==
    /\ step[c] = "compare"
    /\ Caching(c, todo[c] \ IndexedUids(Db[c]), {})
    /\ UNCHANGED <<mailVars, indexVars, call, missing, known>>

NextBatch(S) == {u \in S : Cardinality({w \in S : w <= u}) <= BatchSize}

(* Mails that are gone by now, and mails without metadata, have no entry.   *)
Fetch(c) ==
    /\ step[c] = "fetch"
    /\ LET b == NextBatch(todo[c])
       IN  Caching(c, todo[c] \ b, {u \in b \cap Live : Cacheable(u)})
    /\ UNCHANGED <<mailVars, indexVars, call, missing, known>>

Upsert(c) ==
    /\ step[c] = "upsert"
    /\ LET u == Min(batch[c])
       IN  /\ UpsertMailBlock(Db[c], mails[u].path, u)
           /\ Caching(c, todo[c], batch[c] \ {u})
    /\ UNCHANGED <<mailVars, call, missing, known>>

(* Mutant: the loop over the blocks stops one short. *)
UploadFileOneShort(c, p, v) ==
    /\ Begin(c, [NoCall EXCEPT !.op = "upload", !.path = p, !.version = v])
    /\ LET existing == IF row[Db[c]][p] # NoVersion THEN p ELSE Enc[p]
           left == 1..(BlockCount[v] - 1) \ {b.seq : b \in BlocksOf(Db[c], existing)}
       IN  /\ missing' = [missing EXCEPT ![c] = left]
           /\ Goto(c, IF left = {} THEN "done" ELSE "append")
    /\ UNCHANGED <<todo, batch, known>>

(* upload_file: the blocks the index holds for the path, or else for the    *)
(* stored path, of whatever version, are not uploaded again.                *)
UploadFile(c, p, v) ==
    /\ Begin(c, [NoCall EXCEPT !.op = "upload", !.path = p, !.version = v])
    /\ LET existing == IF row[Db[c]][p] # NoVersion THEN p ELSE Enc[p]
           left == 1..BlockCount[v] \ {b.seq : b \in BlocksOf(Db[c], existing)}
       IN  /\ missing' = [missing EXCEPT ![c] = left]
           /\ Goto(c, IF left = {} THEN "done" ELSE "append")
    /\ UNCHANGED <<todo, batch, known>>

(* Mutant: blocks numbered from zero. *)
BlockMailFromZero(c) ==
    [path |-> call[c].path, version |-> call[c].version, seq |-> Min(missing[c]) - 1]

BlockMail(c) ==
    [path |-> call[c].path, version |-> call[c].version, seq |-> Min(missing[c])]

(* The server stores the mail but the reply is lost: ImapClient connects    *)
(* anew and sends the APPEND again.                                         *)
AppendUnheard(c) ==
    /\ step[c] = "append"
    /\ Len(mails) < MaxMails
    /\ mails' = Append(mails, BlockMail(c))
    /\ UNCHANGED <<flagged, expunged, indexVars, clientVars>>

NextBlock(c) ==
    LET left == missing[c] \ {Min(missing[c])}
    IN  /\ missing' = [missing EXCEPT ![c] = left]
        /\ Goto(c, IF left = {} THEN "done" ELSE "append")

(* The server may leave the uid out of its reply; then the index is not     *)
(* told.                                                                    *)
AppendMessage(c) ==
    /\ step[c] = "append"
    /\ Len(mails) < MaxMails
    /\ mails' = Append(mails, BlockMail(c))
    /\ \/ /\ batch' = [batch EXCEPT ![c] = {Len(mails) + 1}]
          /\ Goto(c, "record")
          /\ UNCHANGED missing
       \/ /\ NextBlock(c)
          /\ UNCHANGED batch
    /\ UNCHANGED <<flagged, expunged, indexVars, call, todo, known>>

(* The upsert of an appended block uses the stored path. *)
Record(c) ==
    /\ step[c] = "record"
    /\ UpsertMailBlock(Db[c], Enc[call[c].path], Min(batch[c]))
    /\ batch' = [batch EXCEPT ![c] = {}]
    /\ NextBlock(c)
    /\ UNCHANGED <<mailVars, call, todo, known>>

(* delete_message_uid: the mail first, then what the index holds of it.     *)
DeleteMessageUid(c, u) ==
    /\ Begin(c, [NoCall EXCEPT !.op = "delete"])
    /\ todo' = [todo EXCEPT ![c] = {u}]
    /\ Goto(c, "flag")
    /\ UNCHANGED <<batch, missing, known>>

(* delete_message_by_uid, first half: UID STORE marks the mail.  What a     *)
(* deduplication knew is of no use any more.                                *)
Flag(c) ==
    /\ step[c] = "flag"
    /\ flagged' = flagged \cup ({Min(todo[c])} \cap Live)
    /\ known' = [known EXCEPT ![c] = {}]
    /\ Goto(c, "expunge")
    /\ UNCHANGED <<mails, expunged, indexVars, call, todo, batch, missing>>

(* Second half: EXPUNGE deletes every mail that is marked, whoever did it.  *)
(* A deduplication has the next mail to delete, delete_message_uid the      *)
(* index to tell.                                                           *)
Expunge(c) ==
    /\ step[c] = "expunge"
    /\ expunged' = expunged \cup flagged
    /\ flagged' = {}
    /\ IF call[c].op = "delete"
       THEN Goto(c, "forget") /\ UNCHANGED todo
       ELSE LET left == todo[c] \ {Min(todo[c])}
            IN  /\ todo' = [todo EXCEPT ![c] = left]
                /\ Goto(c, IF left = {} THEN "clear" ELSE "flag")
    /\ UNCHANGED <<mails, indexVars, call, batch, missing, known>>

Forget(c) ==
    /\ step[c] = "forget"
    /\ RemoveMessageUid(Db[c], Min(todo[c]))
    /\ Goto(c, "done")
    /\ UNCHANGED <<mailVars, call, todo, batch, missing, known>>

-----------------------------------------------------------------------------
(* deduplicate_mailbox.  What is known of a mail comes from the index if    *)
(* the index has its uid, whether or not the mail is still there, with the  *)
(* version of the file's row; else from the mail itself.                    *)

(* Two clients of one database can index a mail under two names.  emplace   *)
(* keeps the one list_files has first; how names are sorted is left out.    *)
BlockFor(d, u) == CHOOSE b \in blocks[d] : b.uid = u

IndexEntry(d, b) ==
    [uid |-> b.uid, name |-> b.name, seq |-> b.seq, version |-> row[d][b.name]]

IndexEntries(d) == {IndexEntry(d, BlockFor(d, u)) : u \in IndexedUids(d)}

MailEntry(u) ==
    [uid |-> u, name |-> mails[u].path, seq |-> mails[u].seq, version |-> mails[u].version]

Candidate(K, n, v) == {e \in K : e.name = n /\ e.version = v}
IsComplete(K, n, v) == {e.seq : e \in Candidate(K, n, v)} = 1..BlockCount[v]
MaxUid(K, n, v) == Max({e.uid : e \in Candidate(K, n, v)})

(* Mutant: the newest version is the better one, complete or not. *)
BetterByUid(K, n, v, w) == MaxUid(K, n, v) > MaxUid(K, n, w)

(* The pair (is_complete, max_uid) of v is the greater one. *)
Better(K, n, v, w) ==
    IF IsComplete(K, n, v) = IsComplete(K, n, w)
    THEN MaxUid(K, n, v) > MaxUid(K, n, w)
    ELSE IsComplete(K, n, v)

(* The entry belongs to the version kept and is the newest of its block.    *)
IsKept(K, e) ==
    /\ \A w \in {x.version : x \in {y \in K : y.name = e.name}} : ~Better(K, e.name, w, e.version)
    /\ \A f \in Candidate(K, e.name, e.version) : f.seq = e.seq => f.uid <= e.uid

Doomed(K) == {e.uid : e \in {x \in K : ~IsKept(K, x)}}

DeduplicateMailbox(c, scope) ==
    /\ Begin(c, [NoCall EXCEPT !.op = "dedup", !.scope = scope])
    /\ Goto(c, "survey")
    /\ UNCHANGED <<todo, batch, missing, known>>

Survey(c) ==
    /\ step[c] = "survey"
    /\ todo' = [todo EXCEPT ![c] = Live]
    /\ Goto(c, "list")
    /\ UNCHANGED <<mailVars, indexVars, call, batch, missing, known>>

(* Knowing K, with the mails t still to fetch: once all are fetched, the    *)
(* mails to delete are settled.                                             *)
Gathering(c, t, K) ==
    LET doomed == Doomed({e \in K : e.name \in call[c].scope})
    IN  /\ known' = [known EXCEPT ![c] = K]
        /\ todo' = [todo EXCEPT ![c] = IF t # {} THEN t ELSE doomed]
        /\ Goto(c, IF t # {} THEN "gather" ELSE IF doomed # {} THEN "flag" ELSE "done")

ListFiles(c) ==
    /\ step[c] = "list"
    /\ Gathering(c, todo[c] \ IndexedUids(Db[c]), IndexEntries(Db[c]))
    /\ UNCHANGED <<mailVars, indexVars, call, batch, missing>>

Gather(c) ==
    /\ step[c] = "gather"
    /\ LET b == NextBatch(todo[c])
       IN  Gathering(c, todo[c] \ b,
                     known[c] \cup {MailEntry(u) : u \in {x \in b \cap Live : Cacheable(x)}})
    /\ UNCHANGED <<mailVars, indexVars, call, batch, missing>>

(* After the clear the mailbox is cached anew. *)
Clear(c) ==
    /\ step[c] = "clear"
    /\ ClearMailbox(Db[c])
    /\ Goto(c, "search")
    /\ UNCHANGED <<mailVars, call, todo, batch, missing, known>>

-----------------------------------------------------------------------------
Forgotten(c) ==
    /\ call' = [call EXCEPT ![c] = NoCall]
    /\ Goto(c, "idle")
    /\ todo' = [todo EXCEPT ![c] = {}]
    /\ batch' = [batch EXCEPT ![c] = {}]
    /\ missing' = [missing EXCEPT ![c] = {}]
    /\ known' = [known EXCEPT ![c] = {}]

Return(c) ==
    /\ step[c] = "done"
    /\ Forgotten(c)
    /\ UNCHANGED <<mailVars, indexVars>>

(* The next call throws (the network, SQLITE_BUSY, the disk), or the        *)
(* process dies before it: what was done stays done.                        *)
Abort(c) ==
    /\ step[c] \notin {"idle", "done"}
    /\ Forgotten(c)
    /\ UNCHANGED <<mailVars, indexVars>>

(* Another mail program leaves a mail in the mailbox. *)
OtherMail ==
    /\ Len(mails) < MaxMails
    /\ Cardinality({u \in Uids : mails[u] = Junk}) < MaxOthers
    /\ mails' = Append(mails, Junk)
    /\ UNCHANGED <<flagged, expunged, indexVars, clientVars>>

Proceed(c) ==
    \/ Search(c) \/ Compare(c) \/ Fetch(c) \/ Upsert(c)
    \/ AppendMessage(c) \/ AppendUnheard(c) \/ Record(c)
    \/ Flag(c) \/ Expunge(c) \/ Forget(c)
    \/ Survey(c) \/ ListFiles(c) \/ Gather(c) \/ Clear(c)
    \/ Return(c) \/ Abort(c)

Next ==
    \/ OtherMail
    \/ \E c \in Clients :
        \/ CacheMailbox(c)
        \/ \E p \in Paths, v \in Versions : UploadFile(c, p, v)
        \/ \E u \in Uids : DeleteMessageUid(c, u)
        \/ \E scope \in Scopes : DeduplicateMailbox(c, scope)
        \/ Proceed(c)

Spec == Init /\ [][Next]_vars

-----------------------------------------------------------------------------
Call == [op : {"none", "cache", "upload", "delete", "dedup"}, path : Paths \cup {NoName},
         version : Versions \cup {NoVersion}, scope : SUBSET Names]
Steps == {"idle", "search", "compare", "fetch", "upsert", "append", "record", "flag", "expunge",
          "forget", "survey", "list", "gather", "clear", "done"}
Block == [name : Names, seq : Seqs, uid : Nat]
Entry == [uid : Nat, name : Names, seq : Seqs, version : Versions]

(* Every variable has its type, and a uid is one of a mail that arrived. *)
TypeOK ==
    /\ mails \in Seq(Mail \cup {Junk})
    /\ flagged \subseteq Live
    /\ expunged \subseteq Uids
    /\ row \in [Databases -> [Names -> Versions \cup {NoVersion}]]
    /\ blocks \in [Databases -> SUBSET Block]
    /\ call \in [Clients -> Call]
    /\ step \in [Clients -> Steps]
    /\ todo \in [Clients -> SUBSET Uids]
    /\ batch \in [Clients -> SUBSET Uids]
    /\ missing \in [Clients -> SUBSET Seqs]
    /\ known \in [Clients -> SUBSET Entry]

(* The index says nothing that no mail ever said: a block names a mail that *)
(* carried this block of this file, and a file's row has the version of one *)
(* of the file's own blocks, however uploads, refreshes, deletions and      *)
(* crashes of several clients follow one another.                           *)
IndexIsGrounded ==
    \A d \in Databases :
        /\ \A b \in blocks[d] :
             /\ b.uid \in Uids
             /\ Cacheable(b.uid)
             /\ b.seq = mails[b.uid].seq
             /\ b.name \in {mails[b.uid].path, Enc[mails[b.uid].path]}
             /\ row[d][b.name] # NoVersion
        /\ \A n \in Names : row[d][n] # NoVersion =>
             \E b \in BlocksOf(d, n) : mails[b.uid].version = row[d][n]

(* A file of which the mailbox has only ever held one version is never      *)
(* handed out with a block missing: the count that resolve_cached_file      *)
(* compares is enough then.                                                 *)
WholeUnlessMixed ==
    \A d \in Databases, n \in Names :
        LET here == {u \in Uids : Cacheable(u) /\ n \in {mails[u].path, Enc[mails[u].path]}}
        IN  (\A u, w \in here : mails[u].version = mails[w].version) =>
              (Resolves(d, n) => HasCompleteBlocks(d, n))

(* What resolve_cached_file hands out is the blocks of one version, all of  *)
(* them: "cached file is incomplete" is thrown otherwise.                   *)
ResolvedIsWhole ==
    \A d \in Databases, n \in Names : Resolves(d, n) =>
        /\ HasCompleteBlocks(d, n)
        /\ \A b \in BlocksOf(d, n) : mails[b.uid].version = row[d][n]

(* An upload that returns has left no gap: each block of the file is in a   *)
(* mail that arrived, whatever was lost, repeated or broken off before.     *)
UploadLeavesNoGap ==
    \A c \in Clients : step[c] = "done" /\ call[c].op = "upload" =>
        \A s \in 1..BlockCount[call[c].version] :
            \E u \in Uids : mails[u].path = call[c].path /\ mails[u].seq = s

(* An upload to which the server told the uids can be found under its local *)
(* path as soon as it returns.                                              *)
UploadIsListed ==
    \A c \in Clients : step[c] = "done" /\ call[c].op = "upload" =>
        \/ row[Db[c]][call[c].path] # NoVersion
        \/ \E u \in Live : mails[u].path = call[c].path /\ u \notin IndexedUids(Db[c])

(* When delete_message_uid returns, the mail is gone and the index that     *)
(* this client alone uses has forgotten it.                                 *)
DeletedIsForgotten ==
    \A c \in Clients : step[c] = "done" /\ call[c].op = "delete" =>
        todo[c] \cap (Live \cup IndexedUids(Db[c])) = {}

(* A refresh heals the index as far as the mailbox can: when cache_mailbox  *)
(* returns to a client that nobody else competes with, each block of which  *)
(* the mailbox still has a mail is indexed by such a mail, even if the index *)
(* pointed to a mail that is gone.                                          *)
RefreshHeals ==
    [][\A c \in Clients :
         Clients = {c} /\ step[c] \in {"compare", "fetch", "upsert"} /\ step'[c] = "done" =>
           \A u \in {w \in Live : Cacheable(w)} :
             \E b \in blocks'[Db[c]] :
               /\ b.name \in {mails[u].path, Enc[mails[u].path]} /\ b.seq = mails[u].seq
               /\ b.uid \in Live]_vars

(* The mails of path p among uids U that carry version v hold all its blocks. *)
CompleteIn(U, p, v) ==
    {mails[u].seq : u \in {w \in U : mails[w].path = p /\ mails[w].version = v}} = 1..BlockCount[v]

(* The complete version with the newest mail, if there is a complete one.   *)
NewestComplete(U, p) ==
    LET newest(v) == Max({u \in U : mails[u].path = p /\ mails[u].version = v})
        complete == {v \in Versions : CompleteIn(U, p, v)}
    IN  {v \in complete : \A w \in complete : newest(w) <= newest(v)}

Settles(c) == step[c] \in {"list", "gather"} /\ step'[c] = "flag"

(* What is known of the mails is true: each is still there, and of the      *)
(* version it is thought to be.                                             *)
Informed(c) ==
    \A e \in known'[c] : e.uid \in Live /\ e = MailEntry(e.uid)

(* deduplicate_mailbox keeps the newest complete version: once the mails to *)
(* delete are settled, each file in its scope still has, without them, the  *)
(* version that was its newest complete one, provided that what it knew of  *)
(* the mails was true.                                                      *)
DedupKeepsNewest ==
    [][\A c \in Clients : Settles(c) /\ Informed(c) =>
         LET U == {e.uid : e \in known'[c]}
         IN  \A p \in Paths : NewestComplete(U \ todo'[c], p) = NewestComplete(U, p)]_vars

(* The same without the proviso: a file that can be restored from the       *)
(* mailbox can still be when the mails that are settled have been deleted.  *)
DedupLosesNoFile ==
    [][\A c \in Clients : Settles(c) =>
         \A p \in Paths : NewestComplete(Live, p) # {} => NewestComplete(Live \ todo'[c], p) # {}]_vars
=============================================================================
