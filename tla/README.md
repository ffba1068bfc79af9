# Formal model of cppMailfs

cppMailfs stores files in IMAP mailboxes: a file is cut into blocks, each block
is one mail, and a SQLite database on the client's side indexes which mail
holds which block. A CLI uploads, lists, downloads, deletes and deduplicates
files; an HTTP server (also run inside an Android app) streams them.

This directory models that program in TLA+, checks the models with TLC and
proves the main safety properties with TLAPS. Paths below are relative to the
repository root; the module map in `PROJECT.json` gives, for every definition, the lines it
translates.

## 1. Inventory

| Component | Source | State | Operations | Talks to |
|---|---|---|---|---|
| Block loader | `src/application/http_imap_download_server.cpp` 479-563 | block cache (map and LRU list), loads in flight | `load_block` | called by client threads and the prefetch worker; calls `fetch_block` |
| Download server | same file, 418-457, 565-974 | prefetch sessions, task queue, pending keys, stop flags, one detached thread per client, one worker thread | `serve`, `handle_request`, the stream body, `start/advance/stop_prefetch_session`, `prefetch_worker_loop`, `stop`, destructor | block loader, `MailfsService` |
| Range and offset arithmetic | same file, 234-308 | none | `build_block_offsets`, `find_block_for_offset`, `parse_range_header` | download server |
| Mail service | `src/application/mailfs_service.cpp` | none of its own: the mailbox on the server, the index in SQLite, `.tmp` files and a block directory on disk | `cache_mailbox`, `upload_file`, `delete_message_uid`, `deduplicate_mailbox`, `download_file`, `fetch_cached_block` | IMAP client, index, file system |
| Index | `src/infra/storage/sqlite_cache_repository.cpp` | tables of mailboxes, files, blocks | `upsert_block`, `remove_message_uid`, `clear_mailbox`, queries | SQLite |
| IMAP client | `src/infra/imap/imap_client.cpp` | connection, login, selected mailbox | `connect`, `disconnect`, `select_mailbox`, `search_all_uids`, `fetch_messages`, `append_message`, `delete_message_by_uid`, all over `execute` with its retries and reconnects | secure socket |
| Android bridge | `android/mailfs-aar/src/main/cpp/mailfs_jni.cpp` | one server, its thread, `running`, `last_error`, one mutex for all objects of `MailfsHttpServer` | `start`, `stop`, `runCommand`, `isRunning`, `lastError` | download server, mail service |
| Mail formats | `src/core/mime_message.cpp`, `mail_block_metadata.cpp`, `xor_codec.cpp`, the helpers of `mailfs_service.cpp` | none | quoted-printable, base64, metadata text, name encryption | mail service |
| Mailbox names | `src/infra/imap/imap_utf7.cpp`, `imap_response_parser.cpp` | none | modified UTF-7, LIST responses, quoting | IMAP client |
| Hashing, text conversion | `src/core/hash.cpp`, `src/infra/platform/utf8.cpp` | none | MD5, UTF-8 and UTF-16 | service, UTF-7 |
| Configuration, logging, sockets, CLI, Java | the rest | config, log file, TLS socket, UI | | |

### What is hard in this code

* *Concurrency*: the HTTP server runs a thread per client and a prefetch
  worker over four pieces of shared state guarded by three kinds of mutex, two
  of them nested in one place.
* *Two stores that disagree*: the mailbox is the truth, the index a cache of
  it; uploads, deletions and deduplications change one, then the other, with
  a network in between and other clients using the same mailbox.
* *Retries*: a reply that is lost after the server acted makes the client
  repeat an `APPEND`; a reconnect inside a command runs commands with retries of
  their own.
* *Crashes*: a download continues from the block files an earlier run left.
* *Conversions in pairs*: what one operation writes another one decodes, some of
  it twice, and the two must agree: mails, mailbox names, offsets of bytes in blocks.
* *Lifetimes*: detached threads keep a raw `this`; the Android bridge starts
  and stops one native server for all Java objects.

## 2. Plan

| | Modules | What | Status |
|---|---|---|---|
| A | `BlockFetch`, `BlockLoader`, `BlockRecency`, `BlockLoaderProofs`, `MCBlockLoader` | the shared block loader, its abstract specification, its order of use, the proofs | done |
| B | `DownloadServer`, `MCDownloadServer`, `DownloadServerProofs` | clients, prefetch, shutdown, composed over A; the proofs | done |
| C | `MailService`, `MCMailService`, `MailServiceProofs` | mailbox, index, upload, refresh, delete, deduplicate; other clients, crashes, lost replies; the proofs | done |
| D | `Download`, `MCDownload`, `DownloadProofs` | resuming a download, block files, the final file; the proofs | done |
| E | `MailTransport`, `ImapClient`, `ImapClientProofs` | the IMAP client's retries, reconnects and mailbox selection, what the service may expect of it, the proofs | done |
| F | `AndroidBridge`, `MCAndroidBridge`, `AndroidBridgeProofs` | starting, stopping and losing the server inside an Android app, commands beside it; the proofs | done |
| G | `RangeStream`, `MailFormat`, `MailboxNames`, `MCFormats`, `FormatsProofs`, `MailFormatProofs` | the conversions: ranges of bytes, the text of a mail, mailbox names, against what they mean; the proofs for all three | done |

## 3. Block loader: `BlockLoader`, `BlockFetch`

`BlockLoader` models `load_block_impl`. Its variables have the names of the
members: `block_cache_` (the cached data of a key, or `NoKey`),
`block_cache_order_`, `block_loads_`; `load` holds the `BlockLoadState`
objects, `load_state[t]` the local of thread `t`. A key stands for the block's
data too, so handing a thread the data of another block is visible. One action
is one critical section:

| Action | Code |
|---|---|
| `Hit`, `Join`, `Own` (by `Ask`) | the first critical section: cached, in flight, or neither |
| `Wake` | the waiter's `cv.wait` ends; it returns the data or throws |
| `FetchSucceeds`, `FetchFails` | `fetch_block` returned or threw; the outcome is published under the load's own mutex |
| `Install`, `Withdraw` | the last critical section: cache and evict, or only erase the load |
| `Return` | the caller has the result |

A `BlockLoadState` is kept alive by `shared_ptr`; here an object of the pool
`Loads` may be allocated only when neither the map nor a thread refers to it
(`Referenced`). Strings, HTTP and the provider are abstracted away: a download
just succeeds or fails.

`BlockFetch` is what a caller is promised, with no owners, waiters, objects or
eviction order: a call is answered by the cache or by the one download of its
block in progress, one outcome settles every call waiting for it at once.
`BlockLoader` implements it under the mapping `Fetch`, in which a thread is
settled as soon as the load it waits for is published.

Properties: `SingleFlight` (no block is downloaded twice at once or while it
is cached), `OrderMirrorsCache` (map and list agree and are bounded),
`AnswersMatch`, `CacheHoldsMostRecent` (eviction is least-recently-used, stated in
`BlockRecency` over a history: which keys were used, and which of two later: by a call
that was answered from the cache or an owner that installed its block; a waiter that wakes
uses the load and not the cache), `ImplementsBlockFetch` and, with
fairness, `ImplementsFairBlockFetch`, in which every call is settled. `LoadsHaveOwners`
(a failed download cannot poison its key) and `WaitersAreServed` are part of the inductive
invariant and of its consequences (section 10).

What a caller can observe and may not expect: a call that arrives after a
download failed and before its owner has withdrawn it gets the error at once,
without a download of its own. The abstract specification says so (`Ask` with
a settled download).

*Run.* `block_loader`: three threads (owner, waiter, and one that causes an
eviction), three keys, capacity two, so that evictions happen while loads are in
flight. Three threads refer to three load objects at most; two are given, so a
third load waits for an object to be free, which loses no interleaving of calls for the same
two blocks and lets an object be allocated again while another load is in flight. The run checks liveness, so nothing is symmetric.

*Fairness.* Weak fairness of a thread's steps inside the function and of its
return: the mutexes are held for short straight-line sections, `notify_all`
follows `done`, and `fetch_block` returns or throws (the socket has timeouts).
Nothing is assumed of callers.

## 4. Download server: `DownloadServer`

The module EXTENDS `BlockLoader` and shares its variables: clients and the
worker are its threads. A file is a sequence of keys; a request is a range of
whole blocks (bytes within a block: section 9). Client threads serve one
request after another: a thread of the pool stands for the detached threads of
successive connections.

| Action | Code |
|---|---|
| `Request` | `handle_request` accepts a range |
| `AskProbe`, `EndProbe` | the first block is loaded when the index has no file size |
| `Open` | `start_prefetch_session` at the start of the stream body |
| `AskBlock`, `Deliver`, `EndEarly` | one turn of the body's loop: load, write and advance; or the write fails, or the block is too short |
| `Close` | `stop_prefetch_session`, called at once or by the guard |
| `BodyThrows` | `load_block` throws in the body |
| `Scan` | one turn of the loop of `enqueue_next_prefetch_locked` |
| `Take`, `AskPrefetch`, `FinishTask`, `ExitWorker` | `prefetch_worker_loop` |
| `Stop`, `Destroy` | `stop()`, the destructor up to its join |

`enqueue_next_prefetch_locked` takes `block_cache_mutex_` once per block while
its caller holds `prefetch_mutex_`, so its loop is not one step:
`prefetch_holder` is the thread inside it and every action that needs
`prefetch_mutex_` waits until it is free.

`BodyThrows` is how the code behaves: neither `handle_client` nor the thread's
lambda catches an exception of the stream body, so the process ends in
`std::terminate` when a block cannot be loaded after the headers were sent.
`SessionsAreStreams` says nothing of that end. After it, and after the destructor has joined the worker (the object is gone,
the detached threads may still hold `this`), the model stops.

Properties: `ServerTypeOK` (with the indices of a session inside its file), `PendingIsQueuedOrRunning`, `OneTaskPerSession`,
`SessionsAreStreams`, `AtMostOneBlockAhead`, `UsesBlockLoader` (the server is a
user of the loader: its behaviours satisfy `BlockLoader!Spec`, so everything
checked and proved of the loader holds inside the server), and under fairness
`RequestsEnd`, `PendingKeysDrain`, `DestructorJoins`.

*Runs.* `download_server`: two clients that meet in one file of three blocks,
which must be probed for its size, a cache of two and two session ids; one
request per client. `download_server_live`: one client with two requests after
one another, a cache of one block, so that prefetched blocks are evicted before
they are read. `MaxRequests` bounds the runs only. The view drops what a dead
load object holds: it is never read.

*Fairness.* Weak fairness for every thread (see above); `prefetch_mutex_` is
held for at most one scan of a file's blocks, and a scan ends. Requests, `stop()`
and the destructor are the environment's and may never come.

## 5. Mail service and index: `MailService`

One mailbox on the server, shared; each client (a `MailfsService` object) runs
one operation at a time on an index database. The command line and the threads of
the HTTP server open the same file, so clients may share a database.

| State | Code |
|---|---|
| `mails`, `flagged`, `expunged` | the mailbox: every mail that arrived, at the position of its uid (uids only grow), those marked `\Deleted`, and those deleted |
| `row`, `blocks` | the tables `cache_files`, `cache_blocks` of the mailbox |
| `call`, `step` | the operation a client runs and how far it is |
| `todo`, `batch`, `missing`, `known` | the locals `uncached_uids` / `deleted_uids`, `metadata_entries`, the blocks not in `uploaded_block_seqs`, `cached_metadata_by_uid` with the fetched snapshots |

One action is one call of the transport or one SQLite transaction, with the
local steps up to the next one: `Search`, `Compare`, `Fetch`, `Upsert` for
`cache_mailbox`; `UploadFile`, `AppendMessage`, `Record` for `upload_file`;
`Flag`, `Expunge` for `delete_message_by_uid` (`UID STORE`, then an `EXPUNGE`
that takes every marked mail), followed by `Forget` in `delete_message_uid`;
`Survey`, `ListFiles`, `Gather`, then `Flag` and `Expunge` for each duplicate,
`Clear` for `deduplicate_mailbox`, which goes on as a refresh. `Abort` is an
exception of the next call (network, `SQLITE_BUSY`, disk) or the death of the
process before it: what was done stays. `AppendUnheard` is an `APPEND` the
server carried out and whose reply was lost; the IMAP client sends it again.
`OtherMail` is a mail without our metadata.

Data: a version is what the code calls `VersionKey` (MD5, size, number of
blocks), so a mail is a path, a version and a block number. `Enc` is
`stored_local_path`: the identity for a plain mailbox, another name for an
encrypted one. Empty files (no block, nothing is uploaded), a file that changes
while it is uploaded and a change of UIDVALIDITY (the code does not look at it)
are left out.

Properties that hold (checked in `mail_service` with one client, and all
proved for any number of clients whose operations interleave call by call):

* `IndexIsGrounded`: each entry of the index repeats what some mail said.
* `WholeUnlessMixed`: of a file with one version only, the number of blocks is
  enough to know that it is complete.
* `UploadLeavesNoGap`: an upload that returned has put every block into a mail
  at some time.
* `DeletedIsForgotten`, for clients that have their database for themselves.
* `DedupKeepsNewest`: deletions settled on true knowledge leave every file its
  newest complete version.
* `RefreshHeals`, for a client without competitors: after a refresh each block that has a live mail is
  indexed by a live mail. The refresh fetches and upserts every live mail whose uid the
  index lacks, and an upsert replaces only the entry of the same block; so a
  block is either indexed under a live uid already or is upserted.

Disagreements with what the tests and reports say, one run each:

* `mail_dedup_loses_file`: index entries of mails that are gone enter the plan of a
  deduplication. A deletion that failed after the server's part is enough for the next
  deduplication to delete the only complete version.
* `mail_mixed_versions`: uploading a changed file under its old path skips the block
  numbers the index knows; the mixture is complete by count, and a stream serves it.
* `mail_encrypted_upload`: an upload is indexed under the encrypted path, a refresh
  would index it under the plain one but skips known uids.

A deletion that failed between `UID STORE` and `EXPUNGE` leaves its mark, and the next
deletion of another mail takes both (`Expunge` deletes every marked mail): the properties
above hold with that.

*Bounds.* Three mails (`MaxMails`) hold two versions of a file, of one and two blocks, or a
block sent twice, or one that is foreign (`MaxOthers`). One client has two files, one of them
with a name of its own for uploads, as on an encrypted mailbox, so that one file can have two
rows; its batches of two are full or partial, and a deduplication covers all names or one.
The runs that show a disagreement allow four mails. Several clients at once are left to the proofs: a bound
that TLC can exhaust leaves each client little to do. `DeletedIsForgotten` is false for two clients on one database:
the other's refresh or upload upserts a mail it fetched before the deletion, and the entry
stays, since no refresh removes entries. `RefreshHeals` needs a client that is alone.
No fairness is assumed: all properties are about safety.

## 6. Download: `Download`

Processes (runs of the command line) download files into one directory. The model is
the calls of the file system that `download_file` makes, in its order:

| State | Code |
|---|---|
| `record`, `job` | the index's record of a file and a download's copy of it |
| `disk` | the content under each name: block files and their `.tmp`, the output's `.tmp`, the final name |
| `dirs` | block directories, one for each MD5 (files of equal content share one) |
| `handle` | the file a process has open; it follows its file through renames, as on POSIX |
| `step`, `file`, `idx` | where a process is |

`DownloadFile` resolves the record and returns at once if the target exists;
`Prepare`, then for each block `SkipBlock` or `FetchBlock`, `WriteBlock`, `RenameBlock`;
`OpenOutput`, `CopyBlock` for each block, `Verify`, `Save`; `SweepBlock` and `Return` are
`remove_all`. `Abort` is any exception or the death of the process. With `ShortWrites` a write
may leave nothing (neither stream is checked). Between downloads the index changes
(`Reindex`) and the user moves results away (`TakeAway`). A digest is a value, equal for
equal contents only; a version's content is the sequence of its blocks.

* `download`: `SavedIsWhole` with everything that can go wrong for one process: mixed records,
  full disks, two block sizes of one content, crashes. `BlocksKeptUntilSaved`: progress
  is never thrown away. `RefusedForACause`: a mismatch of the MD5 comes from a write that
  went wrong, a mixed record or a second block size, never from a download that died or was of
  another version. The history `spoiled` records the first two by block directory; such a block
  stays there and makes every later download of that content fail.
* `download_pair` (violated): the temporary files are shared by name, so a second process can put
  a truncated file under the final name (`LeftIsWhole`).

*Bounds.* Two blocks per file make first, last and interrupted-in-between differ; of three
versions two are the same content in two and in one block, the third is another. One target
suffices: contents share a directory over time, when the index changes or the
target is taken away. Nothing is counted, so no bound is in a guard.

## 7. IMAP client: `ImapClient`, `MailTransport`

`MailTransport` is what `MailfsService` relies on: during an operation in a mailbox each
command it gives is run by the server in that mailbox, perhaps several times and perhaps
without the service learning of it, at most `MaxRuns` times, and a call that returns
has seen its last command run (`UID STORE`, then `EXPUNGE`, for a deletion). It knows no
sessions, selections or retries. `Unheard` is the step that `AppendUnheard` of `MailService` is
built on.

`ImapClient` implements it. `execute` calls itself: its catch handler reconnects, the
reconnect selects the mailbox again with `LIST` and `SELECT`, and each of these is an
`execute` that may reconnect in turn. `stack` holds these calls; only the top one does
something, the others wait in their handlers, so an exception of the top one leaves all.

| State | Code |
|---|---|
| `session` | `socket_`: `closed`, `broken` (there is a TLS object, reading or writing fails), `open` (connected, not logged in), `in` |
| `open` | the mailbox the server has selected in this session |
| `selected_mailbox_`, `connected_` | the members of `ImapClient` and of `MailfsService` |
| `asked` | the mailbox of the service's operation, a local of it |
| `stack`, `busy` | the calls of `execute` (or of `connect`) with their `attempt`; `attempt` of the loop that waits for a busy server |
| `ran` | history: how often the server ran each command during the last call |

| Action | Code |
|---|---|
| `EnsureMailboxSelected`, `Command`, `Done`, `Disconnect` | the service: the start of an operation (or `list_mailboxes`), a command, its end, the destructor's `disconnect` |
| `ListOk`, `SelectOk` | the two halves of `select_mailbox_once`, for the service or for a reconnect |
| `StoreOk`, `CallOk`, `LogoutOk` | the answer OK to any other command |
| `No`, `SystemBusy` | `ensure_ok` throws; `NO System busy` is tried again by three of the commands |
| `Unheard`, `Unsent` | the connection fails after the server acted, or before; `Unheard` is also an answer that comes too late, which on the last attempt (`TooLate`) leaves the session open and logged in |
| `Connect`, `Reconnect` | `connect` with its own attempts; `reconnect_after_connection_failure` up to its `select_mailbox_once` |
| `Drop` | the session ends between two round trips |

Left out: texts and their parsing, `username_`, a failure of `load_credentials`, the
list pattern, and the tags: a new session starts with an empty read buffer, so a command reads nothing of an
older session. In the same session it may read an answer that was too late for an earlier command; the tag of that answer is
smaller, so it is not the status (what its lines add to the answer of the `LIST` that
follows is not modelled). A failure the code does not retry during a reconnect looks like any other: all
exceptions leave the handler.

Properties: `RightMailbox` (a command that works on the selected mailbox goes only to a server that
has the operation's mailbox open), `ImplementsMailTransport`, `CallsEnd`.

*Bounds of `imap_client`.* Two mailboxes, so that the one selected before and the one asked for
differ; two retries instead of three of each kind, so that first, middle and last attempts differ;
four broken connections or late answers, enough to use up the attempts of one call and to nest
two reconnects. `MaxLosses` is needed for more than a finite run: in the code a reconnect that gets
through to `LOGIN` and loses the connection in `LIST` begins another call of `execute` with fresh
attempts, so calls nest as long as the server behaves like that. `CallsEnd` therefore says that
calls end once connections stop to break and answers come in time.

*Fairness.* Weak fairness of the client's steps: a read times out after 30 seconds, the
sleeps last three. Writing and the TCP connect have no timeout of their own; they are assumed to
return, as the operating system's do.

## 8. Android bridge: `AndroidBridge`

An app reaches the server through objects of `MailfsHttpServer`, whose methods are synchronized; the
native state under them is one `ServerState` for the whole process. `start` and `stop` work on it in several
blocks, each under `ServerState::mutex`, and the server's own thread ends `running` when `serve()` is left.

| State | Code |
|---|---|
| `monitor` | the Java monitor of each object |
| `server`, `worker`, `running`, `last_error` | the members of `ServerState`; of `last_error` who wrote it |
| `alive`, `stop_serving` | the servers that exist, and those whose flag `stop_serving_` is set |
| `thread` | where the thread of a server is: before or in `serve()`, thrown out of it, returned, ended |
| `pc`, `old`, `made` | a call's place, its local `std::thread`, its `raw_server` |

| Action | Code |
|---|---|
| `Start`, `Stop`, `RunCommand` | entering a synchronized method |
| `CheckRunning`, `TakeOld`, `JoinOld`, `ResetOld`, `MakeServer`, `Publish`, `Spawn`, `KeepWorker` | `start`, with the three parts of `join_old_worker_if_needed`; `MakeServer` and `Spawn` may throw |
| `StopServer`, `JoinWorker`, `Clear` | `stop` (and `close`) |
| `RunMailfsCommand`, `CommandEnds` | `runCommand` and `runCommandWithProgress` |
| `Serve`, `ServeFails`, `ServeReturns`, `SetLastError`, `End` | the thread's lambda and, as far as it shows, `serve()` |

`isRunning` and `lastError` only read and are no actions. What a command does to mailbox and index is an
operation of `MailService`, on a client and a repository of its own. Preparing the configuration in Java,
which may throw before the native call, changes none of this state.

Properties: `ServerOutlivesWorker`, `NeverTerminates`, `RunningIsServed`, `ErrorStays`, `CallsEnd`. They rest on the Java
monitor: the blocks under the mutex do not keep a second `start` from passing the same check of `running` and
replacing the first one's server under its thread. Hence `OneStarterAssumption`: all who start and stop use
one object. The demo does (its service owns that object, and commands run from other screens), the library does not
enforce it. A start that gets no thread (`Spawn` throws) returns false and leaves `running` set, so that
`isRunning` and the next `start` claim a server that serves nobody, until `stop`; `RunningIsServed` excepts it.
The threads of clients, which are detached and use the server after its destruction if they are slow, are
not in this model.

*Bounds of `android_bridge`.* Two threads share the object that starts and stops, a third has one for
commands: enough for every pair of calls and the server's thread to meet. Storage for two servers is one more than is
ever used at once, and storage is used again, so nothing is counted.

*Fairness.* Weak fairness of each call and each thread: the listening thread looks at its flag every
250 ms, binding returns, commands end (section 7), and a destructor does (`DestructorJoins`, section 4).
That a server fails is never assumed.

## 9. Ranges, mail formats, mailbox names: `RangeStream`, `MailFormat`, `MailboxNames`

Three modules about what is written in one place and read back in another. They share no state; a behaviour of
`MCFormats` is one of the three.

`RangeStream` is `handle_request` from the resolved record on, with the loops of its helpers turn by turn. A byte
is its position in the file, so a chunk that is written is an interval and a wrong offset shows as wrong bytes.

| Action | Code |
|---|---|
| `Request` | the record is resolved (lines 699-740); the header is any of `Headers` |
| `AddOffset` | one turn of `build_block_offsets`; a block without a size counts as `default_block_size` |
| `AnswerAll`, `AnswerPart`, `Refuse` | the last offset becomes the file's size; `parse_range_header`; 200, 206 or 416 |
| `SeekNext`, `SeekFound` | `find_block_for_offset` |
| `WriteChunk`, `EndBody` | a turn of the stream body, and its end |
| `Disconnect` | headers or a chunk cannot be sent |

`BodyIsRequested`: the bytes sent are those that the header asks for by the meaning of byte ranges, in order, each once.

`MailFormat` follows a block through its mail. Bytes are numbers, words of the program's own are symbols; digests, sizes and times
are left out of the text, since digits pass every conversion unchanged.

| Action | Code |
|---|---|
| `UploadBlock` | `upload_file`: the metadata (encrypted or not), `build_message`, the entry of the index |
| `CacheMailbox` | `cache_mailbox` of a client that lacks the entry: the part as the server sends it, decoded by `parse_cached_metadata_text` |
| `FetchBlock` | `fetch_cached_block`: the part has been decoded by `MimeMessage::parse`, and `parse_cached_metadata_text` decodes it again; MD5, folder and path are compared |

`UploadedIsRestorable`: the rebuilt entry is under the file's own path, and a fetch returns the payload. It holds for `Kept` texts. What `Kept` excludes does fail
in the code: a plain name with `=` and two hex digits, one that ends in `=`, a blank at an end, or a line feed is uploaded and then listed
under another name or refused as `localpath not match`. The entry an *encrypted* upload makes itself never matches
(`mail_encrypted_upload`, section 5); the property is about its rebuilt entry.

`MailboxNames` is `list_mailboxes` and `select_mailbox_once` over a server that writes names as it likes (quoted, as an atom, as
a literal) and may hold names that this encoding would not have written.

| Action | Code |
|---|---|
| `Serve` | a server, its mailboxes, its style (external) |
| `ListMailboxes` | `list_mailboxes`: `extract_raw_list_mailbox`, `decode_imap_utf7` |
| `SelectMailbox` | `select_mailbox_once`: LIST with the encoded name, the first line that shows the name wins, else the encoded name; SELECT |

`NamesSelectThemselves`: a name opens no other mailbox, opens its own, and is shown as it is, but for names with a quote or a
backslash: their lines are not unescaped, so they are listed under names that do not exist. "Opens its own" is for mailboxes
that have the raw name the encoding writes, and it has one more exception, which the attempt to prove it found: `LIST %a` is answered for
all mailboxes that the pattern matches. If other software made one with the raw name `"&ACU-a`, its line `"\"&ACU-a"` is parsed as `&ACU-a`,
which is decoded to `%a` as well; `select_mailbox_once` then selects `&ACU-a`, which does not exist, though `%a` does.

*Bounds of `formats`.* Files of one to three blocks of one to three bytes with a default size of two, so that a block is shorter than, as
long as, or longer than the default, and a range begins and ends in, at, or beyond any block; sizes in the index, in the mail, or in neither. Headers have
positions 0 to 10 (a file has at most 9 bytes), no text, or garbage. Names of up to three symbols from
what a conversion treats as special (`=`, hex digits, blank, line feed, colon, dash, a byte above 126), and two that are decoded to escapes
again; payloads of every length modulo three. Mailbox names of up to three units give every length of the last group of digits; one of five units has one that
base64 writes with `,`; other raw names are invalid in each way the decoder tells apart. Every behaviour is short, and ends: deadlock is not checked.

## 10. Proofs

### `BlockLoaderProofs`

All theorems hold for any sets `Threads`, `Keys`, `Loads` and any positive
`Capacity`; the assumptions are `CapacityAssumption` and `SentinelAssumption`.
The inductive invariant `IInv` adds to the checked invariants what makes them
inductive: which program counter goes with which load, key and answer (an
owner's load is the one in the map under its key, a waiter's load was created for
its key, a settled load holds the key's data or nothing), and that the number of
cached keys is the length of the list, which links the eviction test on the map
to the eviction from the list. `Inductive` proves it, one lemma per action; the
safety properties follow. `Refinement` proves `Spec => ImplementsBlockFetch`:
every action maps to one of `BlockFetch` or to a stutter.

### `BlockLoaderProofs`: the order of use

Under the same assumptions, about `BlockRecency`. The history orders the keys used so far by their last use, and
`HistoryInv` says so: the order is strict, transitive and total on `used`, and what is cached was
used. `RecencyInv` is `IInv`, `HistoryInv` and the three parts of `CacheHoldsMostRecent`, which need
each other: an eviction keeps every cached key newer than every key gone only because the list is in the order of
use and the last of the list leaves, and a key that comes back finds the cache full only because nothing is
missing before. `HitRecency` and `InstallRecency` are the two uses (in `InstallRecency` the new block
may push out the oldest), `QuietRecency` all other steps, which touch neither list nor history.
`HistoryObserves`: under the history every behaviour is one of the loader.

### `DownloadServerProofs`

For any clients, files, blocks, sessions, load objects, cache sizes and numbers of requests, with the loader's
assumptions and `ThreadsAssumption`, `FilesAssumption` (a file is a sequence of keys) and `NobodyAssumption`.

* `ServerInv` is the loader's `IInv` and `ServerPart`. `CallInv` says what a call of the loader is for: the key
  of a call in flight is that of the client's block, or of the worker's task. `LoaderStep` then shows that every step of the
  server is one of the loader's or leaves it alone: `UsesBlockLoaderHolds`, so all theorems of
  `BlockLoaderProofs` hold inside the server (`ServerSharesDownloads` states them of it), and `DeliversItsBlockHolds`: what a body writes is its block,
  whoever downloaded it.
* `SessionInv`, `TaskInv` and `PendingInv` hold each other up. A session belongs to one client, which is what keeps a
  stopped session's neighbours alive. The flag of a session is set exactly while it has a task, and its tasks are counted by
  positions of the queue, so that a session's queued task and the one the worker has taken are never both there. The keys of
  the tasks differ, which is why erasing one task's key leaves no other task without its own.
* `AheadInv` adds to `AtMostOneBlockAhead` that a session allows no more than the block after its client's: the
  worker may queue long after the client advanced. `ScanInv`: the session that is scanned for is alive, as nobody can stop
  it while `prefetch_mutex_` is held.
* `WithoutLemma` and `TailLemma`: what stopping a session or taking a task leaves of the queue is the other tasks, each once.

### `MailServiceProofs`

For any clients, databases (shared or not), paths, versions, batch size and bound on
the mails; the assumptions are `CountAssumption` (a version has a block),
`DbAssumption`, `NamesAssumption` (encryption gives distinct paths distinct
names and is the identity or leaves the set of paths) and `ScopesAssumption`.

* `IInv` is `StoreInv` and, for each client, `ClientInv`. `StoreInv` adds to
  `IndexIsGrounded` that mails carry block numbers of their file and that the
  index has at most one entry per block. `ClientInv` says what a client's locals
  mean at each place: a fetched batch consists of mails with metadata, an upload's
  blocks outside `missing` each have a mail, the uid to be recorded is that of the
  block just sent. Without the last two `IndexIsGrounded` and `UploadLeavesNoGap`
  are not inductive: the step that writes the index trusts what an earlier step, with
  other clients in between, left in the locals. Mails never lose what they said, so
  the steps of others keep it. Lemmas `UpsertLemma`, `RemoveLemma`, `AppendLemma`,
  `ExpungeLemma` settle the stores, `StepLemma` reduces a step to the store part and the
  client that moves.
* `WholeUnlessMixedHolds`: entries of one version have different numbers from `1`
  to `n`, so `n` of them are all of them.
* `DedupKeepsNewestHolds`: if the entries known are just those of the mails `U`,
  the code's `IsComplete` and `MaxUid` are those of `U`; of the newest complete
  version the newest mail of each block is kept, so it stays complete with the same
  greatest uid, and no other version gains.
* `DeletedIsForgottenHolds`, under `OwnDatabases` (no two clients on one database; with
  two the property is false, section 5): `Deleting` follows a deletion. Between STORE and EXPUNGE
  its mail may vanish through another client's EXPUNGE, so the invariant says "marked or gone"
  there; `StaysLemma` shows that no step of anybody brings a mail back or unmarks it, `LocalLemma`
  that nobody else touches the index.
* `RefreshHealsHolds`: `Covered` says that during a refresh each mail of mailfs still in the mailbox is to
  be fetched, is fetched, or has its block indexed by a mail that is there (`UpsertHeals`: the entry
  an upsert replaces is of the same block). It needs `IndexIsGrounded`: that a uid is in the index must
  mean that the index has the mail's own block.

### `DownloadProofs`

For any processes, files, versions, digests and records (`CountAssumption`,
`RecordsAssumption`, `PlacesAssumption`: `spoiled` can tell digests from files). `TypeCorrect`: one lemma for each call of the file system, one step for
each action. `SavedIsWholeHolds`: `Spec => [](Alone => SavedIsWhole)`, where `Alone` says that
there is at most one process; `download_pair` shows that it cannot be dropped. `SavedInv` adds
that no open handle is on a final name and that at `Save` the temporary file still is what
`Verify` compared, which is exactly what a second process breaks.

`RefusedForACauseHolds` and `BlocksKeptHolds`, also for a process that is alone, rest on `CauseInv`. `BlocksFit`
speaks of every block file on the disk, whichever dead download left it: in a directory that nothing spoiled
it has its own block of some version with that digest. `Output` says what the temporary file holds halfway through the copy. When
all is copied and there is no twin, the versions in the blocks can only be the record's, so the MD5 matches (`CauseLemma`). `Matches`
carries the comparison over the rename into the sweep, the only step that takes a block file away.

### `ImapClientProofs`

For any mailboxes, any numbers of retries and any number of broken connections and late answers
(`RetriesAssumption`, `LossesAssumption`, `MailboxAssumption`), so for stacks of any height.

* `SafetyInv` makes `RightMailbox` inductive. `StackInv`: above the bottom there are only `LIST` and
  `SELECT` of the mailbox in `selected_mailbox_`, and every call below the top waits to be sent again with an
  attempt left. `BottomInv`: the bottom call is the service's, and while the service gives
  commands, its mailbox is the selected one. `ReadyInv`: when such a command is next on a
  session that is logged in, the server has its mailbox open. The last needs the other
  two: the `SELECT` that ends a reconnect is for `selected_mailbox_`, and the command
  that is sent next waits for exactly that mailbox.
* `CountInv`: how often the server can have run a command is bounded by `busy` and `attempt` of the
  bottom call, wherever the calls above it are. `TimesLemma` turns it into `MaxRuns`.
* `ClientImplementsMailTransport`: each action maps to one of `MailTransport` (`SelectOk` at the bottom
  to `Begin`, `Command` to `Give`, an answer to `Answered`, a lost answer to `Unheard`, an exception to `End`)
  or, inside a reconnect, to a stutter.

### `AndroidBridgeProofs`

For any callers, objects and storage with the assumptions `CallersAssumption`, `NoneAssumption` and
`OneStarterAssumption`: all safety properties of `AndroidBridge`. `MonitorInv` gives `OneIsBusy`, that only one call of `start` or `stop` is on
its way. `PlaceInv` says what such a call may still rely on, several blocks after it looked:
`running` stays false from `CheckRunning` to `Publish`, there is no old server when the new one is made,
no thread at all when a server is destroyed. `ThreadInv`: the only thread is that of `server`, somebody holds
its handle, and `running` is true until it ends. Without them no property is inductive, since the step that
would destroy a served server looks at none of this. `RunningIsServed` and `ServerOutlivesWorker` then follow at once.

### `FormatsProofs`: ranges

For any files, headers and default block size with `FilesAssumption` (`WellFormed`: each block has
a byte, its size in the index is its own or is missing where the default is right, the file's size
is known or there is one block), `HeadersAssumption` and `DefaultAssumption`.

`BodyIsRequestedHolds` rests on `IInv`. `OffsetsInv`: the offsets that are there are the positions of
the blocks' first bytes, and the last one is the file's end once it is fixed. `RangeInv`: an accepted
range lies in the file and is what the header asks for. `CursorInv`: the block that seeking has reached begins at or before
`range_start`, and in the stream the byte that block and offset lead to is number `range_end + 1 - remaining`. `BodyInv`: the chunks written so far are
consecutive and end just before that byte. `PlaceInv` says what is untouched before a range is accepted. The property alone says nothing of the numbers the next chunk is
computed from. `TypeCorrect` says that no unsigned subtraction wraps.

### `FormatsProofs`: mailbox names

`ServersAssumption` is all that is assumed of a server: a mailbox has a raw name that is not empty, and either its name is a
text and the raw name its encoding, or the raw name is any text and the name what it is decoded to. Names, lists of mailboxes and the
mailboxes' number are not bounded. A *text* is a sequence of code units with its surrogates paired, which is what `utf8_to_utf16` returns.

The recursive definitions (`Encoding`, `Decoding`, `Reading`, `Unquoting`) are recursive functions; that they exist and agree
when their steps do is proved first, by induction over sets of numbers and of sequences (`StrongInduction`, `SeqInduction`,
`Recursion`, `ReadingExists`). On that rest four round trips, each of which stands for itself:

* `Base64RoundTrip`: after 4g, 4g + 1, 4g + 2 or 4g + 3 digits of an encoding the decoder has put out the bytes that are complete
  and keeps 0, 6, 4 or 2 bits, which are the first ones of the next byte (`Stands`, `DigitStep`). At the end these bits are zero.
* `SegmentRoundTrip`: with it, a segment of any units is decoded to them.
* `NameRoundTrip`: `ReadsAs(x, y)` says that `x` is read as `y` whatever follows it, which is what makes pieces compose: no digit
  is a hyphen, so a segment ends where it should. `Written` is the invariant of the encoder: what it has written is read as
  the units it has seen, but for those that wait, and only behind them may a surrogate lack its other half.
* `QuoteRoundTrip`: the argument of `SELECT` is read by the server as it was before `quote_string`.

`NamesSelectThemselvesHolds` needs, besides, what the parser takes of a line that it does not unescape. `HasTail`: it is what is behind the
last quote of the escaped name. For an encoded name this is again the encoding of a name (`ListedEncoded`: a quote ends a segment, so the
encoder starts afresh behind it), for any other raw name it is a text (`ListedRaw`), and `DecodeIsText` makes a text of it. So each name that is ever shown can be
given back to `select_mailbox_once`, and a line that shows a wanted name and belongs to an encoded mailbox holds exactly the
encoding of this name.

### `MailFormatProofs`

`UploadsAssumption` is all that is assumed: an upload's texts are bytes, its name is not empty and has no slash, blocks count from one.
Names, paths, owners, mailboxes and payloads are not bounded, and nothing is assumed of how they meet the conversions: that is what `Kept` in
the property itself says. Three round trips come first and stand for themselves:

* `PrintableRoundTrip`. `Printed`: what is written of a text is read as the text *however it goes on behind it*, which is what makes
  the step from `s` to one byte more possible. The decoder jumps by one, two or three places, so its reading is shown to exist and to be what the
  model's function is (`ReadingTyped`, `ReadingFixed`, `UnprintingLemma`) by induction on the place, from the end.
* `EncryptionRoundTrip`. `Xor` is made of eight bits (`XorBits`, `OctetBits`), and a bit of a sum of bits taken twice is gone (`XorTwice`);
  the key's byte at a place is the same both times. The result has an even number of hex digits and nothing else, so that
  `decrypt_string` does not take it to be plain.
* `PayloadRoundTrip`. `QuartetRead` shows that four digits give three, two or one byte; the groups of the two directions are at the same places.

`UploadedIsRestorableHolds` rests on the invariant `MailInvariant`: message and upload entry are what `UploadBlock` made of the upload, a rebuilt
entry is what the refresh has to find, a fetched block is the payload. The property alone says nothing of the mail that the later steps read. What
is hard is that the two readings come to the same (`MetadataRead`), and follows in three steps:

* *The text is decoded once more than it was encoded, or not at all.* `NoEscape` says that no = of a text begins what decoding changes;
  then decoding leaves it alone. It is not enough for the values: a = at the end of one would join with what follows it.
  `Sound` is what composes (`SoundInText`, `BodyNoEscape`): no escape begins in a value that ends behind it. A `Kept` text, an encrypted text
  and a subject made of one are sound (`KeptSound`, `EncryptedSound`, `SoundConcat`).
* *The parser finds the lines again.* Pieces between delimiters compose (`PiecesLemma`, `SplitOne`), a line is split at its first colon, also when
  its value has others, and no key is the key of another line (`LineSays`, `BodyLines`). `TryParse` trims the text first, which takes the last
  line's end and nothing of a value (`BodyTrimmed`).
* *The subject says where the block belongs.* A name has no slash, and an encrypted one has none either, so there are three
  parts, and two numbers in the third (`SubjectParsed`).

### Only model-checked

Liveness (`ImplementsFairBlockFetch`, `RequestsEnd`, `CallsEnd`, ...), which is out of the prover's reach. Every safety invariant and
every action property that a passing run checks is a theorem for all values of the constants.

## 11. Not modelled

* The *MIME frame* (headers, boundary, folding), and the JSON and base64 forms of metadata that other programs
  write: parsing without state, whose only contract is the library on the other side. The path
  of the program's own mails through the two parts is modelled.
* *MD5*: equal for equal contents only; collisions are left out. *UTF-8 to UTF-16* is one code unit sequence.
* The *TLS socket*: its effects (open, broken, timed out) are the sessions of `ImapClient`; mbedtls and its handshake are not modelled.
* *Configuration and logging*: read once, or write-only; no state that another part depends on.
* The *command line* is a sequence of the service's operations, each of which is a `call` of `MailService` or `Download`; parsing arguments and printing have no state. Lists, checks and
  playlists are queries of the index and the directory: they change nothing the other operations read.
* The *Java demo*: views over the object modelled in `AndroidBridge`.
* UIDVALIDITY, a local file that changes while it is uploaded, and empty files (section 5).
