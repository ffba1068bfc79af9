-------------------------- MODULE MailServiceProofs --------------------------
(***************************************************************************)
(* Proofs about MailService for every set of clients, databases, paths and *)
(* versions, every batch size and every bound on the mails.                *)
(***************************************************************************)
EXTENDS MailService, SequenceTheorems, FiniteSetTheorems, WellFoundedInduction, TLAPS

(* The mailbox and the index: typed, grounded, at most one entry per block  *)
(* of a file, and no mail with a block number beyond its file's last.       *)
StoreTyped ==
    /\ mails \in Seq(Mail \cup {Junk})
    /\ flagged \subseteq Live
    /\ expunged \subseteq Uids
    /\ row \in [Databases -> [Names -> Versions \cup {NoVersion}]]
    /\ blocks \in [Databases -> SUBSET Block]

BlocksFit ==
    \A u \in Uids : Cacheable(u) => mails[u].seq \in 1..BlockCount[mails[u].version]

BlocksUnique ==
    \A d \in Databases : \A a, b \in blocks[d] : a.name = b.name /\ a.seq = b.seq => a = b

StoreInv == StoreTyped /\ BlocksFit /\ BlocksUnique /\ IndexIsGrounded

(* A client's locals at each place. *)
Uploading(c) ==
    /\ call[c].path \in Paths
    /\ call[c].version \in Versions
    /\ missing[c] \subseteq 1..BlockCount[call[c].version]
    /\ \A s \in 1..BlockCount[call[c].version] \ missing[c] :
         \E u \in Uids : mails[u].path = call[c].path /\ mails[u].seq = s

ClientTyped(c) ==
    /\ call[c] \in Call
    /\ step[c] \in Steps
    /\ todo[c] \subseteq Uids
    /\ batch[c] \subseteq Uids
    /\ missing[c] \subseteq Seqs
    /\ known[c] \subseteq Entry
    /\ \A e \in known[c] : e.uid \in Uids

ClientInv(c) ==
    /\ ClientTyped(c)
    /\ step[c] = "upsert" => batch[c] # {} /\ \A u \in batch[c] : Cacheable(u)
    /\ call[c].op = "upload" => step[c] \in {"append", "record", "done"} /\ Uploading(c)
    /\ step[c] \in {"append", "record"} => call[c].op = "upload" /\ missing[c] # {}
    /\ step[c] = "record" => \E u \in Uids : batch[c] = {u} /\ mails[u] = BlockMail(c)
    /\ step[c] = "done" /\ call[c].op = "upload" => missing[c] = {}

(* The locals are functions of the client. *)
Shape ==
    /\ call = [c \in Clients |-> call[c]]
    /\ step = [c \in Clients |-> step[c]]
    /\ todo = [c \in Clients |-> todo[c]]
    /\ batch = [c \in Clients |-> batch[c]]
    /\ missing = [c \in Clients |-> missing[c]]
    /\ known = [c \in Clients |-> known[c]]

IInv == Shape /\ StoreInv /\ \A c \in Clients : ClientInv(c)

-----------------------------------------------------------------------------
(* A set of natural numbers that is not empty has a least element. *)
LEMMA MinLemma ==
    ASSUME NEW S \in SUBSET Nat, S # {}
    PROVE  Min(S) \in S /\ \A x \in S : Min(S) <= x
<1>1. \E x \in S : \A y \in S : ~(<<y, x>> \in OpToRel(<, Nat))
  BY NatLessThanWellFounded, WFMin
<1>2. PICK x \in S : \A y \in S : ~(<<y, x>> \in OpToRel(<, Nat))
  BY <1>1
<1>3. \A y \in S : x <= y
  <2> TAKE y \in S
  <2>1. <<y, x>> \in Nat \X Nat   OBVIOUS
  <2>2. ~(y < x)   BY <1>2, <2>1 DEF OpToRel
  <2> QED BY <2>2
<1> QED BY <1>3 DEF Min

(* The numbers of a file's blocks are natural numbers. *)
LEMMA SeqsLemma ==
    /\ Seqs \subseteq Nat
    /\ \A v \in Versions : 1..BlockCount[v] \subseteq Seqs
  BY CountAssumption DEF Seqs

(* A foreign mail is not one of ours. *)
LEMMA MailLemma ==
    /\ Junk \notin Mail
    /\ \A m \in Mail : m.path \in Paths /\ m.version \in Versions /\ m.seq \in Seqs
<1>1. Junk \notin Mail
  <2>1. NoName \notin Paths   BY NamesAssumption DEF Names
  <2>2. Junk.path = NoName   BY DEF Junk
  <2> QED BY <2>1, <2>2 DEF Mail
<1> QED BY <1>1 DEF Mail

(* The names of a file are its own. *)
LEMMA NamesLemma ==
    /\ \A p \in Paths : p \in Names /\ Enc[p] \in Names
    /\ \A p, q \in Paths : {p, Enc[p]} \cap {q, Enc[q]} # {} => p = q
  BY NamesAssumption DEF Names

(* Uids are counted from 1. *)
LEMMA UidsLemma ==
    ASSUME mails \in Seq(Mail \cup {Junk})
    PROVE  /\ Len(mails) \in Nat
           /\ Uids = 1..Len(mails)
           /\ Uids \subseteq Nat
           /\ \A u \in Uids : mails[u] \in Mail \cup {Junk}
           /\ \A u \in Uids : Cacheable(u) => mails[u] \in Mail
  BY ElementOfSeq, LenProperties DEF Uids, Cacheable

-----------------------------------------------------------------------------
(* What the steps of the clients have in common: mails stay what they are,  *)
(* and only one client's locals change.                                     *)
Grown == Uids \subseteq Uids' /\ \A u \in Uids : mails'[u] = mails[u]

OnlyClient(c) ==
    /\ call' = [call EXCEPT ![c] = call'[c]]
    /\ step' = [step EXCEPT ![c] = step'[c]]
    /\ todo' = [todo EXCEPT ![c] = todo'[c]]
    /\ batch' = [batch EXCEPT ![c] = batch'[c]]
    /\ missing' = [missing EXCEPT ![c] = missing'[c]]
    /\ known' = [known EXCEPT ![c] = known'[c]]

(* What is said of a client is kept by the steps of the others. *)
LEMMA ClientKept ==
    ASSUME NEW c \in Clients, ClientInv(c), Grown,
           call'[c] = call[c], step'[c] = step[c], todo'[c] = todo[c],
           batch'[c] = batch[c], missing'[c] = missing[c], known'[c] = known[c]
    PROVE  ClientInv(c)'
<1>1. ClientTyped(c)'
  BY DEF ClientInv, ClientTyped, Grown
<1>2. Uploading(c) => Uploading(c)'
  BY DEF Uploading, Grown
<1>3. \A u \in Uids : Cacheable(u) => Cacheable(u)'
  BY DEF Cacheable, Grown
<1>4. BlockMail(c)' = BlockMail(c)
  BY DEF BlockMail
<1>5. (step[c] = "upsert" => batch[c] # {} /\ \A u \in batch[c] : Cacheable(u))'
  BY <1>3 DEF ClientInv, ClientTyped
<1>6. (step[c] = "record" => \E u \in Uids : batch[c] = {u} /\ mails[u] = BlockMail(c))'
  BY <1>4 DEF ClientInv, Grown
<1> QED BY <1>1, <1>2, <1>5, <1>6 DEF ClientInv

(* A step keeps the invariant if it keeps the stores' part and that of the  *)
(* client that moves.                                                       *)
LEMMA StepLemma ==
    ASSUME IInv, NEW c \in Clients, Grown, OnlyClient(c), StoreInv', ClientInv(c)'
    PROVE  IInv'
<1>1. Shape'
  BY DEF IInv, Shape, OnlyClient
<1>2. ASSUME NEW e \in Clients PROVE ClientInv(e)'
  <2>1. CASE e = c   BY <2>1
  <2>2. CASE e # c
    <3>1. /\ call'[e] = call[e] /\ step'[e] = step[e] /\ todo'[e] = todo[e]
          /\ batch'[e] = batch[e] /\ missing'[e] = missing[e] /\ known'[e] = known[e]
      BY <2>2 DEF IInv, Shape, OnlyClient
    <3> QED BY <3>1, ClientKept DEF IInv
  <2> QED BY <2>1, <2>2
<1> QED BY <1>1, <1>2 DEF IInv

(* The stores' part speaks of the mailbox and the index only. *)
LEMMA StoreKept ==
    ASSUME StoreInv, UNCHANGED <<mailVars, indexVars>>
    PROVE  StoreInv' /\ Grown /\ Uids' = Uids
  BY DEF StoreInv, StoreTyped, BlocksFit, BlocksUnique, IndexIsGrounded, mailVars, indexVars,
         Grown, Uids, Live, Cacheable, BlocksOf

(* The invariant implies the types. *)
LEMMA TypeLemma == IInv => TypeOK
<1> SUFFICES ASSUME IInv PROVE TypeOK
  OBVIOUS
<1>1. call \in [Clients -> Call] /\ step \in [Clients -> Steps]
  BY DEF IInv, Shape, ClientInv, ClientTyped
<1>2. todo \in [Clients -> SUBSET Uids] /\ batch \in [Clients -> SUBSET Uids]
  BY DEF IInv, Shape, ClientInv, ClientTyped
<1>3. missing \in [Clients -> SUBSET Seqs] /\ known \in [Clients -> SUBSET Entry]
  BY DEF IInv, Shape, ClientInv, ClientTyped
<1> QED BY <1>1, <1>2, <1>3 DEF TypeOK, IInv, StoreInv, StoreTyped

-----------------------------------------------------------------------------
(* What the steps do to the mailbox and the index. *)

(* An entry whose mail carries this block of this file may be put in. *)
LEMMA UpsertLemma ==
    ASSUME StoreInv, NEW d \in Databases, NEW u \in Uids, Cacheable(u),
           NEW n \in {mails[u].path, Enc[mails[u].path]},
           UpsertMailBlock(d, n, u), UNCHANGED mailVars
    PROVE  StoreInv' /\ Grown
<1> DEFINE new == [name |-> n, seq |-> mails[u].seq, uid |-> u]
<1>1. mails' = mails /\ flagged' = flagged /\ expunged' = expunged /\ Uids' = Uids
  BY DEF mailVars, Uids
<1>2. mails[u] \in Mail /\ u \in Nat
  BY UidsLemma DEF StoreInv, StoreTyped
<1>3. mails[u].path \in Paths /\ mails[u].version \in Versions /\ mails[u].seq \in Seqs
  BY <1>2, MailLemma
<1>4. n \in Names /\ new \in Block
  BY <1>2, <1>3, NamesLemma DEF Block
<1>5. /\ row' = [row EXCEPT ![d][n] = mails[u].version]
      /\ blocks' = [blocks EXCEPT ![d] =
           {b \in blocks[d] : ~(b.name = n /\ b.seq = mails[u].seq)} \cup {new}]
  BY DEF UpsertMailBlock
<1>6. row' \in [Databases -> [Names -> Versions \cup {NoVersion}]]
  BY <1>3, <1>4, <1>5 DEF StoreInv, StoreTyped
<1>7. blocks' \in [Databases -> SUBSET Block]
  BY <1>4, <1>5 DEF StoreInv, StoreTyped
<1>8. StoreTyped'
  BY <1>1, <1>6, <1>7 DEF StoreInv, StoreTyped, Live
<1>9. BlocksFit'
  BY <1>1 DEF StoreInv, BlocksFit, Cacheable
<1>10. /\ \A x \in Databases : x # d => blocks'[x] = blocks[x] /\ row'[x] = row[x]
       /\ blocks'[d] = {b \in blocks[d] : ~(b.name = n /\ b.seq = mails[u].seq)} \cup {new}
       /\ row'[d][n] = mails[u].version
       /\ \A m \in Names : m # n => row'[d][m] = row[d][m]
  BY <1>4, <1>5 DEF StoreInv, StoreTyped
<1>11. BlocksUnique'
  BY <1>10 DEF StoreInv, BlocksUnique
<1>12. IndexIsGrounded'
  <2> SUFFICES ASSUME NEW x \in Databases
               PROVE  /\ \A b \in blocks'[x] :
                           /\ b.uid \in Uids
                           /\ Cacheable(b.uid)
                           /\ b.seq = mails[b.uid].seq
                           /\ b.name \in {mails[b.uid].path, Enc[mails[b.uid].path]}
                           /\ row'[x][b.name] # NoVersion
                      /\ \A m \in Names : row'[x][m] # NoVersion =>
                           \E b \in blocks'[x] : b.name = m /\ mails[b.uid].version = row'[x][m]
    BY <1>1 DEF IndexIsGrounded, Cacheable, BlocksOf
  <2>1. CASE x # d
    BY <2>1, <1>10 DEF StoreInv, IndexIsGrounded, BlocksOf
  <2>2. CASE x = d
    <3>1. \A b \in blocks[d] : b.name \in Names
      BY DEF StoreInv, StoreTyped, Block
    <3>2. mails[u].version # NoVersion
      BY <1>3, NamesAssumption
    <3>3. ASSUME NEW b \in blocks'[d]
          PROVE  /\ b.uid \in Uids
                 /\ Cacheable(b.uid)
                 /\ b.seq = mails[b.uid].seq
                 /\ b.name \in {mails[b.uid].path, Enc[mails[b.uid].path]}
                 /\ row'[d][b.name] # NoVersion
      <4>1. CASE b = new   BY <4>1, <3>2, <1>10
      <4>2. CASE b \in blocks[d]
        <5>1. row'[d][b.name] # NoVersion
          BY <4>2, <3>1, <3>2, <1>10 DEF StoreInv, IndexIsGrounded
        <5> QED BY <5>1, <4>2 DEF StoreInv, IndexIsGrounded
      <4> QED BY <4>1, <4>2, <1>10
    <3>4. ASSUME NEW m \in Names, row'[d][m] # NoVersion
          PROVE  \E b \in blocks'[d] : b.name = m /\ mails[b.uid].version = row'[d][m]
      <4>1. CASE m = n
        <5>1. new \in blocks'[d] /\ new.name = m /\ new.uid = u
          BY <4>1, <1>10
        <5> QED BY <5>1, <4>1, <1>10
      <4>2. CASE m # n
        <5>1. PICK b \in blocks[d] : b.name = m /\ mails[b.uid].version = row[d][m]
          BY <4>2, <3>4, <1>10 DEF StoreInv, IndexIsGrounded, BlocksOf
        <5>2. b \in blocks'[d]
          BY <5>1, <4>2, <1>10
        <5> QED BY <5>1, <5>2, <4>2, <1>10
      <4> QED BY <4>1, <4>2
    <3> QED BY <2>2, <3>3, <3>4
  <2> QED BY <2>1, <2>2
<1> QED BY <1>1, <1>8, <1>9, <1>11, <1>12 DEF StoreInv, Grown

(* Files that go, go with all their blocks. *)
LEMMA RemoveLemma ==
    ASSUME StoreInv, NEW d \in Databases, NEW hit, UNCHANGED mailVars,
           row' = [row EXCEPT ![d] = [n \in Names |-> IF n \in hit THEN NoVersion ELSE @[n]]],
           blocks' = [blocks EXCEPT ![d] = {b \in @ : b.name \notin hit}]
    PROVE  StoreInv' /\ Grown
<1>1. mails' = mails /\ flagged' = flagged /\ expunged' = expunged /\ Uids' = Uids
  BY DEF mailVars, Uids
<1>2. /\ \A x \in Databases : x # d => blocks'[x] = blocks[x] /\ row'[x] = row[x]
      /\ blocks'[d] = {b \in blocks[d] : b.name \notin hit}
      /\ \A n \in Names : row'[d][n] = IF n \in hit THEN NoVersion ELSE row[d][n]
  BY DEF StoreInv, StoreTyped
<1>3. row' \in [Databases -> [Names -> Versions \cup {NoVersion}]]
  BY DEF StoreInv, StoreTyped
<1>4. blocks' \in [Databases -> SUBSET Block]
  BY DEF StoreInv, StoreTyped
<1>5. StoreTyped'
  BY <1>1, <1>3, <1>4 DEF StoreInv, StoreTyped, Live
<1>6. BlocksFit'
  BY <1>1 DEF StoreInv, BlocksFit, Cacheable
<1>7. BlocksUnique'
  BY <1>2 DEF StoreInv, BlocksUnique
<1>8. \A b \in blocks[d] : b.name \in Names
  BY DEF StoreInv, StoreTyped, Block
<1>9. IndexIsGrounded'
  <2> SUFFICES ASSUME NEW x \in Databases
               PROVE  /\ \A b \in blocks'[x] :
                           /\ b.uid \in Uids
                           /\ Cacheable(b.uid)
                           /\ b.seq = mails[b.uid].seq
                           /\ b.name \in {mails[b.uid].path, Enc[mails[b.uid].path]}
                           /\ row'[x][b.name] # NoVersion
                      /\ \A m \in Names : row'[x][m] # NoVersion =>
                           \E b \in blocks'[x] : b.name = m /\ mails[b.uid].version = row'[x][m]
    BY <1>1 DEF IndexIsGrounded, Cacheable, BlocksOf
  <2>1. CASE x # d
    BY <2>1, <1>2 DEF StoreInv, IndexIsGrounded, BlocksOf
  <2>2. CASE x = d
    BY <2>2, <1>2, <1>8 DEF StoreInv, IndexIsGrounded, BlocksOf
  <2> QED BY <2>1, <2>2
<1> QED BY <1>1, <1>5, <1>6, <1>7, <1>9 DEF StoreInv, Grown

(* A mail arrives. *)
LEMMA AppendLemma ==
    ASSUME StoreInv, NEW m \in Mail \cup {Junk},
           m \in Mail => m.seq \in 1..BlockCount[m.version],
           mails' = Append(mails, m), UNCHANGED <<flagged, expunged, indexVars>>
    PROVE  /\ StoreInv' /\ Grown
           /\ Uids' = Uids \cup {Len(mails) + 1}
           /\ mails'[Len(mails) + 1] = m
<1>1. mails \in Seq(Mail \cup {Junk})
  BY DEF StoreInv, StoreTyped
<1>2. Uids = 1..Len(mails) /\ Len(mails) \in Nat
  BY <1>1, UidsLemma
<1>3. /\ mails' \in Seq(Mail \cup {Junk})
      /\ Len(mails') = Len(mails) + 1
      /\ \A i \in 1..Len(mails) : mails'[i] = mails[i]
      /\ mails'[Len(mails) + 1] = m
  BY <1>1, AppendProperties
<1>4. Uids' = Uids \cup {Len(mails) + 1}
  <2>1. Uids' = 1..Len(mails')
    BY <1>3, LenProperties DEF Uids
  <2> QED BY <2>1, <1>2, <1>3
<1>5. Grown
  BY <1>2, <1>3, <1>4 DEF Grown
<1>6. row' = row /\ blocks' = blocks /\ flagged' = flagged /\ expunged' = expunged
  BY DEF indexVars
<1>7. StoreTyped'
  BY <1>3, <1>4, <1>6 DEF StoreInv, StoreTyped, Live
<1>8. BlocksFit'
  <2> SUFFICES ASSUME NEW u \in Uids', mails'[u] # Junk
               PROVE  mails'[u].seq \in 1..BlockCount[mails'[u].version]
    BY DEF BlocksFit, Cacheable
  <2>1. CASE u \in Uids
    BY <2>1, <1>5 DEF StoreInv, BlocksFit, Cacheable, Grown
  <2>2. CASE u = Len(mails) + 1
    BY <2>2, <1>3
  <2> QED BY <2>1, <2>2, <1>4
<1>9. BlocksUnique'
  BY <1>6 DEF StoreInv, BlocksUnique
<1>10. IndexIsGrounded'
  <2>1. ASSUME NEW d \in Databases, NEW b \in blocks[d]
        PROVE  b.uid \in Uids /\ b.uid \in Uids' /\ mails'[b.uid] = mails[b.uid]
    BY <1>5 DEF StoreInv, IndexIsGrounded, Grown
  <2>2. ASSUME NEW d \in Databases, NEW b \in blocks'[d]
        PROVE  /\ b.uid \in Uids'
               /\ mails'[b.uid] # Junk
               /\ b.seq = mails'[b.uid].seq
               /\ b.name \in {mails'[b.uid].path, Enc[mails'[b.uid].path]}
               /\ row'[d][b.name] # NoVersion
    BY <1>6, <2>1 DEF StoreInv, IndexIsGrounded, Cacheable
  <2>3. ASSUME NEW d \in Databases, NEW n \in Names, row'[d][n] # NoVersion
        PROVE  \E b \in BlocksOf(d, n)' : mails'[b.uid].version = row'[d][n]
    <3>1. PICK b \in BlocksOf(d, n) : mails[b.uid].version = row[d][n]
      BY <2>3, <1>6 DEF StoreInv, IndexIsGrounded
    <3>2. b \in blocks[d] /\ b \in BlocksOf(d, n)'
      BY <3>1, <1>6 DEF BlocksOf
    <3> QED BY <3>1, <3>2, <2>1, <1>6
  <2>4. \A d \in Databases, n \in Names : row'[d][n] # NoVersion =>
          \E b \in BlocksOf(d, n)' : mails'[b.uid].version = row'[d][n]
    BY <2>3
  <2>5. \A d \in Databases : \A b \in blocks'[d] :
          /\ b.uid \in Uids'
          /\ mails'[b.uid] # Junk
          /\ b.seq = mails'[b.uid].seq
          /\ b.name \in {mails'[b.uid].path, Enc[mails'[b.uid].path]}
          /\ row'[d][b.name] # NoVersion
    BY <2>2
  <2> QED BY <2>4, <2>5 DEF IndexIsGrounded, Cacheable
<1> QED BY <1>3, <1>4, <1>5, <1>7, <1>8, <1>9, <1>10 DEF StoreInv

(* Mails are marked or deleted. *)
LEMMA ExpungeLemma ==
    ASSUME StoreInv, expunged' \subseteq Uids, flagged' \subseteq Uids \ expunged',
           UNCHANGED <<mails, indexVars>>
    PROVE  StoreInv' /\ Grown /\ Uids' = Uids
<1>1. mails' = mails /\ row' = row /\ blocks' = blocks /\ Uids' = Uids
  BY DEF indexVars, Uids
<1>2. StoreTyped'
  BY <1>1 DEF StoreInv, StoreTyped, Live
<1>3. BlocksFit' /\ BlocksUnique'
  BY <1>1 DEF StoreInv, BlocksFit, BlocksUnique, Cacheable
<1>4. IndexIsGrounded'
  BY <1>1 DEF StoreInv, IndexIsGrounded, Cacheable, BlocksOf
<1> QED BY <1>1, <1>2, <1>3, <1>4 DEF StoreInv, Grown

-----------------------------------------------------------------------------
(* The steps of cache_mailbox. *)

(* Ending a call, or its next one throwing, leaves nothing behind. *)
LEMMA ForgottenStep ==
    ASSUME IInv, NEW c \in Clients, Forgotten(c), UNCHANGED <<mailVars, indexVars>>
    PROVE  IInv'
<1>1. StoreInv' /\ Grown /\ Uids' = Uids
  BY StoreKept DEF IInv
<1>2. /\ OnlyClient(c)
      /\ call'[c] = NoCall /\ step'[c] = "idle" /\ todo'[c] = {}
      /\ batch'[c] = {} /\ missing'[c] = {} /\ known'[c] = {}
  BY DEF IInv, Shape, Forgotten, Goto, OnlyClient
<1>3. ClientTyped(c)'
  BY <1>2 DEF ClientTyped, Call, Steps, NoCall
<1>4. ClientInv(c)'
  BY <1>2, <1>3 DEF ClientInv, NoCall
<1> QED BY <1>1, <1>2, <1>4, StepLemma

(* Beginning a refresh, a deletion or a deduplication. *)
LEMMA BeginStep ==
    ASSUME IInv, NEW c \in Clients, NEW what \in Call, Begin(c, what),
           what.op # "upload",
           NEW s \in {"search", "flag", "survey"}, Goto(c, s),
           NEW U \in SUBSET Uids, todo' = [todo EXCEPT ![c] = U],
           UNCHANGED <<batch, missing, known>>
    PROVE  IInv'
<1>1. StoreInv' /\ Grown /\ Uids' = Uids
  BY StoreKept DEF IInv, Begin
<1>2. /\ OnlyClient(c)
      /\ call'[c] = what /\ step'[c] = s /\ todo'[c] = U
      /\ batch'[c] = batch[c] /\ missing'[c] = missing[c] /\ known'[c] = known[c]
  BY DEF IInv, Shape, Begin, Goto, OnlyClient
<1>3. ClientTyped(c)'
  BY <1>1, <1>2 DEF IInv, ClientInv, ClientTyped, Steps
<1>4. ClientInv(c)'
  BY <1>2, <1>3 DEF ClientInv
<1> QED BY <1>1, <1>2, <1>4, StepLemma

(* cache_mailbox is called. *)
LEMMA CacheMailboxStep ==
    ASSUME IInv, NEW c \in Clients, CacheMailbox(c)
    PROVE  IInv'
<1>1. [NoCall EXCEPT !.op = "cache"] \in Call
  BY DEF NoCall, Call
<1>2. todo' = [todo EXCEPT ![c] = todo[c]] /\ todo[c] \in SUBSET Uids
  BY DEF CacheMailbox, IInv, Shape, ClientInv, ClientTyped
<1> QED BY <1>1, <1>2, BeginStep DEF CacheMailbox, NoCall

(* delete_message_uid is called. *)
LEMMA DeleteMessageUidStep ==
    ASSUME IInv, NEW c \in Clients, NEW u \in Uids, DeleteMessageUid(c, u)
    PROVE  IInv'
<1>1. [NoCall EXCEPT !.op = "delete"] \in Call
  BY DEF NoCall, Call
<1> QED BY <1>1, BeginStep DEF DeleteMessageUid, NoCall

(* deduplicate_mailbox is called. *)
LEMMA DeduplicateMailboxStep ==
    ASSUME IInv, NEW c \in Clients, NEW scope \in SUBSET Names, DeduplicateMailbox(c, scope)
    PROVE  IInv'
<1>1. [NoCall EXCEPT !.op = "dedup", !.scope = scope] \in Call
  BY DEF NoCall, Call
<1>2. todo' = [todo EXCEPT ![c] = todo[c]] /\ todo[c] \in SUBSET Uids
  BY DEF DeduplicateMailbox, IInv, Shape, ClientInv, ClientTyped
<1> QED BY <1>1, <1>2, BeginStep DEF DeduplicateMailbox, NoCall

(* A search of the mailbox, of a refresh or of a deduplication. *)
LEMMA SearchStep ==
    ASSUME IInv, NEW c \in Clients, Search(c) \/ Survey(c)
    PROVE  IInv'
<1>1. StoreInv' /\ Grown /\ Uids' = Uids
  BY StoreKept DEF IInv, Search, Survey
<1>2. /\ OnlyClient(c)
      /\ call'[c] = call[c] /\ step'[c] \in {"compare", "list"} /\ todo'[c] = Live
      /\ batch'[c] = batch[c] /\ missing'[c] = missing[c] /\ known'[c] = known[c]
  BY DEF IInv, Shape, Search, Survey, Goto, OnlyClient
<1>3. step[c] \in {"search", "survey"} /\ call[c].op # "upload"
  BY DEF IInv, ClientInv, Search, Survey
<1>4. ClientTyped(c)'
  BY <1>1, <1>2 DEF IInv, ClientInv, ClientTyped, Live, Steps
<1>5. ClientInv(c)'
  BY <1>2, <1>3, <1>4 DEF ClientInv
<1> QED BY <1>1, <1>2, <1>5, StepLemma

(* Caching goes on: the uids to fetch are uids, those to put into the index *)
(* are of mails with metadata.                                              *)
LEMMA CachingLemma ==
    ASSUME IInv, NEW c \in Clients, StoreInv', Grown, mails' = mails,
           step[c] \in {"compare", "fetch", "upsert"},
           NEW t \in SUBSET Uids, NEW b \in SUBSET Uids, \A u \in b : Cacheable(u),
           Caching(c, t, b), UNCHANGED <<call, missing, known>>
    PROVE  IInv'
<1>1. Uids' = Uids
  BY DEF Uids
<1>2. /\ OnlyClient(c)
      /\ call'[c] = call[c] /\ todo'[c] = t /\ batch'[c] = b
      /\ step'[c] = IF b # {} THEN "upsert" ELSE IF t # {} THEN "fetch" ELSE "done"
      /\ missing'[c] = missing[c] /\ known'[c] = known[c]
  BY DEF IInv, Shape, Caching, Goto, OnlyClient
<1>3. call[c].op # "upload"
  BY DEF IInv, ClientInv
<1>4. ClientTyped(c)'
  BY <1>1, <1>2 DEF IInv, ClientInv, ClientTyped, Steps
<1>5. ClientInv(c)'
  BY <1>2, <1>3, <1>4 DEF ClientInv, Cacheable
<1> QED BY <1>2, <1>5, StepLemma

(* The uids to fetch are settled. *)
LEMMA CompareStep ==
    ASSUME IInv, NEW c \in Clients, Compare(c)
    PROVE  IInv'
<1>1. StoreInv' /\ Grown /\ mails' = mails
  BY StoreKept DEF IInv, Compare, mailVars
<1>2. todo[c] \ IndexedUids(Db[c]) \in SUBSET Uids
  BY DEF IInv, ClientInv, ClientTyped
<1> QED BY <1>1, <1>2, CachingLemma DEF Compare

(* A batch is fetched. *)
LEMMA FetchStep ==
    ASSUME IInv, NEW c \in Clients, Fetch(c)
    PROVE  IInv'
<1>1. StoreInv' /\ Grown /\ mails' = mails
  BY StoreKept DEF IInv, Fetch, mailVars
<1> DEFINE b == NextBatch(todo[c])
           f == {u \in b \cap Live : Cacheable(u)}
<1>2. todo[c] \ b \in SUBSET Uids /\ f \in SUBSET Uids
  BY DEF IInv, ClientInv, ClientTyped, Live
<1>3. Caching(c, todo[c] \ b, f)
  BY DEF Fetch
<1> HIDE DEF b
<1> QED BY <1>1, <1>2, <1>3, CachingLemma DEF Fetch

(* The batch is put into the index. *)
LEMMA UpsertStep ==
    ASSUME IInv, NEW c \in Clients, Upsert(c)
    PROVE  IInv'
<1> DEFINE u == Min(batch[c])
<1>1. batch[c] \in SUBSET Uids /\ batch[c] # {} /\ (\A w \in batch[c] : Cacheable(w))
      /\ todo[c] \in SUBSET Uids
  BY DEF IInv, ClientInv, ClientTyped, Upsert
<1>2. u \in batch[c]
  <2>1. batch[c] \in SUBSET Nat
    BY <1>1, UidsLemma DEF IInv, StoreInv, StoreTyped
  <2> QED BY <1>1, <2>1, MinLemma
<1>3. UpsertMailBlock(Db[c], mails[u].path, u) /\ Caching(c, todo[c], batch[c] \ {u})
      /\ UNCHANGED mailVars
  BY DEF Upsert
<1>4. Db[c] \in Databases
  BY DbAssumption
<1> HIDE DEF u
<1>5. StoreInv' /\ Grown
  BY <1>1, <1>2, <1>3, <1>4, UpsertLemma DEF IInv
<1>6. batch[c] \ {u} \in SUBSET Uids /\ mails' = mails
  BY <1>1, <1>3 DEF mailVars
<1> QED BY <1>1, <1>3, <1>5, <1>6, CachingLemma DEF Upsert

-----------------------------------------------------------------------------
(* The steps of upload_file. *)

(* upload_file reads which blocks the index has. *)
LEMMA UploadFileStep ==
    ASSUME IInv, NEW c \in Clients, NEW p \in Paths, NEW v \in Versions, UploadFile(c, p, v)
    PROVE  IInv'
<1> DEFINE what == [NoCall EXCEPT !.op = "upload", !.path = p, !.version = v]
           d == Db[c]
           existing == IF row[d][p] # NoVersion THEN p ELSE Enc[p]
           left == 1..BlockCount[v] \ {b.seq : b \in BlocksOf(d, existing)}
<1>1. StoreInv' /\ Grown /\ Uids' = Uids /\ mails' = mails
  BY StoreKept DEF IInv, UploadFile, Begin, mailVars
<1>2. what \in Call /\ what.op = "upload" /\ what.path = p /\ what.version = v
  BY DEF NoCall, Call
<1>3. /\ call' = [call EXCEPT ![c] = what] /\ missing' = [missing EXCEPT ![c] = left]
      /\ step' = [step EXCEPT ![c] = IF left = {} THEN "done" ELSE "append"]
      /\ UNCHANGED <<todo, batch, known>>
  BY DEF UploadFile, Begin, Goto
<1>4. left \subseteq 1..BlockCount[v] /\ left \subseteq Seqs
  BY SeqsLemma
<1>5. d \in Databases /\ existing \in {p, Enc[p]}
  BY DbAssumption
<1>6. \A s \in 1..BlockCount[v] \ left : \E u \in Uids : mails[u].path = p /\ mails[u].seq = s
  <2> TAKE s \in 1..BlockCount[v] \ left
  <2>1. PICK b \in blocks[d] : b.name = existing /\ b.seq = s
    BY DEF BlocksOf
  <2>2. /\ b.uid \in Uids /\ Cacheable(b.uid) /\ b.seq = mails[b.uid].seq
        /\ b.name \in {mails[b.uid].path, Enc[mails[b.uid].path]}
    BY <2>1, <1>5 DEF IInv, StoreInv, IndexIsGrounded
  <2>3. mails[b.uid].path \in Paths
    BY <2>2, UidsLemma, MailLemma DEF IInv, StoreInv, StoreTyped
  <2>4. mails[b.uid].path = p
    BY <2>1, <2>2, <2>3, <1>5, NamesLemma
  <2> QED BY <2>1, <2>2, <2>4
<1> HIDE DEF what, left
<1>7. /\ OnlyClient(c)
      /\ call'[c] = what /\ missing'[c] = left
      /\ step'[c] = IF left = {} THEN "done" ELSE "append"
      /\ todo'[c] = todo[c] /\ batch'[c] = batch[c] /\ known'[c] = known[c]
  BY <1>3 DEF IInv, Shape, OnlyClient
<1>8. ClientTyped(c)'
  BY <1>1, <1>2, <1>4, <1>7 DEF IInv, ClientInv, ClientTyped, Steps
<1>9. Uploading(c)'
  BY <1>1, <1>2, <1>4, <1>6, <1>7 DEF Uploading
<1>10. ClientInv(c)'
  BY <1>2, <1>7, <1>8, <1>9 DEF ClientInv
<1> QED BY <1>1, <1>7, <1>10, StepLemma

(* The block being uploaded makes a mail of the file. *)
LEMMA BlockMailLemma ==
    ASSUME IInv, NEW c \in Clients, step[c] \in {"append", "record"}
    PROVE  /\ call[c].op = "upload" /\ Uploading(c)
           /\ Min(missing[c]) \in missing[c]
           /\ BlockMail(c) \in Mail
           /\ BlockMail(c).seq \in 1..BlockCount[BlockMail(c).version]
<1>1. call[c].op = "upload" /\ Uploading(c) /\ missing[c] # {}
  BY DEF IInv, ClientInv
<1>2. missing[c] \subseteq Seqs
  BY DEF IInv, ClientInv, ClientTyped
<1>3. Min(missing[c]) \in missing[c]
  <2>1. missing[c] \in SUBSET Nat   BY <1>2, SeqsLemma
  <2> QED BY <2>1, <1>1, MinLemma
<1> QED BY <1>1, <1>2, <1>3 DEF Uploading, BlockMail, Mail

(* A block whose mail has arrived need not be uploaded any more. *)
LEMMA NextBlockLemma ==
    ASSUME IInv, NEW c \in Clients, step[c] \in {"append", "record"},
           StoreInv', Grown, NEW w \in Uids', mails'[w] = BlockMail(c),
           NextBlock(c), UNCHANGED <<call, todo, known>>,
           NEW b \in SUBSET Uids', batch' = [batch EXCEPT ![c] = b]
    PROVE  IInv'
<1> DEFINE m == Min(missing[c])
           left == missing[c] \ {m}
<1>1. Uploading(c) /\ m \in missing[c] /\ call[c].op = "upload"
  BY BlockMailLemma
<1>2. missing' = [missing EXCEPT ![c] = left]
      /\ step' = [step EXCEPT ![c] = IF left = {} THEN "done" ELSE "append"]
  BY DEF NextBlock, Goto
<1>3. mails'[w].path = call[c].path /\ mails'[w].seq = m
  BY DEF BlockMail
<1> HIDE DEF m
<1>4. /\ OnlyClient(c)
      /\ call'[c] = call[c] /\ todo'[c] = todo[c] /\ known'[c] = known[c]
      /\ batch'[c] = b /\ missing'[c] = left
      /\ step'[c] = IF left = {} THEN "done" ELSE "append"
  BY <1>2 DEF IInv, Shape, OnlyClient
<1>5. ClientTyped(c)'
  BY <1>4 DEF IInv, ClientInv, ClientTyped, Steps, Grown
<1>6. Uploading(c)'
  <2>1. ASSUME NEW s \in 1..BlockCount[call[c].version] \ left
        PROVE  \E u \in Uids' : mails'[u].path = call[c].path /\ mails'[u].seq = s
    <3>1. CASE s = m   BY <3>1, <1>3
    <3>2. CASE s # m   BY <3>2, <1>1 DEF Uploading, Grown
    <3> QED BY <3>1, <3>2
  <2> QED BY <2>1, <1>1, <1>4 DEF Uploading
<1>7. ClientInv(c)'
  BY <1>1, <1>4, <1>5, <1>6 DEF ClientInv
<1> QED BY <1>4, <1>7, StepLemma

(* A block's mail is sent. *)
LEMMA AppendMessageStep ==
    ASSUME IInv, NEW c \in Clients, AppendMessage(c)
    PROVE  IInv'
<1> DEFINE w == Len(mails) + 1
<1>1. step[c] = "append" /\ mails' = Append(mails, BlockMail(c))
      /\ UNCHANGED <<flagged, expunged, indexVars, call, todo, known>>
  BY DEF AppendMessage
<1>2. /\ call[c].op = "upload" /\ Uploading(c)
      /\ BlockMail(c) \in Mail
      /\ BlockMail(c).seq \in 1..BlockCount[BlockMail(c).version]
  BY <1>1, BlockMailLemma
<1>3. StoreInv' /\ Grown /\ Uids' = Uids \cup {w} /\ mails'[w] = BlockMail(c)
  BY <1>1, <1>2, AppendLemma DEF IInv
<1> HIDE DEF w
<1>4. CASE NextBlock(c) /\ UNCHANGED batch
  <2>1. batch' = [batch EXCEPT ![c] = batch[c]] /\ batch[c] \in SUBSET Uids'
    BY <1>4, <1>3 DEF IInv, Shape, ClientInv, ClientTyped
  <2> QED BY <2>1, <1>1, <1>3, <1>4, NextBlockLemma
<1>5. CASE batch' = [batch EXCEPT ![c] = {w}] /\ Goto(c, "record") /\ UNCHANGED missing
  <2>1. /\ OnlyClient(c)
        /\ call'[c] = call[c] /\ todo'[c] = todo[c] /\ known'[c] = known[c]
        /\ batch'[c] = {w} /\ missing'[c] = missing[c] /\ step'[c] = "record"
    BY <1>1, <1>5 DEF IInv, Shape, OnlyClient, Goto
  <2>2. ClientTyped(c)'
    BY <2>1, <1>3 DEF IInv, ClientInv, ClientTyped, Steps, Grown
  <2>3. Uploading(c)'
    BY <2>1, <1>2, <1>3 DEF Uploading, Grown
  <2>4. BlockMail(c)' = BlockMail(c) /\ missing[c] # {}
    BY <2>1, <1>1 DEF BlockMail, IInv, ClientInv
  <2>5. ClientInv(c)'
    BY <2>1, <2>2, <2>3, <2>4, <1>2, <1>3 DEF ClientInv
  <2> QED BY <2>1, <2>5, <1>3, StepLemma
<1> QED BY <1>4, <1>5 DEF AppendMessage, w

(* A mail that arrives without any client's locals changing. *)
LEMMA ArrivalLemma ==
    ASSUME IInv, NEW m \in Mail \cup {Junk},
           m \in Mail => m.seq \in 1..BlockCount[m.version],
           mails' = Append(mails, m), UNCHANGED <<flagged, expunged, indexVars, clientVars>>
    PROVE  IInv'
<1>1. StoreInv' /\ Grown
  BY AppendLemma DEF IInv
<1>2. Shape' /\ \A c \in Clients : ClientInv(c)'
  BY <1>1, ClientKept DEF IInv, Shape, clientVars
<1> QED BY <1>1, <1>2 DEF IInv

(* A block's mail is sent and its reply lost. *)
LEMMA AppendUnheardStep ==
    ASSUME IInv, NEW c \in Clients, AppendUnheard(c)
    PROVE  IInv'
<1>1. BlockMail(c) \in Mail /\ BlockMail(c).seq \in 1..BlockCount[BlockMail(c).version]
  BY BlockMailLemma DEF AppendUnheard
<1> QED BY <1>1, ArrivalLemma DEF AppendUnheard

(* Somebody else's mail arrives. *)
LEMMA OtherMailStep == ASSUME IInv, OtherMail PROVE IInv'
  BY ArrivalLemma, MailLemma DEF OtherMail

(* The block that was sent is put into the index. *)
LEMMA RecordStep ==
    ASSUME IInv, NEW c \in Clients, Record(c)
    PROVE  IInv'
<1>1. PICK u \in Uids : batch[c] = {u} /\ mails[u] = BlockMail(c)
  BY DEF IInv, ClientInv, Record
<1>2. BlockMail(c) \in Mail /\ BlockMail(c).path = call[c].path
  BY BlockMailLemma DEF Record, BlockMail
<1>3. Min(batch[c]) = u
  <2>1. batch[c] \in SUBSET Nat /\ batch[c] # {}
    BY <1>1, UidsLemma DEF IInv, StoreInv, StoreTyped
  <2> QED BY <2>1, <1>1, MinLemma
<1>4. UpsertMailBlock(Db[c], Enc[mails[u].path], u) /\ UNCHANGED mailVars
  BY <1>1, <1>2, <1>3 DEF Record
<1>5. Cacheable(u)
  BY <1>1, <1>2, MailLemma DEF Cacheable
<1>6. StoreInv' /\ Grown
  BY <1>4, <1>5, DbAssumption, UpsertLemma DEF IInv
<1>7. u \in Uids' /\ mails'[u] = BlockMail(c)
  BY <1>1, <1>6 DEF Grown
<1> QED BY <1>6, <1>7, NextBlockLemma DEF Record

-----------------------------------------------------------------------------
(* The steps of delete_message_uid and deduplicate_mailbox. *)

(* A mail is marked. *)
LEMMA FlagStep ==
    ASSUME IInv, NEW c \in Clients, Flag(c)
    PROVE  IInv'
<1>1. step[c] = "flag" /\ call[c].op # "upload"
  BY DEF IInv, ClientInv, Flag
<1>2. StoreInv' /\ Grown /\ Uids' = Uids
  BY ExpungeLemma DEF IInv, StoreInv, StoreTyped, Flag, Live
<1>3. /\ OnlyClient(c)
      /\ call'[c] = call[c] /\ step'[c] = "expunge" /\ todo'[c] = todo[c]
      /\ batch'[c] = batch[c] /\ missing'[c] = missing[c] /\ known'[c] = {}
  BY DEF IInv, Shape, Flag, Goto, OnlyClient
<1>4. ClientTyped(c)'
  BY <1>2, <1>3 DEF IInv, ClientInv, ClientTyped, Steps
<1>5. ClientInv(c)'
  BY <1>1, <1>3, <1>4 DEF ClientInv
<1> QED BY <1>2, <1>3, <1>5, StepLemma

(* The marked mails are deleted. *)
LEMMA ExpungeStep ==
    ASSUME IInv, NEW c \in Clients, Expunge(c)
    PROVE  IInv'
<1>1. step[c] = "expunge" /\ call[c].op # "upload"
  BY DEF IInv, ClientInv, Expunge
<1>2. StoreInv' /\ Grown /\ Uids' = Uids
  BY ExpungeLemma DEF IInv, StoreInv, StoreTyped, Expunge, Live
<1>3. /\ OnlyClient(c)
      /\ call'[c] = call[c] /\ step'[c] \in {"forget", "clear", "flag"} /\ todo'[c] \subseteq todo[c]
      /\ batch'[c] = batch[c] /\ missing'[c] = missing[c] /\ known'[c] = known[c]
  <2>1. CASE call[c].op = "delete"
    BY <2>1 DEF IInv, Shape, Expunge, Goto, OnlyClient
  <2>2. CASE call[c].op # "delete"
    <3> DEFINE left == todo[c] \ {Min(todo[c])}
    <3>1. /\ todo' = [todo EXCEPT ![c] = left]
          /\ step' = [step EXCEPT ![c] = IF left = {} THEN "clear" ELSE "flag"]
          /\ UNCHANGED <<call, batch, missing, known>>
      BY <2>2 DEF Expunge, Goto
    <3>2. left \subseteq todo[c]
      OBVIOUS
    <3> HIDE DEF left
    <3> QED BY <3>1, <3>2 DEF IInv, Shape, OnlyClient
  <2> QED BY <2>1, <2>2
<1>4. ClientTyped(c)'
  BY <1>2, <1>3 DEF IInv, ClientInv, ClientTyped, Steps
<1>5. ClientInv(c)'
  BY <1>1, <1>3, <1>4 DEF ClientInv
<1> QED BY <1>2, <1>3, <1>5, StepLemma

(* Forgetting a deleted mail, or the whole mailbox. *)
LEMMA ForgetStep ==
    ASSUME IInv, NEW c \in Clients, Forget(c) \/ Clear(c)
    PROVE  IInv'
<1>1. Db[c] \in Databases
  BY DbAssumption
<1>2. StoreInv' /\ Grown
  <2>1. CASE Forget(c)
    BY <2>1, <1>1, RemoveLemma DEF IInv, Forget, RemoveMessageUid
  <2>2. CASE Clear(c)
    <3>1. row' = [row EXCEPT ![Db[c]] = [n \in Names |-> IF n \in Names THEN NoVersion ELSE @[n]]]
      BY <2>2 DEF Clear, ClearMailbox
    <3>2. blocks' = [blocks EXCEPT ![Db[c]] = {b \in @ : b.name \notin Names}]
      <4>1. {b \in blocks[Db[c]] : b.name \notin Names} = {}
        BY <1>1 DEF IInv, StoreInv, StoreTyped, Block
      <4> QED BY <2>2, <4>1 DEF Clear, ClearMailbox
    <3> QED BY <2>2, <3>1, <3>2, <1>1, RemoveLemma DEF IInv, Clear
  <2> QED BY <2>1, <2>2
<1>3. Uids' = Uids
  BY DEF Forget, Clear, mailVars, Uids
<1>4. /\ OnlyClient(c)
      /\ call'[c] = call[c] /\ step'[c] \in {"done", "search"} /\ todo'[c] = todo[c]
      /\ batch'[c] = batch[c] /\ missing'[c] = missing[c] /\ known'[c] = known[c]
  BY DEF IInv, Shape, Forget, Clear, Goto, OnlyClient
<1>5. step[c] \in {"forget", "clear"} /\ call[c].op # "upload"
  BY DEF IInv, ClientInv, Forget, Clear
<1>6. ClientTyped(c)'
  BY <1>3, <1>4 DEF IInv, ClientInv, ClientTyped, Steps
<1>7. ClientInv(c)'
  BY <1>4, <1>5, <1>6 DEF ClientInv
<1> QED BY <1>2, <1>4, <1>7, StepLemma

(* What the index says of the mails it knows. *)
LEMMA IndexEntriesLemma ==
    ASSUME StoreInv, NEW d \in Databases
    PROVE  IndexEntries(d) \subseteq Entry /\ \A e \in IndexEntries(d) : e.uid \in Uids
<1>1. \A b \in blocks[d] :
        /\ b.name \in Names /\ b.seq \in Seqs /\ b.uid \in Nat /\ b.uid \in Uids
        /\ row[d][b.name] \in Versions
  <2>1. \A b \in blocks[d] : b.name \in Names /\ b.seq \in Seqs /\ b.uid \in Nat
    BY DEF StoreInv, StoreTyped, Block
  <2>2. \A b \in blocks[d] : b.uid \in Uids /\ row[d][b.name] # NoVersion
    BY DEF StoreInv, IndexIsGrounded
  <2> QED BY <2>1, <2>2 DEF StoreInv, StoreTyped
<1>2. \A b \in blocks[d] : IndexEntry(d, b) \in Entry /\ IndexEntry(d, b).uid \in Uids
  BY <1>1 DEF IndexEntry, Entry
<1>3. \A u \in IndexedUids(d) : BlockFor(d, u) \in blocks[d]
  BY DEF IndexedUids, BlockFor
<1> QED BY <1>2, <1>3 DEF IndexEntries

(* The entry made of a fetched mail is well typed. *)
LEMMA MailEntryLemma ==
    ASSUME StoreInv, NEW u \in Uids, Cacheable(u)
    PROVE  MailEntry(u) \in Entry /\ MailEntry(u).uid = u
<1>1. u \in Nat /\ mails[u] \in Mail
  BY UidsLemma DEF StoreInv, StoreTyped
<1> QED BY <1>1, MailLemma, NamesLemma DEF MailEntry, Entry

(* Gathering goes on, or the mails to delete are settled. *)
LEMMA GatheringLemma ==
    ASSUME IInv, NEW c \in Clients, step[c] \in {"list", "gather"},
           NEW t \in SUBSET Uids, NEW K \in SUBSET Entry, \A e \in K : e.uid \in Uids,
           Gathering(c, t, K), UNCHANGED <<mailVars, indexVars, call, batch, missing>>
    PROVE  IInv'
<1> DEFINE doomed == Doomed({e \in K : e.name \in call[c].scope})
<1>1. StoreInv' /\ Grown /\ Uids' = Uids
  BY StoreKept DEF IInv
<1>2. doomed \in SUBSET Uids
  BY DEF Doomed
<1>3. /\ known' = [known EXCEPT ![c] = K]
      /\ todo' = [todo EXCEPT ![c] = IF t # {} THEN t ELSE doomed]
      /\ step' = [step EXCEPT ![c] =
           IF t # {} THEN "gather" ELSE IF doomed # {} THEN "flag" ELSE "done"]
  BY DEF Gathering, Goto
<1> HIDE DEF doomed
<1>4. /\ OnlyClient(c)
      /\ call'[c] = call[c] /\ batch'[c] = batch[c] /\ missing'[c] = missing[c]
      /\ known'[c] = K /\ todo'[c] = (IF t # {} THEN t ELSE doomed)
      /\ step'[c] = IF t # {} THEN "gather" ELSE IF doomed # {} THEN "flag" ELSE "done"
  BY <1>3 DEF IInv, Shape, OnlyClient
<1>5. call[c].op # "upload"
  BY DEF IInv, ClientInv
<1>6. ClientTyped(c)'
  BY <1>1, <1>2, <1>4 DEF IInv, ClientInv, ClientTyped, Steps
<1>7. ClientInv(c)'
  BY <1>4, <1>5, <1>6 DEF ClientInv
<1> QED BY <1>1, <1>4, <1>7, StepLemma

(* What the index knows is read. *)
LEMMA ListFilesStep ==
    ASSUME IInv, NEW c \in Clients, ListFiles(c)
    PROVE  IInv'
<1>1. todo[c] \ IndexedUids(Db[c]) \in SUBSET Uids
  BY DEF IInv, ClientInv, ClientTyped
<1>2. IndexEntries(Db[c]) \in SUBSET Entry /\ \A e \in IndexEntries(Db[c]) : e.uid \in Uids
  BY DbAssumption, IndexEntriesLemma DEF IInv
<1> QED BY <1>1, <1>2, GatheringLemma DEF ListFiles

(* A mail the index does not know is fetched. *)
LEMMA GatherStep ==
    ASSUME IInv, NEW c \in Clients, Gather(c)
    PROVE  IInv'
<1> DEFINE b == NextBatch(todo[c])
           f == {u \in b \cap Live : Cacheable(u)}
           K == known[c] \cup {MailEntry(u) : u \in f}
<1>1. Gathering(c, todo[c] \ b, K) /\ step[c] = "gather"
      /\ UNCHANGED <<mailVars, indexVars, call, batch, missing>>
  BY DEF Gather
<1>2. todo[c] \ b \in SUBSET Uids
  BY DEF IInv, ClientInv, ClientTyped
<1>3. \A u \in f : u \in Uids /\ Cacheable(u)
  BY DEF Live
<1> HIDE DEF b, f
<1>4. \A u \in f : MailEntry(u) \in Entry /\ MailEntry(u).uid \in Uids
  BY <1>3, MailEntryLemma DEF IInv
<1>5. K \in SUBSET Entry /\ \A e \in K : e.uid \in Uids
  BY <1>4 DEF IInv, ClientInv, ClientTyped
<1> HIDE DEF K
<1> QED BY <1>1, <1>2, <1>5, GatheringLemma

-----------------------------------------------------------------------------
(* The invariant holds at first. *)
LEMMA InitLemma == Init => IInv
<1> SUFFICES ASSUME Init PROVE IInv
  OBVIOUS
<1>1. Shape
  BY DEF Init, Shape
<1>2. mails \in Seq(Mail \cup {Junk}) /\ Uids = {}
  <2>1. mails = <<>>   BY DEF Init
  <2> QED BY <2>1 DEF Uids
<1>3. StoreInv
  BY <1>2 DEF Init, StoreInv, StoreTyped, BlocksFit, BlocksUnique, IndexIsGrounded
<1>4. ASSUME NEW c \in Clients PROVE ClientInv(c)
  BY <1>2 DEF Init, ClientInv, ClientTyped, Call, NoCall, Steps
<1> QED BY <1>1, <1>3, <1>4 DEF IInv

(* Every step keeps the invariant. *)
LEMMA NextLemma == IInv /\ [Next]_vars => IInv'
<1> SUFFICES ASSUME IInv, [Next]_vars PROVE IInv'
  OBVIOUS
<1>1. CASE UNCHANGED vars
  <2>1. StoreInv' /\ Grown
    BY <1>1, StoreKept DEF IInv, vars
  <2>2. UNCHANGED clientVars
    BY <1>1 DEF vars
  <2>3. Shape' /\ \A c \in Clients : ClientInv(c)'
    BY <2>1, <2>2, ClientKept DEF IInv, Shape, clientVars
  <2> QED BY <2>1, <2>3 DEF IInv
<1>2. CASE OtherMail
  BY <1>2, OtherMailStep
<1>3. ASSUME NEW c \in Clients,
             \/ CacheMailbox(c)
             \/ \E p \in Paths, v \in Versions : UploadFile(c, p, v)
             \/ \E u \in Uids : DeleteMessageUid(c, u)
             \/ \E scope \in Scopes : DeduplicateMailbox(c, scope)
      PROVE  IInv'
  BY <1>3, CacheMailboxStep, UploadFileStep, DeleteMessageUidStep, DeduplicateMailboxStep,
     ScopesAssumption
<1>4. ASSUME NEW c \in Clients, Proceed(c)
      PROVE  IInv'
  <2>1. CASE Search(c) \/ Compare(c) \/ Fetch(c) \/ Upsert(c)
    BY <2>1, SearchStep, CompareStep, FetchStep, UpsertStep
  <2>2. CASE AppendMessage(c) \/ AppendUnheard(c) \/ Record(c)
    BY <2>2, AppendMessageStep, AppendUnheardStep, RecordStep
  <2>3. CASE Flag(c) \/ Expunge(c) \/ Forget(c)
    BY <2>3, FlagStep, ExpungeStep, ForgetStep
  <2>4. CASE Survey(c) \/ ListFiles(c) \/ Gather(c) \/ Clear(c)
    BY <2>4, SearchStep, ListFilesStep, GatherStep, ForgetStep
  <2>5. CASE Return(c) \/ Abort(c)
    BY <2>5, ForgottenStep DEF Return, Abort
  <2> QED BY <1>4, <2>1, <2>2, <2>3, <2>4, <2>5 DEF Proceed
<1> QED BY <1>1, <1>2, <1>3, <1>4 DEF Next

(* The inductive invariant: the properties of the mailbox and the index, and *)
(* of each client what its step says of its locals.                         *)
THEOREM Inductive == Spec => []IInv
<1>1. Init => IInv   BY InitLemma
<1>2. IInv /\ [Next]_vars => IInv'   BY NextLemma
<1> QED BY <1>1, <1>2, PTL DEF Spec

(* Every reachable state of the mailbox, the index and the clients is well  *)
(* typed.                                                                   *)
THEOREM TypeCorrect == Spec => []TypeOK
  BY Inductive, TypeLemma, PTL

(* The index repeats only what mails said, for any number of clients that   *)
(* share databases and are broken off anywhere.                             *)
THEOREM IndexIsGroundedHolds == Spec => []IndexIsGrounded
<1>1. IInv => IndexIsGrounded   BY DEF IInv, StoreInv
<1> QED BY <1>1, Inductive, PTL

(* An upload that returns has put every block of the file into a mail.      *)
THEOREM UploadLeavesNoGapHolds == Spec => []UploadLeavesNoGap
<1>1. IInv => UploadLeavesNoGap
  BY DEF IInv, ClientInv, Uploading, UploadLeavesNoGap
<1> QED BY <1>1, Inductive, PTL

(* A set of numbers from 1 to n with as many members as n has them all.     *)
LEMMA AllNumbers ==
    ASSUME NEW n \in Nat, NEW S \in SUBSET (1..n), Cardinality(S) = n
    PROVE  S = 1..n
<1>1. IsFiniteSet(1..n) /\ Cardinality(1..n) = n
  BY FS_Interval
<1> QED BY <1>1, FS_Subset

(* A file with one version only is complete when it has as many blocks as   *)
(* its row says.                                                            *)
LEMMA WholeLemma ==
    ASSUME StoreInv, NEW d \in Databases, NEW n \in Names, Resolves(d, n),
           \A u, w \in {x \in Uids : Cacheable(x) /\ n \in {mails[x].path, Enc[mails[x].path]}} :
              mails[u].version = mails[w].version
    PROVE  HasCompleteBlocks(d, n)
<1> DEFINE B == BlocksOf(d, n)
           v == row[d][n]
           S == {b.seq : b \in B}
           f == [b \in B |-> b.seq]
<1>1. v \in Versions /\ v # NoVersion /\ Cardinality(B) = BlockCount[v]
  BY DEF Resolves, StoreInv, StoreTyped
<1>2. BlockCount[v] \in Nat
  BY <1>1, CountAssumption
<1>3. \A b \in B : /\ b.uid \in Uids /\ Cacheable(b.uid) /\ b.seq = mails[b.uid].seq
                   /\ n \in {mails[b.uid].path, Enc[mails[b.uid].path]}
  BY DEF StoreInv, IndexIsGrounded, BlocksOf
<1>4. PICK w \in B : mails[w.uid].version = v
  BY <1>1 DEF StoreInv, IndexIsGrounded
<1>5. \A b \in B : mails[b.uid].version = v
  BY <1>3, <1>4
<1>6. \A b \in B : b.seq \in 1..BlockCount[v]
  BY <1>3, <1>5 DEF StoreInv, BlocksFit
<1>7. S \in SUBSET (1..BlockCount[v])
  BY <1>6
<1>8. IsFiniteSet(S)
  <2>1. IsFiniteSet(1..BlockCount[v])   BY <1>2, FS_Interval
  <2> HIDE DEF S, v
  <2> QED BY <2>1, <1>7, FS_Subset
<1>9. f \in Bijection(B, S)
  <2>1. \A a, b \in B : a.seq = b.seq => a = b
    BY DEF StoreInv, BlocksUnique, BlocksOf
  <2> QED BY <2>1 DEF Bijection, Injection, Surjection, IsInjective
<1>10. IsFiniteSet(B) /\ Cardinality(S) = Cardinality(B)
  <2>1. IsFiniteSet(B)
    BY <1>8, <1>9, FS_Injection DEF Bijection
  <2>2. ExistsBijection(B, S)
    BY <1>9 DEF ExistsBijection
  <2> QED BY <2>1, <2>2, FS_Bijection
<1>11. S = 1..BlockCount[v]
  BY <1>1, <1>2, <1>7, <1>10, AllNumbers
<1> QED BY <1>1, <1>11 DEF HasCompleteBlocks

(* As long as only one version of a file was ever uploaded, the count that  *)
(* resolve_cached_file compares tells a complete file from an incomplete    *)
(* one.                                                                     *)
THEOREM WholeUnlessMixedHolds == Spec => []WholeUnlessMixed
<1>1. IInv => WholeUnlessMixed
  BY WholeLemma DEF IInv, WholeUnlessMixed
<1> QED BY <1>1, Inductive, PTL

-----------------------------------------------------------------------------
(* What a deduplication keeps. *)

(* The greatest of a finite set of natural numbers is one of them. *)
LEMMA MaxLemma ==
    ASSUME NEW n \in Nat, NEW S \in SUBSET (1..n), S # {}
    PROVE  Max(S) \in S /\ \A x \in S : x <= Max(S)
<1> DEFINE T == {n - x : x \in S}
<1>1. T \in SUBSET Nat /\ T # {}
  <2>1. \A x \in S : x \in 1..n /\ n - x \in Nat   OBVIOUS
  <2>2. \A y \in T : y \in Nat   BY <2>1
  <2>3. \A x \in S : n - x \in T   OBVIOUS
  <2> HIDE DEF T
  <2> QED BY <2>2, <2>3
<1>2. Min(T) \in T /\ \A y \in T : Min(T) <= y
  BY <1>1, MinLemma
<1>3. PICK x \in S : Min(T) = n - x
  BY <1>2
<1>4. \A y \in S : y <= x
  <2> TAKE y \in S
  <2>1. n - y \in T   OBVIOUS
  <2>2. n - x <= n - y   BY <2>1, <1>2, <1>3
  <2>3. x \in Nat /\ y \in Nat   OBVIOUS
  <2> QED BY <2>2, <2>3
<1> QED BY <1>4 DEF Max

(* The mails of path p and version v among the uids U. *)
MailsOf(U, p, v) == {u \in U : mails[u].path = p /\ mails[u].version = v}

(* Which version is the newest complete one is a matter of the mails of     *)
(* that file only.                                                          *)
LEMMA NewestLemma ==
    ASSUME NEW U, NEW V, NEW p, \A v \in Versions : MailsOf(U, p, v) = MailsOf(V, p, v)
    PROVE  NewestComplete(U, p) = NewestComplete(V, p)
<1>1. \A v \in Versions : CompleteIn(U, p, v) <=> CompleteIn(V, p, v)
  BY DEF CompleteIn, MailsOf
<1>2. \A W : NewestComplete(W, p) =
        {v \in {x \in Versions : CompleteIn(W, p, x)} :
           \A w \in {x \in Versions : CompleteIn(W, p, x)} :
             Max(MailsOf(W, p, w)) <= Max(MailsOf(W, p, v))}
  BY DEF NewestComplete, MailsOf
<1> QED BY <1>1, <1>2

(* What there is to know of those mails among U that are of files in scope. *)
KnownOf(U, scope) == {MailEntry(u) : u \in {w \in U : mails[w].path \in scope}}

(* What a deduplication sees of a file in its scope if it knows just what   *)
(* is true of the mails U.                                                  *)
LEMMA CandidateLemma ==
    ASSUME NEW U, NEW scope, NEW p \in scope, NEW v
    PROVE  /\ IsComplete(KnownOf(U, scope), p, v) = CompleteIn(U, p, v)
           /\ MaxUid(KnownOf(U, scope), p, v) = Max(MailsOf(U, p, v))
<1> DEFINE K == KnownOf(U, scope)
<1>1. \A u : /\ MailEntry(u).uid = u /\ MailEntry(u).name = mails[u].path
            /\ MailEntry(u).seq = mails[u].seq /\ MailEntry(u).version = mails[u].version
  BY DEF MailEntry
<1>2. Candidate(K, p, v) = {MailEntry(u) : u \in MailsOf(U, p, v)}
  BY <1>1 DEF Candidate, MailsOf, KnownOf
<1> DEFINE E == Candidate(K, p, v)
           A == MailsOf(U, p, v)
<1>3. (\A u \in A : MailEntry(u) \in E) /\ (\A e \in E : e.uid \in A /\ e = MailEntry(e.uid))
  BY <1>1, <1>2
<1> HIDE DEF E, A
<1>4. {e.uid : e \in E} = A
  BY <1>1, <1>3
<1>5. {e.seq : e \in E} = {mails[u].seq : u \in A}
  <2>1. \A e \in E : e.uid \in A /\ e.seq = mails[e.uid].seq   BY <1>1, <1>3
  <2>2. \A u \in A : MailEntry(u) \in E /\ MailEntry(u).seq = mails[u].seq   BY <1>1, <1>3
  <2> QED BY <2>1, <2>2
<1>6. IsComplete(K, p, v) = CompleteIn(U, p, v)
  BY <1>5 DEF IsComplete, CompleteIn, MailsOf, E, A
<1>7. MaxUid(K, p, v) = Max(MailsOf(U, p, v))
  BY <1>4 DEF MaxUid, E, A
<1> QED BY <1>6, <1>7

(* Deleting what a deduplication settles on keeps the newest complete       *)
(* version of every file, if it knows just what is true of the mails U.     *)
LEMMA DedupLemma ==
    ASSUME StoreInv, NEW U \in SUBSET Uids, \A u \in U : Cacheable(u),
           NEW scope, NEW p \in Paths
    PROVE  NewestComplete(U \ Doomed(KnownOf(U, scope)), p) = NewestComplete(U, p)
<1> DEFINE K == KnownOf(U, scope)
           L == U \ Doomed(K)
<1>1. /\ Len(mails) \in Nat
      /\ \A v : MailsOf(U, p, v) \in SUBSET (1..Len(mails))
      /\ \A u \in U : mails[u].version \in Versions /\ mails[u].seq \in 1..BlockCount[mails[u].version]
  <2>1. Len(mails) \in Nat /\ Uids = 1..Len(mails) /\ \A u \in U : mails[u] \in Mail
    BY UidsLemma DEF StoreInv, StoreTyped
  <2> QED BY <2>1, MailLemma DEF StoreInv, BlocksFit, MailsOf
<1>2. /\ \A e \in K : e.uid \in U /\ e = MailEntry(e.uid) /\ mails[e.uid].path \in scope
      /\ \A u \in U : mails[u].path \in scope => MailEntry(u) \in K
  BY DEF MailEntry, KnownOf
<1> HIDE DEF K
<1> SUFFICES NewestComplete(L, p) = NewestComplete(U, p)
  BY DEF K
<1>3. CASE p \notin scope
  <2>1. \A u \in Doomed(K) : mails[u].path \in scope
    BY <1>2 DEF Doomed
  <2>2. \A v \in Versions : MailsOf(L, p, v) = MailsOf(U, p, v)
    BY <2>1, <1>3 DEF MailsOf
  <2> QED BY <2>2, NewestLemma
<1>4. CASE p \in scope
  <2> DEFINE C == {v \in Versions : CompleteIn(U, p, v)}
             newest(v) == Max(MailsOf(U, p, v))
  <2>0. ASSUME NEW v
        PROVE  IsComplete(K, p, v) = CompleteIn(U, p, v) /\ MaxUid(K, p, v) = newest(v)
    BY <1>4, CandidateLemma DEF K
  <2>1. \A v \in Versions : IsComplete(K, p, v) = (v \in C)
    BY <2>0 DEF CompleteIn
  <2>2. \A v : MaxUid(K, p, v) = newest(v)
    BY <2>0
  <2>3. \A v \in Versions : CompleteIn(L, p, v) => v \in C
    <3> SUFFICES ASSUME NEW v \in Versions, CompleteIn(L, p, v) PROVE CompleteIn(U, p, v)
      OBVIOUS
    <3>1. \A u \in MailsOf(U, p, v) : mails[u].seq \in 1..BlockCount[v]
      BY <1>1 DEF MailsOf
    <3>2. {mails[u].seq : u \in MailsOf(L, p, v)} = 1..BlockCount[v]
      BY DEF CompleteIn, MailsOf
    <3>3. MailsOf(L, p, v) \subseteq MailsOf(U, p, v)
      BY DEF MailsOf
    <3>4. {mails[u].seq : u \in MailsOf(U, p, v)} = 1..BlockCount[v]
      BY <3>1, <3>2, <3>3
    <3> QED BY <3>4 DEF CompleteIn, MailsOf
  <2>4. \A v \in C : newest(v) \in MailsOf(U, p, v) /\ newest(v) \in 1..Len(mails)
    <3> TAKE v \in C
    <3>1. MailsOf(U, p, v) # {}
      <4>1. 1 \in 1..BlockCount[v]   BY CountAssumption
      <4> QED BY <4>1 DEF CompleteIn, MailsOf
    <3> QED BY <3>1, <1>1, MaxLemma
  <2>5. CASE C = {}
    BY <2>3, <2>5 DEF NewestComplete
  <2>6. CASE C # {}
    <3> DEFINE N == {newest(v) : v \in C}
    <3>1. N \in SUBSET (1..Len(mails)) /\ N # {}
      BY <2>4, <2>6
    <3>2. Max(N) \in N /\ \A x \in N : x <= Max(N)
      <4> HIDE DEF N
      <4> QED BY <3>1, <1>1, MaxLemma
    <3>3. PICK k \in C : \A v \in C : newest(v) <= newest(k)
      BY <3>2
    <3>4. \A v \in C : v # k => newest(v) < newest(k)
      <4> TAKE v \in C
      <4> HAVE v # k
      <4>1. newest(v) # newest(k)
        BY <2>4 DEF MailsOf
      <4> HIDE DEF C
      <4> QED BY <4>1, <2>4, <3>3
    <3>5. k \in Versions   OBVIOUS
    <3>6. NewestComplete(U, p) = {k}
      <4>1. NewestComplete(U, p) = {v \in C : \A w \in C : newest(w) <= newest(v)}
        BY DEF NewestComplete, MailsOf
      <4>2. \A v \in C : v # k => ~(newest(k) <= newest(v))
        BY <2>4, <3>4
      <4> QED BY <4>1, <4>2, <3>3
    <3>7. \A v \in Versions : v # k => Better(K, p, k, v)
      <4> TAKE v \in Versions
      <4> HAVE v # k
      <4>1. CASE v \in C
        <5>1. newest(k) > newest(v)
          BY <4>1, <2>4, <3>4
        <5> HIDE DEF newest
        <5> QED BY <4>1, <5>1, <2>1, <2>2, <3>5 DEF Better
      <4>2. CASE v \notin C
        BY <4>2, <2>1, <3>5 DEF Better
      <4> QED BY <4>1, <4>2
    <3>8. \A v \in Versions : ~Better(K, p, v, k)
      <4> TAKE v \in Versions
      <4>1. CASE v \in C
        BY <4>1, <2>1, <2>2, <2>4, <3>3, <3>5 DEF Better
      <4>2. CASE v \notin C
        BY <4>2, <2>1, <3>5 DEF Better
      <4> QED BY <4>1, <4>2
    <3>9. \A e \in K : e.version \in Versions
      BY <1>1, <1>2 DEF MailEntry
    <3>10. \A v \in Versions : v # k => MailsOf(L, p, v) = {}
      <4> SUFFICES ASSUME NEW v \in Versions, v # k, NEW u \in MailsOf(U, p, v)
                   PROVE  u \in Doomed(K)
        BY DEF MailsOf
      <4>1. /\ MailEntry(u) \in K /\ MailEntry(u).name = p
            /\ MailEntry(u).version = v /\ MailEntry(u).uid = u
        BY <1>2, <1>4 DEF MailsOf, MailEntry
      <4>2. PICK x \in MailsOf(U, p, k) : TRUE
        BY <2>4
      <4>3. MailEntry(x) \in K /\ MailEntry(x).name = p /\ MailEntry(x).version = k
        BY <1>2, <1>4 DEF MailsOf, MailEntry
      <4>4. ~IsKept(K, MailEntry(u))
        BY <4>1, <4>3, <3>7 DEF IsKept
      <4> QED BY <4>1, <4>4 DEF Doomed
    <3>11. \A s \in 1..BlockCount[k] : \E u \in MailsOf(L, p, k) : mails[u].seq = s
      <4> TAKE s \in 1..BlockCount[k]
      <4> DEFINE S == {u \in MailsOf(U, p, k) : mails[u].seq = s}
      <4>1. S # {}
        BY DEF CompleteIn, MailsOf
      <4>2. S \in SUBSET (1..Len(mails))
        BY <1>1
      <4>3. Max(S) \in S /\ \A x \in S : x <= Max(S)
        <5> HIDE DEF S
        <5> QED BY <4>1, <4>2, <1>1, MaxLemma
      <4> DEFINE u == Max(S)
      <4> HIDE DEF u
      <4>4. u \in MailsOf(U, p, k) /\ mails[u].seq = s
        BY <4>3 DEF u
      <4>5. u \notin Doomed(K)
        <5> SUFFICES ASSUME NEW e \in K, e.uid = u PROVE IsKept(K, e)
          BY DEF Doomed
        <5>1. e.name = p /\ e.version = k /\ e.seq = s
          BY <1>2, <4>4 DEF MailEntry, MailsOf
        <5>2. \A f \in Candidate(K, p, k) : f.seq = s => f.uid <= u
          <6> TAKE f \in Candidate(K, p, k)
          <6> HAVE f.seq = s
          <6>1. f \in K /\ f.name = p /\ f.version = k
            BY DEF Candidate
          <6>2. f.uid \in S
            BY <6>1, <1>2 DEF MailEntry, MailsOf
          <6> QED BY <6>2, <4>3 DEF u
        <5>3. \A x \in K : x.name = p => x.version \in Versions
          BY <3>9
        <5> QED BY <5>1, <5>2, <5>3, <3>8 DEF IsKept
      <4>6. u \in MailsOf(L, p, k)
        BY <4>4, <4>5 DEF MailsOf
      <4> QED BY <4>4, <4>6
    <3>12. CompleteIn(L, p, k)
      <4>1. \A u \in MailsOf(L, p, k) : mails[u].seq \in 1..BlockCount[k]
        BY <1>1 DEF MailsOf
      <4>2. {mails[u].seq : u \in MailsOf(L, p, k)} = 1..BlockCount[k]
        BY <4>1, <3>11
      <4> QED BY <4>2 DEF CompleteIn, MailsOf
    <3>13. \A v \in Versions : CompleteIn(L, p, v) => v = k
      <4> SUFFICES ASSUME NEW v \in Versions, CompleteIn(L, p, v), v # k PROVE FALSE
        OBVIOUS
      <4>1. 1 \in 1..BlockCount[v]   BY CountAssumption
      <4> QED BY <4>1, <3>10 DEF CompleteIn, MailsOf
    <3>14. NewestComplete(L, p) = {k}
      <4> DEFINE M(v) == Max(MailsOf(L, p, v))
                 D == {x \in Versions : CompleteIn(L, p, x)}
      <4>1. NewestComplete(L, p) = {v \in D : \A w \in D : M(w) <= M(v)}
        BY DEF NewestComplete, MailsOf
      <4>2. D = {k}
        BY <3>5, <3>12, <3>13
      <4>3. M(k) \in Nat
        <5>1. 1 \in 1..BlockCount[k]   BY <3>5, CountAssumption
        <5>2. MailsOf(L, p, k) # {}   BY <5>1, <3>11
        <5>3. MailsOf(L, p, k) \in SUBSET (1..Len(mails))
          <6>1. MailsOf(L, p, k) \subseteq MailsOf(U, p, k)   BY DEF MailsOf
          <6> QED BY <6>1, <1>1
        <5>4. M(k) \in MailsOf(L, p, k)   BY <5>2, <5>3, <1>1, MaxLemma
        <5>5. M(k) \in 1..Len(mails)   BY <5>3, <5>4
        <5> HIDE DEF M
        <5> QED BY <5>5
      <4>4. M(k) <= M(k)   BY <4>3
      <4> HIDE DEF M, D
      <4> QED BY <4>1, <4>2, <4>4
    <3> QED BY <3>6, <3>14
  <2> QED BY <2>5, <2>6
<1> QED BY <1>3, <1>4

(* Only the two steps that gather settle what a deduplication deletes. *)
LEMMA SettlesLemma ==
    ASSUME IInv, [Next]_vars, NEW c \in Clients, Settles(c)
    PROVE  ListFiles(c) \/ Gather(c)
<1>1. step[c] \in {"list", "gather"} /\ step'[c] = "flag"
  BY DEF Settles
<1>2. step' # step
  BY <1>1
<1>3. ~UNCHANGED vars /\ ~OtherMail
  BY <1>2 DEF vars, clientVars, OtherMail
<1>4. PICK e \in Clients :
        \/ CacheMailbox(e)
        \/ \E p \in Paths, v \in Versions : UploadFile(e, p, v)
        \/ \E u \in Uids : DeleteMessageUid(e, u)
        \/ \E scope \in Scopes : DeduplicateMailbox(e, scope)
        \/ Proceed(e)
  BY <1>3 DEF Next
<1>5. \E s : step' = [step EXCEPT ![e] = s]
  <2>1. CASE \/ CacheMailbox(e)
             \/ \E p \in Paths, v \in Versions : UploadFile(e, p, v)
             \/ \E u \in Uids : DeleteMessageUid(e, u)
             \/ \E scope \in Scopes : DeduplicateMailbox(e, scope)
    BY <2>1 DEF CacheMailbox, UploadFile, DeleteMessageUid, DeduplicateMailbox, Goto
  <2>2. CASE Search(e) \/ Compare(e) \/ Fetch(e) \/ Upsert(e)
    BY <2>2 DEF Search, Compare, Fetch, Upsert, Caching, Goto
  <2>3. CASE AppendMessage(e) \/ AppendUnheard(e) \/ Record(e)
    BY <2>3, <1>2 DEF AppendMessage, AppendUnheard, Record, NextBlock, Goto, clientVars
  <2>4. CASE Flag(e) \/ Expunge(e) \/ Forget(e) \/ Return(e) \/ Abort(e)
    BY <2>4 DEF Flag, Expunge, Forget, Return, Abort, Forgotten, Goto
  <2>5. CASE Survey(e) \/ ListFiles(e) \/ Gather(e) \/ Clear(e)
    BY <2>5 DEF Survey, ListFiles, Gather, Gathering, Clear, Goto
  <2> QED BY <1>4, <2>1, <2>2, <2>3, <2>4, <2>5 DEF Proceed
<1>6. e = c
  BY <1>1, <1>5 DEF IInv, Shape
<1>7. CASE \/ CacheMailbox(c)
           \/ \E p \in Paths, v \in Versions : UploadFile(c, p, v)
           \/ \E u \in Uids : DeleteMessageUid(c, u)
           \/ \E scope \in Scopes : DeduplicateMailbox(c, scope)
  BY <1>1, <1>7 DEF CacheMailbox, UploadFile, DeleteMessageUid, DeduplicateMailbox, Begin
<1>8. CASE Proceed(c)
  <2>1. CASE Search(c) \/ Compare(c) \/ Fetch(c) \/ Upsert(c)
    BY <1>1, <2>1 DEF Search, Compare, Fetch, Upsert
  <2>2. CASE AppendMessage(c) \/ AppendUnheard(c) \/ Record(c)
    BY <1>1, <2>2 DEF AppendMessage, AppendUnheard, Record
  <2>3. CASE Flag(c) \/ Expunge(c) \/ Forget(c) \/ Survey(c) \/ Clear(c) \/ Return(c)
    BY <1>1, <2>3 DEF Flag, Expunge, Forget, Survey, Clear, Return
  <2>4. CASE Abort(c)
    <3>1. step' = [step EXCEPT ![c] = "idle"]
      BY <2>4 DEF Abort, Forgotten, Goto
    <3>2. step'[c] = "idle"
      BY <3>1 DEF IInv, Shape
    <3> QED BY <1>1, <3>2
  <2> QED BY <1>8, <2>1, <2>2, <2>3, <2>4 DEF Proceed
<1> QED BY <1>4, <1>6, <1>7, <1>8

(* A deduplication whose knowledge of the mails is true deletes no mail of  *)
(* any file's newest complete version: for any number of versions, blocks,  *)
(* duplicates and clients.                                                  *)
THEOREM DedupKeepsNewestHolds == Spec => DedupKeepsNewest
<1>1. ASSUME IInv, [Next]_vars, NEW c \in Clients, Settles(c), Informed(c)
      PROVE  LET U == {e.uid : e \in known'[c]}
             IN  \A p \in Paths : NewestComplete(U \ todo'[c], p) = NewestComplete(U, p)
  <2> DEFINE K == known'[c]
             U == {e.uid : e \in K}
             scope == call[c].scope
             S == {e \in K : e.name \in scope}
  <2>1. \E t : Gathering(c, t, K)
    <3>1. ListFiles(c) \/ Gather(c)
      BY <1>1, SettlesLemma
    <3>2. PICK t, J : Gathering(c, t, J)
      BY <3>1 DEF ListFiles, Gather
    <3>3. J = K
      BY <3>2, <1>1 DEF Gathering, IInv, Shape
    <3> QED BY <3>2, <3>3
  <2>2. todo'[c] = Doomed(S)
    <3> PICK t : Gathering(c, t, K)   BY <2>1
    <3>1. /\ todo' = [todo EXCEPT ![c] = IF t # {} THEN t ELSE Doomed(S)]
          /\ step' = [step EXCEPT ![c] =
               IF t # {} THEN "gather" ELSE IF Doomed(S) # {} THEN "flag" ELSE "done"]
      BY DEF Gathering, Goto
    <3> HIDE DEF S
    <3>2. /\ todo'[c] = IF t # {} THEN t ELSE Doomed(S)
          /\ step'[c] = IF t # {} THEN "gather" ELSE IF Doomed(S) # {} THEN "flag" ELSE "done"
      BY <1>1, <3>1 DEF IInv, Shape
    <3> QED BY <1>1, <3>2 DEF Settles
  <2>3. \A e \in K : e.uid \in Uids /\ e = MailEntry(e.uid) /\ e \in Entry
    <3>1. \A e \in K : e.uid \in Uids /\ e = MailEntry(e.uid)
      BY <1>1 DEF Informed, Live
    <3>2. ClientInv(c)'
      BY <1>1, NextLemma DEF IInv
    <3> QED BY <3>1, <3>2 DEF ClientInv, ClientTyped
  <2>4. \A u \in U : u \in Uids /\ MailEntry(u) \in K /\ Cacheable(u)
    <3> SUFFICES ASSUME NEW e \in K
                 PROVE  e.uid \in Uids /\ MailEntry(e.uid) \in K /\ Cacheable(e.uid)
      OBVIOUS
    <3>1. MailEntry(e.uid).version \in Versions
      BY <2>3 DEF Entry
    <3>2. mails[e.uid].version # NoVersion
      BY <3>1, NamesAssumption DEF MailEntry
    <3>3. mails[e.uid] # Junk
      BY <3>2 DEF Junk
    <3> QED BY <2>3, <3>3 DEF Cacheable
  <2>5. S = KnownOf(U, scope)
    <3>1. \A u : MailEntry(u).name = mails[u].path
      BY DEF MailEntry
    <3>2. \A e \in S : e.uid \in U /\ e = MailEntry(e.uid) /\ mails[e.uid].path \in scope
      BY <2>3, <3>1
    <3>3. \A u \in U : mails[u].path \in scope => MailEntry(u) \in S
      BY <2>4, <3>1
    <3> HIDE DEF S, U
    <3> QED BY <3>2, <3>3 DEF KnownOf
  <2>6. \A p \in Paths : NewestComplete(U \ Doomed(KnownOf(U, scope)), p) = NewestComplete(U, p)
    <3>1. U \in SUBSET Uids /\ \A u \in U : Cacheable(u)
      BY <2>4
    <3> HIDE DEF U, scope
    <3> QED BY <1>1, <3>1, DedupLemma DEF IInv
  <2> HIDE DEF S
  <2> QED BY <2>2, <2>5, <2>6
<1>2. IInv /\ [Next]_vars =>
        [\A c \in Clients : Settles(c) /\ Informed(c) =>
           LET U == {e.uid : e \in known'[c]}
           IN  \A p \in Paths : NewestComplete(U \ todo'[c], p) = NewestComplete(U, p)]_vars
  BY <1>1
<1> QED BY <1>2, Inductive, PTL DEF Spec, DedupKeepsNewest

-----------------------------------------------------------------------------
(* Deleting a mail, when no two clients use the same database.              *)
OwnDatabases == \A c, e \in Clients : Db[c] = Db[e] => c = e

(* How far a deletion is: the mail is marked, or gone if another client's   *)
(* EXPUNGE came first; then it is gone; then the index has forgotten it.    *)
Deleting(c) ==
    call[c].op = "delete" =>
      \E u \in Uids :
        /\ todo[c] = {u}
        /\ step[c] \in {"flag", "expunge", "forget", "done"}
        /\ step[c] = "expunge" => u \in flagged \cup expunged
        /\ step[c] \in {"forget", "done"} => u \in expunged
        /\ step[c] = "done" => \A b \in blocks[Db[c]] : b.uid # u

(* What deleted mails and clients on other databases can rely on. *)
DeletedStays ==
    /\ Uids \subseteq Uids'
    /\ expunged \subseteq expunged'
    /\ flagged \subseteq flagged' \cup expunged'

Spared(c) ==
    /\ DeletedStays
    /\ blocks'[Db[c]] = blocks[Db[c]]
    /\ call'[c] = call[c] /\ step'[c] = step[c] /\ todo'[c] = todo[c]

(* A deletion is where it was after a step that spares it. *)
LEMMA SparedLemma ==
    ASSUME NEW c \in Clients, Deleting(c), Spared(c)
    PROVE  Deleting(c)'
<1> SUFFICES ASSUME call[c].op = "delete" PROVE Deleting(c)'
  BY DEF Deleting, Spared
<1>1. PICK u \in Uids :
        /\ todo[c] = {u}
        /\ step[c] \in {"flag", "expunge", "forget", "done"}
        /\ step[c] = "expunge" => u \in flagged \cup expunged
        /\ step[c] \in {"forget", "done"} => u \in expunged
        /\ step[c] = "done" => \A b \in blocks[Db[c]] : b.uid # u
  BY DEF Deleting
<1>2. u \in Uids' /\ (u \in flagged \cup expunged => u \in flagged' \cup expunged')
  BY DEF Spared, DeletedStays
<1> QED BY <1>1, <1>2 DEF Deleting, Spared, DeletedStays

(* The steps that leave every index alone. *)
MailboxStep(e) ==
    \/ Search(e) \/ Compare(e) \/ Fetch(e)
    \/ AppendMessage(e) \/ AppendUnheard(e)
    \/ Flag(e) \/ Expunge(e)
    \/ Survey(e) \/ ListFiles(e) \/ Gather(e)
    \/ Return(e) \/ Abort(e)

(* The steps that are one transaction on an index. *)
IndexStep(e) == Upsert(e) \/ Record(e) \/ Forget(e) \/ Clear(e)

(* The steps that begin an operation. *)
BeginsAny(e) ==
    \/ CacheMailbox(e)
    \/ \E p \in Paths, v \in Versions : UploadFile(e, p, v)
    \/ \E u \in Uids : DeleteMessageUid(e, u)
    \/ \E scope \in Scopes : DeduplicateMailbox(e, scope)

(* No step brings a mail back, and no mail that is marked escapes. *)
LEMMA StaysLemma ==
    ASSUME IInv, NEW e \in Clients, OtherMail \/ BeginsAny(e) \/ Proceed(e)
    PROVE  DeletedStays
<1>1. CASE UNCHANGED mailVars
  BY <1>1 DEF DeletedStays, Uids, mailVars
<1>2. CASE OtherMail
  BY <1>2, AppendLemma, MailLemma DEF OtherMail, IInv, Grown, DeletedStays
<1>3. CASE AppendMessage(e) \/ AppendUnheard(e)
  <2>1. BlockMail(e) \in Mail /\ BlockMail(e).seq \in 1..BlockCount[BlockMail(e).version]
    BY <1>3, BlockMailLemma DEF AppendMessage, AppendUnheard
  <2> QED BY <1>3, <2>1, AppendLemma DEF AppendMessage, AppendUnheard, IInv, Grown, DeletedStays
<1>4. CASE Flag(e) \/ Expunge(e)
  BY <1>4 DEF Flag, Expunge, DeletedStays, Uids
<1>5. CASE BeginsAny(e)
  BY <1>1, <1>5 DEF BeginsAny, CacheMailbox, UploadFile, DeleteMessageUid, DeduplicateMailbox, Begin
<1>6. CASE Search(e) \/ Compare(e) \/ Fetch(e) \/ Survey(e) \/ ListFiles(e) \/ Gather(e)
  BY <1>1, <1>6 DEF Search, Compare, Fetch, Survey, ListFiles, Gather
<1>7. CASE Return(e) \/ Abort(e) \/ IndexStep(e)
  BY <1>1, <1>7 DEF IndexStep, Return, Abort, Upsert, Record, Forget, Clear
<1> QED BY <1>2, <1>3, <1>4, <1>5, <1>6, <1>7 DEF Proceed, IndexStep

(* An index is changed by the clients that use it, and a client's locals by *)
(* the client.                                                              *)
LEMMA LocalLemma ==
    ASSUME IInv, NEW e \in Clients, BeginsAny(e) \/ Proceed(e),
           NEW c \in Clients, c # e, Db[c] # Db[e]
    PROVE  /\ blocks'[Db[c]] = blocks[Db[c]]
           /\ call'[c] = call[c] /\ step'[c] = step[c] /\ todo'[c] = todo[c]
<1>1. blocks'[Db[c]] = blocks[Db[c]]
  <2>1. CASE blocks' = blocks
    BY <2>1
  <2>2. CASE \E S : blocks' = [blocks EXCEPT ![Db[e]] = S]
    BY <2>2, DbAssumption DEF IInv, StoreInv, StoreTyped
  <2>3. CASE BeginsAny(e)
    BY <2>1, <2>3 DEF BeginsAny, CacheMailbox, UploadFile, DeleteMessageUid, DeduplicateMailbox,
       Begin, indexVars
  <2>4. CASE MailboxStep(e)
    BY <2>1, <2>4 DEF MailboxStep, Search, Compare, Fetch, AppendMessage, AppendUnheard, Flag,
       Expunge, Survey, ListFiles, Gather, Return, Abort, indexVars
  <2>5. CASE IndexStep(e)
    BY <2>2, <2>5 DEF IndexStep, Upsert, Record, Forget, Clear, UpsertMailBlock,
       RemoveMessageUid, ClearMailbox
  <2> QED BY <2>3, <2>4, <2>5 DEF Proceed, MailboxStep, IndexStep
<1>2. call'[c] = call[c]
  <2>1. CASE call' = call
    BY <2>1
  <2>2. CASE \E x : call' = [call EXCEPT ![e] = x]
    BY <2>2 DEF IInv, Shape
  <2>3. CASE BeginsAny(e)
    BY <2>2, <2>3 DEF BeginsAny, CacheMailbox, UploadFile, DeleteMessageUid, DeduplicateMailbox, Begin
  <2>4. CASE MailboxStep(e) /\ ~Return(e) /\ ~Abort(e)
    BY <2>1, <2>4 DEF MailboxStep, Search, Compare, Fetch, AppendMessage, AppendUnheard, Flag,
       Expunge, Survey, ListFiles, Gather, clientVars
  <2>5. CASE IndexStep(e)
    BY <2>1, <2>5 DEF IndexStep, Upsert, Record, Forget, Clear
  <2>6. CASE Return(e) \/ Abort(e)
    BY <2>2, <2>6 DEF Return, Abort, Forgotten
  <2> QED BY <2>3, <2>4, <2>5, <2>6 DEF Proceed, MailboxStep, IndexStep
<1>3. step'[c] = step[c]
  <2>1. CASE step' = step
    BY <2>1
  <2>2. CASE \E x : step' = [step EXCEPT ![e] = x]
    BY <2>2 DEF IInv, Shape
  <2>3. CASE BeginsAny(e)
    BY <2>2, <2>3 DEF BeginsAny, CacheMailbox, UploadFile, DeleteMessageUid, DeduplicateMailbox, Goto
  <2>4. CASE AppendUnheard(e)
    BY <2>1, <2>4 DEF AppendUnheard, clientVars
  <2>5. CASE Search(e) \/ Compare(e) \/ Fetch(e) \/ Upsert(e)
    BY <2>2, <2>5 DEF Search, Compare, Fetch, Upsert, Caching, Goto
  <2>6. CASE AppendMessage(e) \/ Record(e) \/ Return(e) \/ Abort(e)
    BY <2>2, <2>6 DEF AppendMessage, Record, NextBlock, Return, Abort, Forgotten, Goto
  <2>7. CASE Flag(e) \/ Expunge(e) \/ Forget(e) \/ Survey(e) \/ ListFiles(e) \/ Gather(e) \/ Clear(e)
    BY <2>2, <2>7 DEF Flag, Expunge, Forget, Survey, ListFiles, Gather, Gathering, Clear, Goto
  <2> QED BY <2>3, <2>4, <2>5, <2>6, <2>7 DEF Proceed
<1>4. todo'[c] = todo[c]
  <2>1. CASE todo' = todo
    BY <2>1
  <2>2. CASE \E x : todo' = [todo EXCEPT ![e] = x]
    BY <2>2 DEF IInv, Shape
  <2>3. CASE BeginsAny(e)
    BY <2>1, <2>2, <2>3 DEF BeginsAny, CacheMailbox, UploadFile, DeleteMessageUid, DeduplicateMailbox
  <2>4. CASE AppendUnheard(e) \/ AppendMessage(e) \/ Record(e) \/ Flag(e) \/ Forget(e) \/ Clear(e)
    BY <2>1, <2>4 DEF AppendUnheard, AppendMessage, Record, Flag, Forget, Clear, clientVars
  <2>5. CASE Search(e) \/ Compare(e) \/ Fetch(e) \/ Upsert(e)
    BY <2>2, <2>5 DEF Search, Compare, Fetch, Upsert, Caching
  <2>6. CASE Return(e) \/ Abort(e)
    BY <2>2, <2>6 DEF Return, Abort, Forgotten
  <2>7. CASE Expunge(e) \/ Survey(e) \/ ListFiles(e) \/ Gather(e)
    BY <2>1, <2>2, <2>7 DEF Expunge, Survey, ListFiles, Gather, Gathering
  <2> QED BY <2>3, <2>4, <2>5, <2>6, <2>7 DEF Proceed
<1> QED BY <1>1, <1>2, <1>3, <1>4

(* The client's own steps: what it begins, and how a deletion goes on. *)
LEMMA DeletingStep ==
    ASSUME IInv, NEW c \in Clients, BeginsAny(c) \/ Proceed(c), Deleting(c)
    PROVE  Deleting(c)'
<1>1. DeletedStays
  BY StaysLemma
<1>2. CASE BeginsAny(c)
  <2>1. CASE \E u \in Uids : DeleteMessageUid(c, u)
    <3>1. PICK u \in Uids : DeleteMessageUid(c, u)
      BY <2>1
    <3>2. todo'[c] = {u} /\ step'[c] = "flag"
      BY <3>1 DEF DeleteMessageUid, Goto, IInv, Shape
    <3> QED BY <1>1, <3>2 DEF Deleting, DeletedStays
  <2>2. CASE \/ CacheMailbox(c)
             \/ \E p \in Paths, v \in Versions : UploadFile(c, p, v)
             \/ \E scope \in Scopes : DeduplicateMailbox(c, scope)
    <3> SUFFICES call'[c].op # "delete"
      BY DEF Deleting
    <3>1. ASSUME NEW x, Begin(c, x)
          PROVE  call'[c] = x
      BY <3>1 DEF Begin, IInv, Shape
    <3>2. CASE CacheMailbox(c)
      <4>1. call'[c] = [NoCall EXCEPT !.op = "cache"]
        BY <3>1, <3>2 DEF CacheMailbox
      <4> QED BY <4>1 DEF NoCall
    <3>3. CASE \E p \in Paths, v \in Versions : UploadFile(c, p, v)
      <4>1. PICK p \in Paths, v \in Versions : UploadFile(c, p, v)
        BY <3>3
      <4>2. call'[c] = [NoCall EXCEPT !.op = "upload", !.path = p, !.version = v]
        BY <3>1, <4>1 DEF UploadFile
      <4> QED BY <4>2 DEF NoCall
    <3>4. CASE \E scope \in Scopes : DeduplicateMailbox(c, scope)
      <4>1. PICK scope \in Scopes : DeduplicateMailbox(c, scope)
        BY <3>4
      <4>2. call'[c] = [NoCall EXCEPT !.op = "dedup", !.scope = scope]
        BY <3>1, <4>1 DEF DeduplicateMailbox
      <4> QED BY <4>2 DEF NoCall
    <3> QED BY <2>2, <3>2, <3>3, <3>4
  <2> QED BY <1>2, <2>1, <2>2 DEF BeginsAny
<1>3. CASE Return(c) \/ Abort(c)
  <2>1. call'[c] = NoCall
    BY <1>3 DEF Return, Abort, Forgotten, IInv, Shape
  <2> QED BY <2>1 DEF Deleting, NoCall
<1>4. CASE Proceed(c) /\ ~Return(c) /\ ~Abort(c)
  <2>1. call' = call
    BY <1>4 DEF Proceed, Search, Compare, Fetch, Upsert, AppendMessage, AppendUnheard, Record,
       Flag, Expunge, Forget, Survey, ListFiles, Gather, Clear, clientVars
  <2> SUFFICES ASSUME call[c].op = "delete" PROVE Deleting(c)'
    BY <2>1 DEF Deleting
  <2>2. PICK u \in Uids :
          /\ todo[c] = {u}
          /\ step[c] \in {"flag", "expunge", "forget", "done"}
          /\ step[c] = "expunge" => u \in flagged \cup expunged
          /\ step[c] \in {"forget", "done"} => u \in expunged
          /\ step[c] = "done" => \A b \in blocks[Db[c]] : b.uid # u
    BY DEF Deleting
  <2>3. Min(todo[c]) = u
    <3>1. {u} \in SUBSET Nat
      BY UidsLemma DEF IInv, StoreInv, StoreTyped
    <3> QED BY <2>2, <3>1, MinLemma
  <2>4. u \in Uids'
    BY <1>1 DEF DeletedStays
  <2>5. CASE Flag(c)
    <3>1. step'[c] = "expunge" /\ todo'[c] = {u}
      BY <2>2, <2>5 DEF Flag, Goto, IInv, Shape
    <3>2. u \in flagged' \cup expunged'
      BY <2>3, <2>5 DEF Flag, Live
    <3> QED BY <2>4, <3>1, <3>2 DEF Deleting
  <2>6. CASE Expunge(c)
    <3>1. step'[c] = "forget" /\ todo'[c] = {u}
      BY <2>2, <2>6 DEF Expunge, Goto, IInv, Shape
    <3>2. u \in expunged'
      BY <2>2, <2>6 DEF Expunge
    <3> QED BY <2>4, <3>1, <3>2 DEF Deleting
  <2>7. CASE Forget(c)
    <3>1. step'[c] = "done" /\ todo'[c] = {u}
      BY <2>2, <2>7 DEF Forget, Goto, IInv, Shape
    <3>2. u \in expunged'
      BY <1>1, <2>2, <2>7 DEF Forget, DeletedStays
    <3>3. \A b \in blocks'[Db[c]] : b.uid # u
      <4>1. RemoveMessageUid(Db[c], u)
        BY <2>3, <2>7 DEF Forget
      <4>2. blocks'[Db[c]] =
              {b \in blocks[Db[c]] : b.name \notin {x.name : x \in {y \in blocks[Db[c]] : y.uid = u}}}
        BY <4>1, DbAssumption DEF RemoveMessageUid, IInv, StoreInv, StoreTyped
      <4> QED BY <4>2
    <3> QED BY <2>4, <3>1, <3>2, <3>3 DEF Deleting
  <2>8. CASE ~Flag(c) /\ ~Expunge(c) /\ ~Forget(c)
    BY <1>4, <2>2, <2>8 DEF Proceed, Search, Compare, Fetch, Upsert, AppendMessage, AppendUnheard,
       Record, Survey, ListFiles, Gather, Clear, IInv, ClientInv
  <2> QED BY <2>5, <2>6, <2>7, <2>8
<1> QED BY <1>2, <1>3, <1>4

(* When delete_message_uid returns, the mail is gone and the index has      *)
(* forgotten it: for any number of clients with databases of their own,     *)
(* whatever they mark and expunge in the mailbox they share.                *)
THEOREM DeletedIsForgottenHolds ==
    ASSUME OwnDatabases
    PROVE  Spec => []DeletedIsForgotten
<1> DEFINE D == \A c \in Clients : Deleting(c)
<1>1. Init => D
  BY DEF Init, Deleting, NoCall
<1>2. IInv /\ D /\ [Next]_vars => D'
  <2> SUFFICES ASSUME IInv, D, [Next]_vars, NEW c \in Clients PROVE Deleting(c)'
    OBVIOUS
  <2>1. CASE UNCHANGED vars
    <3>1. Spared(c)
      BY <2>1 DEF Spared, DeletedStays, Uids, vars, mailVars, indexVars, clientVars
    <3> QED BY <3>1, SparedLemma
  <2>2. CASE OtherMail
    <3>1. UNCHANGED <<blocks, call, step, todo>>
      BY <2>2 DEF OtherMail, indexVars, clientVars
    <3>2. Spared(c)
      BY <2>2, <3>1, StaysLemma DEF Spared
    <3> QED BY <3>2, SparedLemma
  <2>3. ASSUME NEW e \in Clients, BeginsAny(e) \/ Proceed(e)
        PROVE  Deleting(c)'
    <3>1. CASE c = e
      BY <2>3, <3>1, DeletingStep
    <3>2. CASE c # e
      <4>1. Db[c] # Db[e]
        BY <3>2 DEF OwnDatabases
      <4>2. Spared(c)
        BY <2>3, <3>2, <4>1, StaysLemma, LocalLemma DEF Spared
      <4> QED BY <4>2, SparedLemma
    <3> QED BY <3>1, <3>2
  <2> QED BY <2>1, <2>2, <2>3 DEF Next, BeginsAny
<1>3. D => DeletedIsForgotten
  BY DEF Deleting, DeletedIsForgotten, Live, IndexedUids
<1> QED BY <1>1, <1>2, <1>3, Inductive, PTL DEF Spec

-----------------------------------------------------------------------------
(* Refreshing, when nobody else uses the mailbox or the database. *)
LiveMails == {u \in Live : Cacheable(u)}

(* The index has this mail's block, in a mail that is still there. *)
Healed(c, u) ==
    \E b \in blocks[Db[c]] :
      /\ b.name \in {mails[u].path, Enc[mails[u].path]}
      /\ b.seq = mails[u].seq
      /\ b.uid \in Live

(* Each mail is healed, or still to be fetched or put into the index. *)
Covered(c) ==
    /\ batch[c] \subseteq Live
    /\ \A u \in LiveMails : u \in todo[c] \cup batch[c] \/ Healed(c, u)

Healing(c) ==
    /\ step[c] = "compare" => LiveMails \subseteq todo[c]
    /\ step[c] = "fetch" => batch[c] = {}
    /\ step[c] \in {"fetch", "upsert"} => Covered(c)

(* Where caching goes on. *)
LEMMA CachingPlaces ==
    ASSUME IInv, NEW c \in Clients, NEW t, NEW b, Caching(c, t, b)
    PROVE  /\ todo'[c] = t /\ batch'[c] = b
           /\ step'[c] \in {"fetch", "upsert", "done"}
           /\ step'[c] = "fetch" => b = {}
           /\ step'[c] = "done" => t = {} /\ b = {}
<1>1. /\ todo'[c] = t /\ batch'[c] = b
      /\ step'[c] = IF b # {} THEN "upsert" ELSE IF t # {} THEN "fetch" ELSE "done"
  BY DEF Caching, Goto, IInv, Shape
<1> QED BY <1>1

(* A mail whose block is put into the index is healed, and a mail that was  *)
(* healed by the entry this replaces is healed by the new one.              *)
LEMMA UpsertHeals ==
    ASSUME StoreInv, NEW c \in Clients, NEW u \in LiveMails, UNCHANGED mailVars,
           UpsertMailBlock(Db[c], mails[u].path, u)
    PROVE  /\ Healed(c, u)'
           /\ \A w \in LiveMails : Healed(c, w) => Healed(c, w)'
<1> DEFINE new == [name |-> mails[u].path, seq |-> mails[u].seq, uid |-> u]
<1>1. mails' = mails /\ Live' = Live
  BY DEF mailVars, Live, Uids
<1>2. blocks'[Db[c]] =
        {b \in blocks[Db[c]] : ~(b.name = mails[u].path /\ b.seq = mails[u].seq)} \cup {new}
  BY DbAssumption DEF UpsertMailBlock, StoreInv, StoreTyped
<1>3. \A w \in LiveMails : mails[w].path \in Paths
  BY UidsLemma, MailLemma DEF StoreInv, StoreTyped, LiveMails, Live
<1>4. new \in blocks'[Db[c]] /\ u \in Live /\ new.name = mails[u].path
      /\ new.seq = mails[u].seq /\ new.uid = u
  BY <1>2 DEF LiveMails
<1> HIDE DEF new
<1>5. Healed(c, u)'
  BY <1>1, <1>4 DEF Healed
<1>6. ASSUME NEW w \in LiveMails, Healed(c, w)
      PROVE  Healed(c, w)'
  <2>1. PICK b \in blocks[Db[c]] :
          b.name \in {mails[w].path, Enc[mails[w].path]} /\ b.seq = mails[w].seq /\ b.uid \in Live
    BY <1>6 DEF Healed
  <2>2. CASE b.name = mails[u].path /\ b.seq = mails[u].seq
    <3>1. mails[w].path = mails[u].path
      BY <1>3, <2>1, <2>2, NamesLemma
    <3> QED BY <1>1, <1>4, <2>1, <2>2, <3>1 DEF Healed
  <2>3. CASE ~(b.name = mails[u].path /\ b.seq = mails[u].seq)
    BY <1>1, <1>2, <2>1, <2>3 DEF Healed
  <2> QED BY <2>2, <2>3
<1> QED BY <1>5, <1>6

(* The steps of a refresh keep each mail covered. *)
LEMMA RefreshStep ==
    ASSUME IInv, NEW c \in Clients, Healing(c), Compare(c) \/ Fetch(c) \/ Upsert(c)
    PROVE  /\ UNCHANGED mailVars
           /\ Covered(c)'
           /\ step'[c] \in {"fetch", "upsert", "done"}
           /\ step'[c] = "fetch" => batch'[c] = {}
           /\ step'[c] = "done" => todo'[c] = {} /\ batch'[c] = {}
<1>1. UNCHANGED mailVars
  BY DEF Compare, Fetch, Upsert
<1>2. LiveMails' = LiveMails /\ Live' = Live /\ mails' = mails
  BY <1>1 DEF LiveMails, Live, Uids, Cacheable, mailVars
<1>3. CASE Compare(c)
  <2>1. Caching(c, todo[c] \ IndexedUids(Db[c]), {}) /\ blocks' = blocks
    BY <1>3 DEF Compare, indexVars
  <2>2. \A u \in LiveMails : u \in IndexedUids(Db[c]) => Healed(c, u)
    <3> SUFFICES ASSUME NEW b \in blocks[Db[c]], b.uid \in LiveMails
                 PROVE  Healed(c, b.uid)
      BY DEF IndexedUids
    <3> QED BY DbAssumption DEF IInv, StoreInv, IndexIsGrounded, Healed, LiveMails
  <2>3. LiveMails \subseteq todo[c]
    BY <1>3 DEF Compare, Healing
  <2>4. \A u : Healed(c, u)' <=> Healed(c, u)
    BY <1>2, <2>1 DEF Healed
  <2>5. Covered(c)'
    BY <1>2, <2>1, <2>2, <2>3, <2>4, CachingPlaces DEF Covered
  <2> QED BY <1>1, <2>1, <2>5, CachingPlaces
<1>4. CASE Fetch(c)
  <2> DEFINE b == NextBatch(todo[c])
             f == {u \in b \cap Live : Cacheable(u)}
  <2>1. Caching(c, todo[c] \ b, f) /\ blocks' = blocks
    BY <1>4 DEF Fetch, indexVars
  <2>2. f \subseteq Live /\ \A u \in LiveMails : u \in b => u \in f
    BY DEF LiveMails
  <2> HIDE DEF b, f
  <2>3. batch[c] = {} /\ Covered(c)
    BY <1>4 DEF Fetch, Healing
  <2>4. \A u : Healed(c, u)' <=> Healed(c, u)
    BY <1>2, <2>1 DEF Healed
  <2>5. Covered(c)'
    BY <1>2, <2>1, <2>2, <2>3, <2>4, CachingPlaces DEF Covered
  <2> QED BY <1>1, <2>1, <2>5, CachingPlaces
<1>5. CASE Upsert(c)
  <2>1. PICK u : /\ u = Min(batch[c])
                 /\ UpsertMailBlock(Db[c], mails[u].path, u)
                 /\ Caching(c, todo[c], batch[c] \ {u})
    BY <1>5 DEF Upsert
  <2>2. u \in batch[c]
    <3>1. batch[c] \in SUBSET Nat /\ batch[c] # {}
      BY <1>5, UidsLemma DEF Upsert, IInv, StoreInv, StoreTyped, ClientInv, ClientTyped
    <3> QED BY <2>1, <3>1, MinLemma
  <2>3. Covered(c) /\ u \in LiveMails
    BY <1>5, <2>2 DEF Upsert, Healing, Covered, LiveMails, IInv, ClientInv
  <2>4. Healed(c, u)' /\ \A w \in LiveMails : Healed(c, w) => Healed(c, w)'
    BY <1>1, <2>1, <2>3, UpsertHeals DEF IInv
  <2>5. Covered(c)'
    BY <1>2, <2>1, <2>3, <2>4, CachingPlaces DEF Covered
  <2> QED BY <1>1, <2>1, <2>5, CachingPlaces
<1> QED BY <1>3, <1>4, <1>5

(* What a refresh has done stays done while nobody else is there: other     *)
(* programs' mails are not cached.                                          *)
LEMMA HealingStep ==
    ASSUME IInv, [Next]_vars, NEW c \in Clients, Clients = {c}, Healing(c)
    PROVE  Healing(c)'
<1>1. CASE UNCHANGED vars
  BY <1>1 DEF vars, mailVars, indexVars, clientVars, Healing, Covered, Healed, LiveMails, Live,
     Uids, Cacheable
<1>2. CASE OtherMail
  <2>1. UNCHANGED <<expunged, blocks, step, todo, batch>>
    BY <1>2 DEF OtherMail, indexVars, clientVars
  <2>2. Grown /\ Uids' = Uids \cup {Len(mails) + 1} /\ mails'[Len(mails) + 1] = Junk
    BY <1>2, AppendLemma, MailLemma DEF OtherMail, IInv
  <2>3. LiveMails' \subseteq LiveMails /\ Live \subseteq Live'
    BY <2>1, <2>2 DEF LiveMails, Live, Cacheable, Grown
  <2>4. \A u \in LiveMails : Healed(c, u) => Healed(c, u)'
    BY <2>1, <2>2, <2>3 DEF Healed, LiveMails, Live, Grown
  <2>5. Covered(c) => Covered(c)'
    BY <2>1, <2>3, <2>4 DEF Covered
  <2> QED BY <2>1, <2>3, <2>5 DEF Healing
<1>3. CASE Search(c)
  <2>1. UNCHANGED mailVars /\ step'[c] = "compare" /\ todo'[c] = Live
    BY <1>3 DEF Search, Goto, IInv, Shape
  <2> QED BY <2>1 DEF Healing, LiveMails, Live, Uids, Cacheable, mailVars
<1>4. CASE Compare(c) \/ Fetch(c) \/ Upsert(c)
  BY <1>4, RefreshStep DEF Healing
<1>5. CASE BeginsAny(c)
  <2>1. step'[c] \in {"search", "append", "done", "flag", "survey"}
    BY <1>5 DEF BeginsAny, CacheMailbox, UploadFile, DeleteMessageUid, DeduplicateMailbox, Goto,
       IInv, Shape
  <2> QED BY <2>1 DEF Healing
<1>6. CASE AppendMessage(c) \/ AppendUnheard(c) \/ Record(c)
  <2>1. step'[c] \in {"append", "record", "done"}
    BY <1>6 DEF AppendMessage, AppendUnheard, Record, NextBlock, Goto, IInv, Shape, clientVars
  <2> QED BY <2>1 DEF Healing
<1>7. CASE Flag(c) \/ Expunge(c) \/ Forget(c) \/ Return(c) \/ Abort(c)
  <2>1. step'[c] \in {"expunge", "forget", "clear", "flag", "done", "idle"}
    BY <1>7 DEF Flag, Expunge, Forget, Return, Abort, Forgotten, Goto, IInv, Shape
  <2> QED BY <2>1 DEF Healing
<1>8. CASE Survey(c) \/ Clear(c)
  <2>1. step'[c] \in {"list", "search"}
    BY <1>8 DEF Survey, Clear, Goto, IInv, Shape
  <2> QED BY <2>1 DEF Healing
<1>9. CASE ListFiles(c) \/ Gather(c)
  <2>1. PICK t, K : Gathering(c, t, K)
    BY <1>9 DEF ListFiles, Gather
  <2>2. \E s \in {"gather", "flag", "done"} : step' = [step EXCEPT ![c] = s]
    BY <2>1 DEF Gathering, Goto
  <2>3. step'[c] \in {"gather", "flag", "done"}
    BY <2>2 DEF IInv, Shape
  <2> QED BY <2>3 DEF Healing
<1> QED
  BY <1>1, <1>2, <1>3, <1>4, <1>5, <1>6, <1>7, <1>8, <1>9 DEF Next, Proceed, BeginsAny

(* Only the last step of a refresh ends it. *)
LEMMA RefreshEnds ==
    ASSUME IInv, [Next]_vars, NEW c \in Clients, Clients = {c},
           step[c] \in {"compare", "fetch", "upsert"}, step'[c] = "done"
    PROVE  Compare(c) \/ Fetch(c) \/ Upsert(c)
<1>1. ~UNCHANGED vars /\ ~OtherMail
  BY DEF vars, clientVars, OtherMail
<1>2. ~BeginsAny(c)
  BY DEF BeginsAny, CacheMailbox, UploadFile, DeleteMessageUid, DeduplicateMailbox, Begin
<1>3. ~(AppendMessage(c) \/ AppendUnheard(c) \/ Record(c) \/ Search(c))
  BY DEF AppendMessage, AppendUnheard, Record, Search
<1>4. ~(Flag(c) \/ Expunge(c) \/ Forget(c) \/ Survey(c) \/ ListFiles(c) \/ Gather(c) \/ Clear(c))
  BY DEF Flag, Expunge, Forget, Survey, ListFiles, Gather, Clear
<1>5. ~Return(c)
  BY DEF Return
<1>6. ~Abort(c)
  <2>1. Abort(c) => step'[c] = "idle"
    BY DEF Abort, Forgotten, Goto, IInv, Shape
  <2> QED BY <2>1
<1> QED BY <1>1, <1>2, <1>3, <1>4, <1>5, <1>6 DEF Next, Proceed, BeginsAny

(* A refresh that returns to the only client has healed the index as far as *)
(* the mailbox can, whatever the index held when it began, for any batch    *)
(* size and whatever other programs leave in the mailbox meanwhile.         *)
THEOREM RefreshHealsHolds == Spec => RefreshHeals
<1> DEFINE H == \A c \in Clients : Clients = {c} => Healing(c)
<1>1. Init => H
  BY DEF Init, Healing
<1>2. IInv /\ H /\ [Next]_vars => H'
  <2> SUFFICES ASSUME IInv, H, [Next]_vars, NEW c \in Clients, Clients = {c}
               PROVE  Healing(c)'
    OBVIOUS
  <2> QED BY HealingStep
<1>3. IInv /\ H /\ [Next]_vars =>
        [\A c \in Clients :
           Clients = {c} /\ step[c] \in {"compare", "fetch", "upsert"} /\ step'[c] = "done" =>
             \A u \in {w \in Live : Cacheable(w)} :
               \E b \in blocks'[Db[c]] :
                 /\ b.name \in {mails[u].path, Enc[mails[u].path]} /\ b.seq = mails[u].seq
                 /\ b.uid \in Live]_vars
  <2> SUFFICES ASSUME IInv, H, [Next]_vars, NEW c \in Clients, Clients = {c},
                      step[c] \in {"compare", "fetch", "upsert"}, step'[c] = "done",
                      NEW u \in LiveMails
               PROVE  \E b \in blocks'[Db[c]] :
                        /\ b.name \in {mails[u].path, Enc[mails[u].path]} /\ b.seq = mails[u].seq
                        /\ b.uid \in Live
    BY DEF LiveMails
  <2>1. Healing(c) /\ (Compare(c) \/ Fetch(c) \/ Upsert(c))
    BY RefreshEnds
  <2>2. UNCHANGED mailVars /\ Covered(c)' /\ todo'[c] = {} /\ batch'[c] = {}
    BY <2>1, RefreshStep
  <2>3. mails' = mails /\ Live' = Live /\ LiveMails' = LiveMails
    BY <2>2 DEF mailVars, Live, Uids, LiveMails, Cacheable
  <2>4. Healed(c, u)'
    BY <2>2, <2>3 DEF Covered
  <2> QED BY <2>3, <2>4 DEF Healed
<1> QED BY <1>1, <1>2, <1>3, Inductive, PTL DEF Spec, RefreshHeals
=============================================================================
