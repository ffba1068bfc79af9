------------------------------ MODULE MCFormats ------------------------------
(***************************************************************************)
(* What is stored is read back: one run for the three conversions, the     *)
(* ranges of a file (RangeStream), the text of a mail (MailFormat) and the *)
(* names of mailboxes (MailboxNames).  A behaviour is one of them.         *)
(***************************************************************************)
EXTENDS RangeStream, MailFormat, MailboxNames

(* Files of one to three blocks of one to three bytes, with a last block of *)
(* any size; with the sizes in the index, in the mail, or in neither.       *)
FileOf(b, n, l, told_blocks, in_index, in_mail) ==
    LET size == (n - 1) * b + l
    IN  [at         |-> [i \in 1 .. n + 1 |-> IF i = n + 1 THEN size ELSE (i - 1) * b],
         block_size |-> [i \in 1..n |-> IF ~told_blocks THEN 0 ELSE IF i = n THEN l ELSE b],
         file_size  |-> IF in_index THEN size ELSE 0,
         told       |-> IF in_mail THEN size ELSE 0]

MCDefaultBlockSize == 2
MCFiles ==
    LET shapes == {x \in (1..3) \X (1..3) \X (1..3) : x[3] <= x[1]}
        all    == {FileOf(x[1], x[2], x[3], t, i, m) : x \in shapes, t, i, m \in BOOLEAN}
    IN  {f \in all : \A k \in 1..LastBlock(f) :
            /\ f.block_size[k] = 0 => k = LastBlock(f) \/ BlockLen(f, k) = MCDefaultBlockSize
            /\ f.file_size = 0 /\ f.told = 0 => LastBlock(f) = 1}

(* Positions up to the size of the largest file and one beyond.             *)
MCHeaders ==
    [form : {Absent, Bad}, first : {NoText}, last : {NoText}]
    \cup [form : {Ranged}, first : {NoText, Garbage} \cup 0..9, last : {NoText, Garbage} \cup 0..10]

(* Names with what the conversions treat as special: = with and without hex *)
(* digits behind it, blanks, a line feed, colons, a dash, a byte above 126. *)
Strings(S, n) == UNION {[1..k -> S] : k \in 1..n}
Names == Strings({97, Equals, 50, Space, LF, Colon, 195, Dash}, 3)
         \cup {<<97, Equals, 51, 68, 52, 49>>, <<Equals, 51, 68, 51, 68, 52, 49>>}
Mailboxes == {<<73>>, <<Dot, 104>>, <<73, Slash, Dot, 104>>, <<73, Dot, 104>>, <<73, Equals>>,
              <<195, Backslash, 73>>, <<Equals, 50, 48, Dot>>}
Payloads == {<<0>>, <<255, 61>>, <<13, 10, 61>>, <<255, 0, 1, 128>>}

UploadOf(d, n, m, o, p, c) ==
    [directory |-> d, name |-> n, mailbox |-> m, owner |-> o, payload |-> p, seq |-> 1, count |-> c]
MCUploads ==
    {UploadOf(<<Slash>>, n, m, <<111>>, <<0>>, 1) : n \in Names, m \in {<<73>>, <<Dot, 104>>}}
    \cup {UploadOf(<<67, Colon, Backslash>>, n, m, o, p, 2) :
            n \in {<<97>>, <<195, 97>>, <<97, Equals, 195>>}, m \in Mailboxes,
            o \in {<<111>>, <<111, Equals>>}, p \in Payloads}

(* One mailbox with a name of up to three units, direct and not, or of      *)
(* surrogates; two mailboxes whose names have wildcards and escapes; and    *)
(* raw names of others: not encoded, a % and an a in segments, a segment    *)
(* without an end, one of an odd number of bytes, one with bits too many, a *)
(* lone surrogate.                                                          *)
Mailbox(n) == [name |-> n, raw |-> encode_imap_utf7(n)]
Other(raw) == [name |-> decode_imap_utf7(raw), raw |-> raw]
Others == {Other(r) : r \in {<<233>>, <<38, 65, 67, 85, 45>>, <<38, 65, 71, 69, 45>>, <<97, 38, 65>>,
                            <<38, 65, 71, 45>>, <<38, 65, 71, 70, 45>>, <<38, 50, 68, 48, 45>>,
                            <<34, 38, 65, 67, 85, 45, 97>>}}

MCServers ==
    {{Mailbox(n)} : n \in Strings({97, Ampersand, Hyphen, Quote, Escape, Gap, Percent, 233, 20013, 31}, 2)
                 \cup Strings({97, Ampersand, Hyphen, 233, 20013}, 3)
                 \cup {<<55357, 56832>>, <<55357, 56832, 97, 233>>, <<233, 20013, 31, 65535, 65>>}}
    \cup {{Mailbox(m), Mailbox(n)} : m, n \in Strings({97, Quote, Escape, Percent}, 2)}
    \cup {{m, n} : m \in Others, n \in Others \cup {Mailbox(n) : n \in {<<97>>, <<233>>, <<Percent>>, <<Percent, 97>>}}}

RangeIdle == phase = "idle"
MailIdle  == upload = NoMail
NamesIdle == mailboxes = {}

MCInit == Init /\ MailInit /\ NamesInit
MCNext ==
    \/ MailIdle /\ NamesIdle /\ Next /\ UNCHANGED <<mail_vars, name_vars>>
    \/ RangeIdle /\ NamesIdle /\ MailNext /\ UNCHANGED <<vars, name_vars>>
    \/ RangeIdle /\ MailIdle /\ NamesNext /\ UNCHANGED <<vars, mail_vars>>

MCSpec == MCInit /\ [][MCNext]_<<vars, mail_vars, name_vars>>
=============================================================================
