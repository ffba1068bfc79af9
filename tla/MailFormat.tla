------------------------------ MODULE MailFormat ------------------------------
(***************************************************************************)
(* What a mail says about its block, written by upload_file and read back  *)
(* on two ways that do not decode alike: cache_mailbox parses the metadata *)
(* part as the server holds it, fetch_cached_block the part that           *)
(* MimeMessage::parse has decoded already; parse_cached_metadata_text then *)
(* decodes the text again, and its fields once more.                       *)
(*                                                                         *)
(* A text is a sequence of bytes.  A word the program itself writes (a     *)
(* field's name, "plain", a number) is one symbol above the bytes: no      *)
(* conversion changes its letters.  The fields of digits only (digests,    *)
(* sizes, the time) are left out of the text for that reason, and a        *)
(* payload stands for its MD5.  Also left out: the MIME frame around the   *)
(* two parts, and the JSON and base64 forms that other programs write.     *)
(***************************************************************************)
EXTENDS Integers, Sequences, SequencesExt

CONSTANTS
    Uploads    \* [directory, name, mailbox, owner, payload, seq, count]

TAB == 9  LF == 10  CR == 13  Space == 32  Dash == 45  Dot == 46  Slash == 47
Colon == 58  Equals == 61  Backslash == 92

Subject == 301  Owner == 302  LocalPath == 303  MailFolder == 304
Plain == 311  Encrypted == 312
Number(n) == 400 + n

Octet == 0..255

(* A file's name is not empty and has no slash; blocks count from one.      *)
ASSUME UploadsAssumption ==
    /\ Uploads \subseteq [directory : Seq(Octet), name : Seq(Octet), mailbox : Seq(Octet),
                          owner : Seq(Octet), payload : Seq(Octet), seq : Nat \ {0}, count : Nat \ {0}]
    /\ \A u \in Uploads : u.name # <<>> /\ Slash \notin ToSet(u.name)

VARIABLES
    upload,      \* the block that is stored
    message,     \* its mail in the mailbox
    index,       \* its entry in the index; <<>> or <<entry>>
    rebuilt,     \* the entry comes from the mail
    restored     \* fetch_cached_block's answer: none, an error or the payload

mail_vars == <<upload, message, index, rebuilt, restored>>

-----------------------------------------------------------------------------
(* Quoted-printable, of MIME parts and of cached text alike.                *)
Direct(b) == b \in 33..126 \ {Equals} \/ b \in {Space, TAB, CR, LF} \/ b > 255
HexDigit(n) == IF n < 10 THEN 48 + n ELSE 55 + n
HexValue(c) ==
    CASE c \in 48..57  -> c - 48
      [] c \in 65..70  -> c - 55
      [] c \in 97..102 -> c - 87
      [] OTHER         -> -1

encode_quoted_printable(s) ==
    FlattenSeq([i \in 1..Len(s) |->
        IF Direct(s[i]) THEN <<s[i]>>
        ELSE <<Equals, HexDigit(s[i] \div 16), HexDigit(s[i] % 16)>>])

(* What is read at s[i], and where the reading goes on: a soft line break   *)
(* goes, a pair of hex digits becomes a byte, and any other = stays.        *)
Following(s, i) == IF i <= Len(s) THEN s[i] ELSE -1

SoftBreak(s, i) ==
    IF s[i] # Equals THEN 0
    ELSE IF Following(s, i + 1) = LF THEN 2
    ELSE IF Following(s, i + 1) = CR /\ Following(s, i + 2) = LF THEN 3 ELSE 0

IsHexPair(s, i) ==
    s[i] = Equals /\ HexValue(Following(s, i + 1)) >= 0 /\ HexValue(Following(s, i + 2)) >= 0

PrintableAt(s, i) ==
    IF SoftBreak(s, i) > 0 THEN <<>>
    ELSE IF IsHexPair(s, i) THEN <<16 * HexValue(s[i + 1]) + HexValue(s[i + 2])>>
    ELSE <<s[i]>>

PrintableTo(s, i) ==
    IF SoftBreak(s, i) > 0 THEN i + SoftBreak(s, i) ELSE IF IsHexPair(s, i) THEN i + 3 ELSE i + 1

Unprinting(s) ==
    LET From[i \in 1 .. Len(s) + 1] ==
            IF i > Len(s) THEN <<>> ELSE PrintableAt(s, i) \o From[PrintableTo(s, i)]
    IN  From

decode_quoted_printable(s) == Unprinting(s)[1]

(* Base64 of a MIME part, as digits 0..63 and Pad.                          *)
Pad == 64
base64_encode(s) ==
    LET At(i) == IF i <= Len(s) THEN s[i] ELSE 0
        Group(i) ==
            <<At(i) \div 4,
              (At(i) % 4) * 16 + At(i + 1) \div 16,
              IF i + 1 <= Len(s) THEN (At(i + 1) % 16) * 4 + At(i + 2) \div 64 ELSE Pad,
              IF i + 2 <= Len(s) THEN At(i + 2) % 64 ELSE Pad>>
    IN  [k \in 1 .. 4 * ((Len(s) + 2) \div 3) |-> Group(3 * ((k - 1) \div 4) + 1)[((k - 1) % 4) + 1]]

(* The bytes of the four digits from t[i] on. *)
BytesAt(t, i) ==
    LET Digits(j) == IF t[j] = Pad THEN 0 ELSE t[j]
    IN  <<Digits(i) * 4 + Digits(i + 1) \div 16>>
        \o (IF t[i + 2] = Pad THEN <<>> ELSE <<(Digits(i + 1) % 16) * 16 + Digits(i + 2) \div 4>>)
        \o (IF t[i + 3] = Pad THEN <<>> ELSE <<(Digits(i + 2) % 4) * 64 + Digits(i + 3)>>)

base64_decode(t) == FlattenSeq([g \in 1 .. Len(t) \div 4 |-> BytesAt(t, 4 * g - 3)])

-----------------------------------------------------------------------------
(* Encryption of names: XOR with a key, written in lower-case hex.          *)
XorKey == <<163, 95, 225, 124, 146, 75, 216, 6, 247, 49, 110, 180>>
LowerHex(n) == IF n < 10 THEN 48 + n ELSE 87 + n

Xor(a, b) ==
    LET Bit(p) == ((a \div p + b \div p) % 2) * p
    IN  Bit(1) + Bit(2) + Bit(4) + Bit(8) + Bit(16) + Bit(32) + Bit(64) + Bit(128)
Masked(b, i) == Xor(b, XorKey[((i - 1) % Len(XorKey)) + 1])

encrypt_string(s) ==
    [k \in 1 .. 2 * Len(s) |->
        LET i == (k + 1) \div 2
        IN  LowerHex(IF k % 2 = 1 THEN Masked(s[i], i) \div 16 ELSE Masked(s[i], i) % 16)]

(* What is not hex is taken to be plain. *)
decrypt_string(s) ==
    IF Len(s) % 2 # 0 \/ \E i \in 1..Len(s) : HexValue(s[i]) < 0 THEN s
    ELSE [i \in 1 .. Len(s) \div 2 |-> Masked(16 * HexValue(s[2 * i - 1]) + HexValue(s[2 * i]), i)]

(* A mailbox is encrypted if its last segment begins with a dot. *)
should_encrypt_mailbox(mailbox) ==
    \E i \in 1..Len(mailbox) :
        /\ mailbox[i] = Dot
        /\ i = 1 \/ mailbox[i - 1] \in {Slash, Backslash}
        /\ \A j \in i..Len(mailbox) : mailbox[j] \notin {Slash, Backslash}

-----------------------------------------------------------------------------
(* The text of a mail's metadata, and its parsing.                          *)
Line(key, value) == <<key, Colon>> \o value \o <<CR, LF>>

to_legacy_text(m) ==
    Line(Subject, m.subject) \o Line(Owner, m.owner)
    \o Line(LocalPath, m.local_path) \o Line(MailFolder, m.mail_folder)

make_subject(name, encrypted, seq, count) ==
    name \o <<Slash, IF encrypted THEN Encrypted ELSE Plain, Slash, Number(seq), Dash, Number(count)>>

Blank == {Space, TAB, CR, LF}
Trim(s) ==
    LET kept == {i \in 1..Len(s) : s[i] \notin Blank}
    IN  IF kept = {} THEN <<>> ELSE SubSeq(s, Min(kept), Max(kept))

(* std::getline up to the end: the piece at s[i] and where the next begins. *)
EndIn(s, delimiter, i) == SelectInSubSeq(s, i, Len(s), LAMBDA b : b = delimiter)

PieceAt(s, delimiter, i) ==
    SubSeq(s, i, IF EndIn(s, delimiter, i) = 0 THEN Len(s) ELSE EndIn(s, delimiter, i) - 1)

PieceTo(s, delimiter, i) ==
    IF EndIn(s, delimiter, i) = 0 THEN Len(s) + 1 ELSE EndIn(s, delimiter, i) + 1

Pieces(s, delimiter) ==
    LET From[i \in 1 .. Len(s) + 1] ==
            IF i > Len(s) THEN <<>> ELSE <<PieceAt(s, delimiter, i)>> \o From[PieceTo(s, delimiter, i)]
    IN  From

Split(s, delimiter) == Pieces(s, delimiter)[1]

NoSubject == [encrypted |-> FALSE, seq |-> 0, count |-> 0]

parse_subject(subject) ==
    LET parts == Split(subject, Slash)
        block == Split(parts[3], Dash)
        IsNumber(s) == s # <<>> /\ s[1] > Number(0)
    IN  IF Len(parts) # 3 THEN NoSubject
        ELSE IF Len(block) # 2 THEN NoSubject
        ELSE IF ~(IsNumber(block[1]) /\ IsNumber(block[2])) THEN NoSubject
        ELSE [encrypted |-> parts[2] = <<Encrypted>>,
              seq |-> block[1][1] - Number(0), count |-> block[2][1] - Number(0)]

(* A line is split at its first colon; what has none has no key.            *)
ColonOf(line) == SelectInSeq(Trim(line), LAMBDA b : b = Colon)
KeyOf(line)   == Trim(SubSeq(Trim(line), 1, ColonOf(line) - 1))
ValueOf(line) == Trim(SubSeq(Trim(line), ColonOf(line) + 1, Len(Trim(line))))

(* The first line of a key counts. *)
Value(lines, key) ==
    LET k == SelectInSeq(lines, LAMBDA line : KeyOf(line) = <<key>>)
    IN  IF k = 0 THEN <<>> ELSE ValueOf(lines[k])

from_legacy_text(text) ==
    LET lines == Split(text, LF)
        info  == parse_subject(Value(lines, Subject))
    IN  [subject |-> Value(lines, Subject), owner |-> Value(lines, Owner),
         local_path |-> Value(lines, LocalPath), mail_folder |-> Value(lines, MailFolder),
         block_seq |-> info.seq, block_count |-> info.count, encrypted |-> info.encrypted]

Decoded(m) ==
    [m EXCEPT !.subject = decode_quoted_printable(@), !.owner = decode_quoted_printable(@),
              !.local_path = decode_quoted_printable(@), !.mail_folder = decode_quoted_printable(@)]

(* Metadata without any content is none. *)
Usable(m) ==
    IF m.subject # <<>> \/ m.local_path # <<>> \/ m.block_seq > 0 \/ m.block_count > 0
    THEN <<m>> ELSE <<>>

(* try_parse: the fields are decoded whether the text was or not.           *)
TryParse(text) ==
    IF Trim(text) = <<>> THEN <<>> ELSE Usable(Decoded(from_legacy_text(Trim(text))))

FirstOf(a, b) == IF a # <<>> THEN a ELSE b

(* The decoded text is tried first, then the text as it is; a text that     *)
(* decoding does not change is the same in both.                            *)
parse_cached_metadata_text(text) ==
    FirstOf(TryParse(decode_quoted_printable(text)), TryParse(text))

(* Mutant of Metadata: the path stays encrypted. *)
MetadataAsStored(text) == parse_cached_metadata_text(text)

Decrypted(parsed) ==
    IF parsed # <<>> /\ parsed[1].encrypted
    THEN <<[parsed[1] EXCEPT !.local_path = decrypt_string(@)]>> ELSE parsed

(* The text with its encrypted path decrypted: <<metadata>>, or <<>> for    *)
(* an error.                                                                *)
Metadata(text) == Decrypted(parse_cached_metadata_text(text))

-----------------------------------------------------------------------------
is_cacheable(m) == m.subject # <<>> /\ m.local_path # <<>> /\ m.block_seq > 0 /\ m.block_count > 0

Entry(m, payload) ==
    [mail_folder |-> m.mail_folder, local_path |-> m.local_path,
     block_seq |-> m.block_seq, block_count |-> m.block_count, block_md5 |-> payload]

local_path_text(u) == u.directory \o u.name

(* The metadata upload_file makes for a block. *)
Uploaded(u) ==
    LET encrypted == should_encrypt_mailbox(u.mailbox)
        Stored(s) == IF encrypted THEN encrypt_string(s) ELSE s
    IN  [subject |-> make_subject(Stored(u.name), encrypted, u.seq, u.count),
         owner |-> u.owner, local_path |-> Stored(local_path_text(u)), mail_folder |-> u.mailbox,
         block_seq |-> u.seq, block_count |-> u.count, encrypted |-> encrypted]

build_message(m, payload) ==
    [metadata |-> encode_quoted_printable(to_legacy_text(m)), attachment |-> base64_encode(payload)]

NoMail == <<>>
MailInit ==
    /\ upload = NoMail /\ message = NoMail /\ index = NoMail /\ restored = NoMail
    /\ rebuilt = FALSE

(* A block of upload_file: its mail, and the index entry from the same      *)
(* metadata.                                                                *)
UploadBlock ==
    /\ upload = NoMail
    /\ upload' \in Uploads
    /\ message' = build_message(Uploaded(upload'), upload'.payload)
    /\ index' = <<Entry(Uploaded(upload'), upload'.payload)>>
    /\ UNCHANGED <<rebuilt, restored>>

(* What cache_mailbox makes of the metadata of a mail in mailbox.           *)
Cacheable(m, mailbox, payload) ==
    IF m = <<>> \/ ~is_cacheable(m[1]) THEN <<>>
    ELSE <<Entry([m[1] EXCEPT !.mail_folder = IF @ = <<>> THEN mailbox ELSE @], payload)>>

(* A client without that entry builds its own: cache_mailbox, from the part *)
(* as the server sends it.  The block's digest is its field in the mail.    *)
CacheMailbox ==
    /\ upload # NoMail /\ restored = NoMail
    /\ rebuilt' = TRUE
    /\ index' = Cacheable(Metadata(message.metadata), upload.mailbox, upload.payload)
    /\ UNCHANGED <<upload, message, restored>>

normalize_slashes(s) == [i \in 1..Len(s) |-> IF s[i] = Backslash THEN Slash ELSE s[i]]
SameText(a, b) == normalize_slashes(a) = normalize_slashes(b)

(* A fetched mail is the entry's: its digest, its folder and its path.      *)
Matches(m, payload, entry) ==
    /\ m # <<>>
    /\ payload = entry.block_md5
    /\ SameText(m[1].mail_folder, entry.mail_folder)
    /\ SameText(m[1].local_path, entry.local_path)

(* fetch_cached_block with the entry: extract_metadata_from_message reads   *)
(* the part that MimeMessage::parse has decoded.                            *)
FetchBlock ==
    LET payload == base64_decode(message.attachment)
    IN  /\ index # <<>> /\ restored = NoMail
        /\ restored' = IF Matches(Metadata(decode_quoted_printable(message.metadata)), payload, index[1])
                       THEN <<"payload", payload>> ELSE <<"error">>
        /\ UNCHANGED <<upload, message, index, rebuilt>>

MailNext == UploadBlock \/ CacheMailbox \/ FetchBlock

MailSpec == MailInit /\ [][MailNext]_mail_vars

-----------------------------------------------------------------------------
(* A text that survives in a field: one line without blanks at its ends,    *)
(* and no = that decoding would take for an escape or a soft break.         *)
Kept(s) ==
    /\ s # <<>> /\ Trim(s) = s /\ LF \notin ToSet(s)
    /\ decode_quoted_printable(s) = s /\ Last(s) # Equals

KeptUpload(u) ==
    /\ Kept(u.mailbox) /\ Kept(u.owner)
    /\ should_encrypt_mailbox(u.mailbox) \/ Kept(local_path_text(u))

(* What upload stores can be restored.  Any other client that indexes the   *)
(* mail finds the file under its own path and mailbox and its block at its  *)
(* place, and a block that is fetched for this entry, or for the entry that *)
(* upload made in a plain mailbox, is the payload and not an error: for any *)
(* payload, for any name in an encrypted mailbox, and in a plain one for a  *)
(* name that survives the three decodings.                                  *)
UploadedIsRestorable ==
    upload # NoMail /\ KeptUpload(upload) =>
        LET m == Uploaded(upload)
        IN  /\ rebuilt => index = <<Entry([m EXCEPT !.local_path = local_path_text(upload)],
                                          upload.payload)>>
            /\ restored # NoMail /\ (rebuilt \/ ~m.encrypted) =>
                restored = <<"payload", upload.payload>>
=============================================================================
