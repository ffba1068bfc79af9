----------------------------- MODULE MailboxNames -----------------------------
(***************************************************************************)
(* Mailbox names between the user and the IMAP server: list_mailboxes and  *)
(* select_mailbox_once of ImapClient with imap_utf7.cpp and the parser of  *)
(* LIST responses.                                                         *)
(*                                                                         *)
(* A name is a sequence of UTF-16 code units, the form that the encoding   *)
(* works on; a raw name, as the server has it, a sequence of characters.   *)
(* A mailbox has both.  Its raw name may be one that this encoding would   *)
(* not write: a server or another client may use segments that say nothing *)
(* or more than they need, or no encoding at all.                          *)
(***************************************************************************)
EXTENDS Integers, Sequences, SequencesExt

CONSTANTS
    Servers    \* sets of a server's mailboxes, [name, raw]

Gap == 32  Quote == 34  Percent == 37  Ampersand == 38  Asterisk == 42  Hyphen == 45  Escape == 92

(* Code units, and characters: a raw name is what utf8_to_utf16 gives too.  *)
Units == 0 .. 2^16 - 1

VARIABLES
    mailboxes,   \* those of the server
    style,       \* how it writes names in LIST responses
    wanted,      \* the name the user gives, <<>> for none
    listed,      \* what list_mailboxes shows, <<mailbox, name>>
    selected     \* the mailbox that SELECT opened, {} if it was refused

name_vars == <<mailboxes, style, wanted, listed, selected>>

-----------------------------------------------------------------------------
(* Modified base64: digits written as A-Z, a-z, 0-9, + and comma.           *)
Alphabet ==
    [d \in 0..63 |-> CASE d < 26 -> 65 + d [] d \in 26..51 -> 71 + d [] d \in 52..61 -> d - 4
                       [] d = 62 -> 43 [] d = 63 -> 44]
IsDigit(ch) == \E d \in 0..63 : Alphabet[d] = ch
Digit(ch) == CHOOSE d \in 0..63 : Alphabet[d] = ch

Bytes(units) ==
    [k \in 1 .. 2 * Len(units) |->
        IF k % 2 = 1 THEN units[(k + 1) \div 2] \div 256 ELSE units[k \div 2] % 256]

(* Three bytes are four digits; one or two left at the end are two or three.*)
encode_modified_base64(bytes) ==
    LET At(i) == IF i <= Len(bytes) THEN bytes[i] ELSE 0
        Group(i) == <<At(i) \div 4,
                      (At(i) % 4) * 16 + At(i + 1) \div 16,
                      (At(i + 1) % 16) * 4 + At(i + 2) \div 64,
                      At(i + 2) % 64>>
        length == (8 * Len(bytes) + 5) \div 6
    IN  [k \in 1..length |-> Alphabet[Group(3 * ((k - 1) \div 4) + 1)[((k - 1) % 4) + 1]]]

encode_utf16_segment(units) ==
    <<Ampersand>> \o encode_modified_base64(Bytes(units)) \o <<Hyphen>>

IsDirect(unit) == unit \in 32..126 \ {Ampersand}

(* Units that are not direct wait until one is; then they become a segment. *)
Flushed(st) ==
    [encoded |-> st.encoded \o (IF st.pending = <<>> THEN <<>> ELSE encode_utf16_segment(st.pending)),
     pending |-> <<>>]

(* Mutant of Put: the waiting units are not flushed before. *)
PutUnflushed(st, chars) == [encoded |-> st.encoded \o chars, pending |-> st.pending]

Put(st, chars) == [encoded |-> Flushed(st).encoded \o chars, pending |-> <<>>]

EncodeUnit(st, unit) ==
    IF IsDirect(unit) THEN Put(st, <<unit>>)
    ELSE IF unit = Ampersand THEN Put(st, <<Ampersand, Hyphen>>)
    ELSE [st EXCEPT !.pending = Append(@, unit)]

Encoding(name) ==
    LET After[i \in 0..Len(name)] ==
            IF i = 0 THEN [encoded |-> <<>>, pending |-> <<>>]
            ELSE EncodeUnit(After[i - 1], name[i])
    IN  After

encode_imap_utf7(name) == Flushed(Encoding(name)[Len(name)]).encoded

(* decode_modified_base64: the accumulator is an int that is only shifted;  *)
(* no more than its low 14 bits are ever looked at.  NoBytes is a throw.    *)
NoBytes == <<-1>>
DecodeChar(st, ch) ==
    LET acc  == (st.acc * 64 + Digit(ch)) % 2^14
        bits == st.bits + 6
    IN  IF bits < 8 THEN [acc |-> acc, bits |-> bits, out |-> st.out]
        ELSE [acc |-> acc, bits |-> bits - 8,
              out |-> Append(st.out, (acc \div 2^(bits - 8)) % 256)]

Decoding(text) ==
    LET After[i \in 0..Len(text)] ==
            IF i = 0 THEN [acc |-> 0, bits |-> 0, out |-> <<>>]
            ELSE DecodeChar(After[i - 1], text[i])
    IN  After

decode_modified_base64(text) ==
    LET end == Decoding(text)[Len(text)]
    IN  IF \E k \in 1..Len(text) : ~IsDigit(text[k]) THEN NoBytes
        ELSE IF end.acc % 2^end.bits # 0 THEN NoBytes ELSE end.out

(* A surrogate that has no partner is taken as refused by utf16_to_utf8,    *)
(* whose library decides: libstdc++ drops a high one at the end instead.    *)
High == 55296..56319
Low  == 56320..57343
Paired(units) ==
    \A i \in 1..Len(units) :
        /\ units[i] \in High => i < Len(units) /\ units[i + 1] \in Low
        /\ units[i] \in Low => i > 1 /\ units[i - 1] \in High

IsText(s) == s \in Seq(Units) /\ Paired(s)

(* A segment that cannot be decoded stays as it is.                         *)
decode_utf16_segment(text) ==
    LET bytes == decode_modified_base64(text)
        units == [i \in 1 .. Len(bytes) \div 2 |-> bytes[2 * i - 1] * 256 + bytes[2 * i]]
    IN  IF text = <<>> THEN <<Ampersand>>
        ELSE IF bytes = NoBytes \/ Len(bytes) % 2 # 0 \/ ~Paired(units)
             THEN <<Ampersand>> \o text \o <<Hyphen>>
             ELSE units

(* What is read at raw[i], and where the reading goes on: a unit, a segment *)
(* with its end, or all the rest if the segment has none.                   *)
EndOf(raw, i) == SelectInSubSeq(raw, i, Len(raw), LAMBDA ch : ch = Hyphen)

ReadAt(raw, i) ==
    IF raw[i] # Ampersand THEN <<raw[i]>>
    ELSE IF EndOf(raw, i) = 0 THEN SubSeq(raw, i, Len(raw))
    ELSE decode_utf16_segment(SubSeq(raw, i + 1, EndOf(raw, i) - 1))

ReadTo(raw, i) ==
    IF raw[i] # Ampersand THEN i + 1
    ELSE IF EndOf(raw, i) = 0 THEN Len(raw) + 1 ELSE EndOf(raw, i) + 1

Reading(raw) ==
    LET From[i \in 1 .. Len(raw) + 1] ==
            IF i > Len(raw) THEN <<>> ELSE ReadAt(raw, i) \o From[ReadTo(raw, i)]
    IN  From

decode_imap_utf7(raw) == Reading(raw)[1]

-----------------------------------------------------------------------------
(* A quoted string, as the client sends and the server writes it, and as    *)
(* the server reads it.                                                     *)
Escaped(s) ==
    FlattenSeq([i \in 1..Len(s) |-> IF s[i] \in {Quote, Escape} THEN <<Escape, s[i]>> ELSE <<s[i]>>])

quote_string(s) == <<Quote>> \o Escaped(s) \o <<Quote>>

Unquoting(quoted) ==
    LET From[i \in 1 .. Len(quoted) + 1] ==
            IF i >= Len(quoted) \/ quoted[i] = Quote THEN <<>>
            ELSE IF quoted[i] = Escape THEN <<quoted[i + 1]>> \o From[i + 2]
            ELSE <<quoted[i]>> \o From[i + 1]
    IN  From

ServerReads(quoted) == Unquoting(quoted)[2]

(* The end of a LIST response for a mailbox: quoted, as a bare word if it   *)
(* has no special character, or as a literal, which is read on its own.     *)
IsAtom(raw) == \A i \in 1..Len(raw) : raw[i] \notin {Gap, Quote, Percent, 40, 41, Asterisk, Escape, 123}

Styles == {"quoted", "atom", "literal"}

ListLine(raw, as) ==
    IF as = "literal" THEN [tail |-> <<Gap>>, literal |-> raw]
    ELSE IF as = "atom" /\ IsAtom(raw) THEN [tail |-> <<Gap>> \o raw, literal |-> <<>>]
    ELSE [tail |-> <<Gap>> \o quote_string(raw), literal |-> <<>>]

(* The name of a quoted line is what is behind the last quote but one: it   *)
(* is not unescaped.                                                        *)
extract_raw_list_mailbox(line) ==
    LET tail == line.tail
        n == Len(tail)
        Behind(c) == SubSeq(tail, SelectLastInSubSeq(tail, 1, n - 1, LAMBDA ch : ch = c) + 1, n)
    IN  IF line.literal # <<>> THEN line.literal
        ELSE IF tail[n] = Quote THEN Front(Behind(Quote))
        ELSE Behind(Gap)

Shown(line) == decode_imap_utf7(extract_raw_list_mailbox(line))

-----------------------------------------------------------------------------
(* A mailbox has the raw name that this encoding writes for its name, or    *)
(* another one, and then the name that the decoding reads.                  *)
AsEncoded(m) == m.raw = encode_imap_utf7(m.name)

ASSUME ServersAssumption ==
    \A M \in Servers : \A m \in M :
        /\ m.raw # <<>>
        /\ \/ IsText(m.name) /\ AsEncoded(m)
           \/ IsText(m.raw) /\ m.name = decode_imap_utf7(m.raw)

HasWildcard(raw) == {Percent, Asterisk} \cap ToSet(raw) # {}
IsEscaped(raw) == {Quote, Escape} \cap ToSet(raw) # {}

NamesInit ==
    mailboxes = {} /\ style = "quoted" /\ wanted = <<>> /\ listed = {} /\ selected = {}

(* A server with its mailboxes and its way of writing names.                *)
Serve ==
    /\ mailboxes = {}
    /\ mailboxes' \in Servers /\ style' \in Styles
    /\ UNCHANGED <<wanted, listed, selected>>

(* list_mailboxes: each mailbox under the name its line shows.              *)
ListMailboxes ==
    /\ mailboxes # {} /\ listed = {}
    /\ listed' = {<<m, Shown(ListLine(m.raw, style))>> : m \in mailboxes}
    /\ UNCHANGED <<mailboxes, style, wanted, selected>>

(* The server's answer to LIST: the mailbox of this raw name, and perhaps   *)
(* all others if the name has a wildcard in it.                             *)
Answered(raw) ==
    {ListLine(m.raw, style) :
        m \in {x \in mailboxes : x.raw = raw \/ HasWildcard(raw)}}

(* select_mailbox_once: the first line that shows the name gives the raw    *)
(* name, else it is the encoded one.  SELECT opens the mailbox of this raw  *)
(* name, if there is one.                                                   *)
SelectMailbox(name) ==
    LET own     == encode_imap_utf7(name)
        matched == {l \in Answered(own) : Shown(l) = name}
        chosen  == IF matched = {} THEN {own} ELSE {extract_raw_list_mailbox(l) : l \in matched}
    IN  /\ mailboxes # {} /\ wanted = <<>>
        /\ wanted' = name
        /\ \E raw \in chosen :
            selected' = {m \in mailboxes : m.raw = ServerReads(quote_string(raw))}
        /\ UNCHANGED <<mailboxes, style, listed>>

NamesNext ==
    \/ Serve \/ ListMailboxes
    \/ \E name \in {m.name : m \in mailboxes} \cup {x[2] : x \in listed} : SelectMailbox(name)

NamesSpec == NamesInit /\ [][NamesNext]_name_vars

-----------------------------------------------------------------------------
(* A name never opens a mailbox of another name.  It opens its own if the   *)
(* server has it under the raw name that the encoding writes; but a name    *)
(* with a wildcard is answered by other lines too, and one of a mailbox     *)
(* that is written otherwise, with a quote or a backslash, is misread and   *)
(* may show the name as well.  And what list_mailboxes shows of a mailbox   *)
(* is its name, unless it has a quote or a backslash, which the parser      *)
(* leaves escaped.                                                          *)
NamesSelectThemselves ==
    /\ \A m \in selected : m.name = wanted
    /\ \A m \in mailboxes :
        /\ m.name = wanted /\ AsEncoded(m)
        /\ HasWildcard(m.raw) => \A x \in mailboxes : IsEscaped(x.raw) => AsEncoded(x)
        => selected # {}
    /\ \A x \in listed : ~IsEscaped(x[1].raw) => x[2] = x[1].name
=============================================================================
