----------------------------- MODULE RangeStream -----------------------------
(***************************************************************************)
(* The bytes of a download: handle_request of HttpImapDownloadServer from  *)
(* the resolved file record on.  It adds up the blocks' sizes, reads the   *)
(* Range header, finds the block of the first byte and writes blocks until *)
(* the range is used up.  The three loops are steps of this module, so     *)
(* that what they compute follows from what a turn does.  How blocks are   *)
(* obtained is DownloadServer's; here a block is there when it is asked    *)
(* for.                                                                    *)
(*                                                                         *)
(* A byte is its position in the file.  A file is a record of what the     *)
(* mails hold (at: the position of each block's first byte and of the end; *)
(* told: the file size in the first mail, 0 if it has none) and of what    *)
(* the index says (block_size, file_size; 0 where a mail told nothing).    *)
(***************************************************************************)
EXTENDS Integers, Sequences

CONSTANTS
    Files,
    Headers,             \* Range headers, [form, first, last]
    default_block_size   \* of the server's configuration

Absent  == "absent"      \* no Range header
Bad     == "bad"         \* not "bytes=", or no dash
Ranged  == "ranged"      \* the first range of the header
NoText   == -1            \* no text before or after the dash
Garbage == -2            \* text that std::stoull refuses

LastBlock(f) == Len(f.block_size)
Size(f) == f.at[LastBlock(f) + 1]
BlockLen(f, i) == f.at[i + 1] - f.at[i]

(* A file as upload_file leaves it: every block has a byte, and the index   *)
(* has the block's own size.  Mails of other programs may lack the sizes;   *)
(* then all blocks but the last one have the default size, and a file of    *)
(* several blocks has its size somewhere.                                   *)
WellFormed(f) ==
    /\ f.block_size \in Seq(Nat) /\ Len(f.block_size) > 0
    /\ f.at \in [1 .. LastBlock(f) + 1 -> Nat] /\ f.at[1] = 0
    /\ \A i \in 1..LastBlock(f) :
        /\ BlockLen(f, i) > 0
        /\ \/ f.block_size[i] = BlockLen(f, i)
           \/ f.block_size[i] = 0 /\ (i = LastBlock(f) \/ BlockLen(f, i) = default_block_size)
    /\ {f.file_size, f.told} \subseteq {0, Size(f)}
    /\ f.file_size = 0 /\ f.told = 0 => LastBlock(f) = 1

Forms == {Absent, Bad, Ranged}
Position == Nat \cup {NoText, Garbage}

ASSUME FilesAssumption == Files # {} /\ \A f \in Files : WellFormed(f)
ASSUME HeadersAssumption ==
    Headers # {} /\ Headers \subseteq [form : Forms, first : Position, last : Position]
ASSUME DefaultAssumption == default_block_size \in Nat \ {0}

VARIABLES
    phase,            \* of one request: idle, indexing, seeking, streaming or done
    file, header,     \* the request
    offsets,          \* build_block_offsets, as far as it is
    status,           \* of the response
    range_start, range_end,
    block_index, offset_in_block, remaining,
    body,             \* the chunks written, [from, to]
    gone              \* the client has disconnected

request == <<file, header>>
range   == <<status, range_start, range_end>>
cursor  == <<block_index, offset_in_block, remaining>>
vars    == <<phase, request, offsets, range, cursor, body, gone>>

Init ==
    /\ phase = "idle"
    /\ file = (CHOOSE f \in Files : TRUE)
    /\ header = (CHOOSE h \in Headers : TRUE)
    /\ offsets = <<0>>
    /\ status = 0 /\ range_start = 0 /\ range_end = 0
    /\ block_index = 1 /\ offset_in_block = 0 /\ remaining = 0
    /\ body = <<>>
    /\ gone = FALSE

-----------------------------------------------------------------------------
(* file_record.file_size when the offsets are built: that of the index, or  *)
(* else of the first block's metadata, or else the first block's length.    *)
total_size ==
    IF file.file_size > 0 THEN file.file_size
    ELSE IF file.told > 0 THEN file.told
    ELSE BlockLen(file, 1)

Min2(a, b) == IF a <= b THEN a ELSE b

(* The size build_block_offsets takes a block to have. *)
AssumedSize(i) == IF file.block_size[i] = 0 THEN default_block_size ELSE file.block_size[i]

(* One turn of the loop of build_block_offsets. *)
AddOffset ==
    /\ phase = "indexing"
    /\ Len(offsets) <= LastBlock(file)
    /\ offsets' = Append(offsets, offsets[Len(offsets)] + AssumedSize(Len(offsets)))
    /\ UNCHANGED <<phase, request, range, cursor, body, gone>>

(* parse_range_header: the range's two ends, and whether it is one. *)
Parsed(total) ==
    LET suffix == header.first = NoText
        start  == IF ~suffix THEN header.first
                  ELSE IF header.last >= total THEN 0 ELSE total - header.last
        end    == IF suffix \/ header.last = NoText THEN total - 1 ELSE header.last
    IN  [ok    |-> /\ header.form = Ranged /\ total # 0
                   /\ Garbage \notin {header.first, header.last}
                   /\ suffix => header.last > 0
                   /\ start <= end /\ start < total,
         start |-> start,
         end   |-> Min2(end, total - 1)]

(* The headers are sent, unless the range is refused. *)
Answer(from, to) ==
    /\ range_start' = from
    /\ range_end' = to
    /\ remaining' = to - from + 1
    /\ phase' = "seeking"
    /\ UNCHANGED <<request, offset_in_block, block_index, body, gone>>

(* The last offset becomes the file size, whatever the sizes add up to;     *)
(* then the header decides about the response.                              *)
FixEnd == offsets' = [offsets EXCEPT ![Len(offsets)] = IF total_size > 0 THEN total_size ELSE @]

AnswerAll ==
    /\ phase = "indexing" /\ Len(offsets) > LastBlock(file)
    /\ header.form = Absent
    /\ FixEnd
    /\ status' = 200
    /\ Answer(0, total_size - 1)

AnswerPart ==
    /\ phase = "indexing" /\ Len(offsets) > LastBlock(file)
    /\ header.form # Absent
    /\ Parsed(total_size).ok
    /\ FixEnd
    /\ status' = 206
    /\ Answer(Parsed(total_size).start, Parsed(total_size).end)

Refuse ==
    /\ phase = "indexing" /\ Len(offsets) > LastBlock(file)
    /\ header.form # Absent
    /\ ~Parsed(total_size).ok
    /\ FixEnd
    /\ status' = 416
    /\ phase' = "done"
    /\ UNCHANGED <<request, range_start, range_end, cursor, body, gone>>

-----------------------------------------------------------------------------
(* find_block_for_offset: the first block that ends after the byte, or else *)
(* the last one.                                                            *)
SeekNext ==
    /\ phase = "seeking"
    /\ range_start >= offsets[block_index + 1]
    /\ block_index < LastBlock(file)
    /\ block_index' = block_index + 1
    /\ UNCHANGED <<phase, request, offsets, range, offset_in_block, remaining, body, gone>>

SeekFound ==
    /\ phase = "seeking"
    /\ range_start < offsets[block_index + 1] \/ block_index = LastBlock(file)
    /\ offset_in_block' = range_start - offsets[block_index]
    /\ phase' = "streaming"
    /\ UNCHANGED <<request, offsets, range, block_index, remaining, body, gone>>

(* The loop of the stream body goes on: bytes are missing, and the block    *)
(* has some behind the offset.                                              *)
available == BlockLen(file, block_index) - offset_in_block
to_write  == Min2(remaining, available)
GoesOn    == phase = "streaming" /\ remaining > 0 /\ block_index <= LastBlock(file) /\ available > 0

Chunk ==
    LET from == file.at[block_index] + offset_in_block
    IN  [from |-> from, to |-> from + to_write - 1]

(* Mutant of WriteChunk: the next block is read from the same offset. *)
WriteChunkKeepsOffset ==
    /\ GoesOn
    /\ body' = Append(body, Chunk)
    /\ remaining' = remaining - to_write
    /\ block_index' = block_index + 1
    /\ UNCHANGED <<phase, request, offsets, range, offset_in_block, gone>>

(* One turn: the next bytes of the block, then on to the next block's first.*)
WriteChunk ==
    /\ GoesOn
    /\ body' = Append(body, Chunk)
    /\ remaining' = remaining - to_write
    /\ block_index' = block_index + 1
    /\ offset_in_block' = 0
    /\ UNCHANGED <<phase, request, offsets, range, gone>>

EndBody ==
    /\ phase = "streaming" /\ ~GoesOn
    /\ phase' = "done"
    /\ UNCHANGED <<request, offsets, range, cursor, body, gone>>

(* Sending the headers or a chunk fails. *)
Disconnect ==
    /\ (phase = "seeking" /\ block_index = 1) \/ GoesOn
    /\ gone' = TRUE
    /\ phase' = "done"
    /\ UNCHANGED <<request, offsets, range, cursor, body>>

(* A request comes, and its file is resolved. *)
Request ==
    /\ phase = "idle"
    /\ phase' = "indexing"
    /\ file' \in Files /\ header' \in Headers
    /\ UNCHANGED <<offsets, range, cursor, body, gone>>

Next ==
    \/ Request
    \/ AddOffset \/ AnswerAll \/ AnswerPart \/ Refuse
    \/ SeekNext \/ SeekFound
    \/ WriteChunk \/ EndBody \/ Disconnect

Spec == Init /\ [][Next]_vars

-----------------------------------------------------------------------------
TypeOK ==
    /\ phase \in {"idle", "indexing", "seeking", "streaming", "done"}
    /\ file \in Files /\ header \in Headers
    /\ offsets \in Seq(Nat)
    /\ status \in {0, 200, 206, 416}
    /\ {range_start, range_end, offset_in_block, remaining} \subseteq Nat
    /\ block_index \in 1 .. LastBlock(file) + 1
    /\ body \in Seq([from : Nat, to : Nat])
    /\ gone \in BOOLEAN

(* The bytes a header asks for, by the meaning of byte ranges: all of them, *)
(* the last ones, or those between two positions; none if it means nothing. *)
Requested ==
    {p \in 0 .. Size(file) - 1 :
        \/ header.form = Absent
        \/ /\ header.form = Ranged /\ Garbage \notin {header.first, header.last}
           /\ IF header.first = NoText
              THEN header.last # NoText /\ p >= Size(file) - header.last
              ELSE header.first <= p /\ (header.last # NoText => p <= header.last)}

Sent == UNION {body[k].from .. body[k].to : k \in 1..Len(body)}

(* The body is the requested range: its bytes are sent in the file's order, *)
(* none twice, none left out and none besides, and all of them unless the   *)
(* client leaves; the headers announce exactly them; and a range is refused *)
(* only if it has no byte of the file.  Whatever the sizes of the blocks    *)
(* and wherever in a block the range begins and ends.                       *)
BodyIsRequested ==
    /\ \A k \in 1..Len(body) :
        /\ body[k].from <= body[k].to
        /\ body[k].from = IF k = 1 THEN range_start ELSE body[k - 1].to + 1
    /\ status \in {200, 206} => range_start .. range_end = Requested
    /\ status = 416 => Requested = {}
    /\ Sent \subseteq Requested
    /\ phase = "done" /\ ~gone => Sent = Requested
=============================================================================
