---------------------------- MODULE FormatsProofs ----------------------------
(***************************************************************************)
(* Proofs about RangeStream and MailboxNames.  For all files, headers and  *)
(* default sizes that satisfy the assumptions, the bytes sent are the      *)
(* bytes asked for.  For names of any length and servers with any          *)
(* mailboxes, the encoding is undone by the decoding and by the server,    *)
(* and no name opens a mailbox of another one.                             *)
(***************************************************************************)
EXTENDS RangeStream, MailboxNames, SequenceTheorems, WellFoundedInduction, TLAPS
HIDE ServersAssumption

Accepted == status \in {200, 206}

(* What the loop of build_block_offsets has computed: each offset is the    *)
(* position of its block, the last one of the end once it is fixed.         *)
OffsetsInv ==
    /\ Len(offsets) \in 1 .. LastBlock(file) + 1
    /\ \A i \in 1..LastBlock(file) : i <= Len(offsets) => offsets[i] = file.at[i]
    /\ phase \in {"seeking", "streaming"} =>
        Len(offsets) = LastBlock(file) + 1 /\ offsets[LastBlock(file) + 1] = Size(file)

PlaceInv ==
    /\ phase \in {"idle", "indexing"} =>
        block_index = 1 /\ offset_in_block = 0 /\ body = <<>> /\ status = 0
    /\ phase = "idle" => offsets = <<0>>
    /\ phase \in {"seeking", "streaming"} => Accepted
    /\ phase = "done" => status # 0
    /\ ~Accepted => body = <<>>

RangeInv ==
    /\ Accepted =>
        range_start <= range_end /\ range_end < Size(file) /\ range_start .. range_end = Requested
    /\ status = 416 => Requested = {}

(* Where the two loops that read the offsets are in the file. *)
CursorInv ==
    /\ phase = "seeking" =>
        block_index \in 1..LastBlock(file) /\ file.at[block_index] <= range_start /\ body = <<>>
    /\ phase = "streaming" /\ remaining > 0 =>
        /\ block_index \in 1..LastBlock(file)
        /\ offset_in_block < BlockLen(file, block_index)
        /\ file.at[block_index] + offset_in_block = range_end + 1 - remaining

(* What was sent is the part of the range before the byte the loop is at.   *)
BodyInv == Accepted =>
    /\ remaining <= range_end - range_start + 1
    /\ Sent = range_start .. range_end - remaining
    /\ body = <<>> => remaining = range_end - range_start + 1
    /\ body # <<>> => body[Len(body)].to = range_end - remaining
    /\ \A k \in 1..Len(body) :
        /\ body[k].from <= body[k].to
        /\ body[k].from = IF k = 1 THEN range_start ELSE body[k - 1].to + 1
    /\ phase = "done" /\ ~gone => remaining = 0

IInv == TypeOK /\ OffsetsInv /\ PlaceInv /\ RangeInv /\ CursorInv /\ BodyInv

-----------------------------------------------------------------------------
(* The file of a request is one of those the assumption speaks of.          *)
LEMMA FileFacts ==
    ASSUME TypeOK
    PROVE  /\ WellFormed(file)
           /\ LastBlock(file) \in Nat \ {0}
           /\ \A i \in 1 .. LastBlock(file) + 1 : file.at[i] \in Nat
           /\ \A i \in 1..LastBlock(file) : BlockLen(file, i) \in Nat \ {0}
           /\ Size(file) \in Nat \ {0}
<1>1. WellFormed(file)
    BY FilesAssumption DEF TypeOK
<1>2. LastBlock(file) \in Nat \ {0}
    BY <1>1 DEF WellFormed, LastBlock
<1>3. \A i \in 1 .. LastBlock(file) + 1 : file.at[i] \in Nat
    BY <1>1, <1>2 DEF WellFormed
<1>4. \A i \in 1..LastBlock(file) : BlockLen(file, i) \in Nat \ {0}
    <2> SUFFICES ASSUME NEW i \in 1..LastBlock(file) PROVE BlockLen(file, i) \in Nat \ {0}
        OBVIOUS
    <2>1. BlockLen(file, i) > 0
        BY <1>1 DEF WellFormed
    <2>2. file.at[i] \in Nat /\ file.at[i + 1] \in Nat
        BY <1>2, <1>3
    <2> QED BY <2>1, <2>2 DEF BlockLen
<1>5. Size(file) \in Nat \ {0}
    <2>1. file.at[LastBlock(file)] \in Nat /\ file.at[LastBlock(file) + 1] \in Nat
        BY <1>2, <1>3
    <2>2. file.at[LastBlock(file) + 1] - file.at[LastBlock(file)] \in Nat \ {0}
        <3>1. LastBlock(file) \in 1..LastBlock(file)
            BY <1>2
        <3> QED BY <3>1, <1>4 DEF BlockLen
    <2> QED BY <2>1, <2>2 DEF Size
<1> QED BY <1>1, <1>2, <1>3, <1>4, <1>5

(* handle_request knows the file's size, wherever it takes it from.         *)
LEMMA TotalIsSize ==
    ASSUME TypeOK
    PROVE  total_size = Size(file)
<1>1. WellFormed(file) /\ LastBlock(file) \in Nat \ {0} /\ Size(file) \in Nat \ {0}
    BY FileFacts
<1>2. file.file_size \in {0, Size(file)} /\ file.told \in {0, Size(file)}
    BY <1>1 DEF WellFormed
<1>3. CASE file.file_size = 0 /\ file.told = 0
    <2>1. LastBlock(file) = 1 /\ file.at[1] = 0
        BY <1>1, <1>3 DEF WellFormed
    <2>2. BlockLen(file, 1) = Size(file)
        BY <2>1, <1>1 DEF BlockLen, Size
    <2> QED BY <1>3, <2>2 DEF total_size
<1>4. CASE ~(file.file_size = 0 /\ file.told = 0)
    BY <1>1, <1>2, <1>4 DEF total_size
<1> QED BY <1>3, <1>4

LEMMA AllIsRequested ==
    ASSUME TypeOK, header.form = Absent
    PROVE  0 .. Size(file) - 1 = Requested
BY DEF Requested

(* parse_range_header computes the range that the header means, and refuses *)
(* a header just when it means no byte of the file.                         *)
LEMMA ParsedIsRequested ==
    ASSUME TypeOK, header.form # Absent, NEW n \in Nat \ {0}, n = Size(file)
    PROVE  /\ Parsed(n).ok =>
                /\ Parsed(n).start \in Nat /\ Parsed(n).end \in Nat
                /\ Parsed(n).start <= Parsed(n).end /\ Parsed(n).end < n
                /\ Parsed(n).start .. Parsed(n).end = Requested
           /\ ~Parsed(n).ok => Requested = {}
<1>1. header \in [form : Forms, first : Position, last : Position]
    BY HeadersAssumption DEF TypeOK
<1>2. header.first \in Int /\ header.last \in Int /\ header.first >= -2 /\ header.last >= -2
    BY <1>1 DEF Position, NoText, Garbage
<1>3. header.form \in {Bad, Ranged}
    BY <1>1 DEF Forms
<1>4. CASE header.form = Bad \/ Garbage \in {header.first, header.last}
    <2>1. Requested = {}
        BY <1>3, <1>4 DEF Requested, Absent, Bad, Ranged
    <2>2. ~Parsed(n).ok
        BY <1>4 DEF Parsed, Bad, Ranged
    <2> QED BY <2>1, <2>2
<1>5. CASE header.form = Ranged /\ Garbage \notin {header.first, header.last} /\ header.first = NoText
    <2>1. Requested = {p \in 0 .. n - 1 : header.last # NoText /\ p >= n - header.last}
        BY <1>5 DEF Requested, Absent, Bad, Ranged
    <2>2. /\ Parsed(n).ok <=> /\ header.last > 0
                              /\ Parsed(n).start <= n - 1 /\ Parsed(n).start < n
          /\ Parsed(n).start = IF header.last >= n THEN 0 ELSE n - header.last
          /\ Parsed(n).end = n - 1
        BY <1>2, <1>5 DEF Parsed, Min2, Absent, Bad, Ranged
    <2> QED BY <1>2, <2>1, <2>2 DEF NoText
<1>6. CASE header.form = Ranged /\ Garbage \notin {header.first, header.last} /\ header.first # NoText
    <2>1. header.first \in Nat /\ (header.last = NoText \/ header.last \in Nat)
        BY <1>2, <1>6 DEF NoText, Garbage
    <2>2. Requested = {p \in 0 .. n - 1 : header.first <= p /\ (header.last # NoText => p <= header.last)}
        BY <1>6 DEF Requested, Absent, Bad, Ranged
    <2>3. CASE header.last = NoText
        <3>1. /\ Parsed(n).ok <=> header.first < n
              /\ Parsed(n).start = header.first
              /\ Parsed(n).end = n - 1
            BY <1>6, <2>1, <2>3 DEF Parsed, Min2
        <3> QED BY <2>1, <2>2, <2>3, <3>1
    <2>4. CASE header.last # NoText
        <3>1. /\ Parsed(n).ok <=> header.first <= header.last /\ header.first < n
              /\ Parsed(n).start = header.first
              /\ Parsed(n).end = IF header.last <= n - 1 THEN header.last ELSE n - 1
            BY <1>6, <2>1, <2>4 DEF Parsed, Min2
        <3> QED BY <2>1, <2>2, <2>4, <3>1
    <2> QED BY <2>3, <2>4
<1> QED BY <1>3, <1>4, <1>5, <1>6

-----------------------------------------------------------------------------
LEMMA InitInv == Init => IInv
<1> SUFFICES ASSUME Init PROVE IInv
    OBVIOUS
<1>1. TypeOK
    <2>1. file \in Files /\ header \in Headers
        BY FilesAssumption, HeadersAssumption DEF Init
    <2>2. LastBlock(file) \in Nat
        BY <2>1, FilesAssumption DEF WellFormed, LastBlock
    <2>3. offsets \in Seq(Nat) /\ body \in Seq([from : Nat, to : Nat])
        BY DEF Init
    <2>4. {range_start, range_end, offset_in_block, remaining} \subseteq Nat
        BY DEF Init
    <2>5. block_index \in 1 .. LastBlock(file) + 1
        BY <2>2 DEF Init
    <2> QED BY <2>1, <2>3, <2>4, <2>5 DEF Init, TypeOK
<1>2. LastBlock(file) \in Nat \ {0} /\ file.at[1] = 0
    BY <1>1, FileFacts DEF WellFormed
<1>3. OffsetsInv
    <2>1. Len(offsets) = 1 /\ offsets[1] = 0 /\ phase = "idle"
        BY DEF Init
    <2> QED BY <1>2, <2>1 DEF OffsetsInv
<1>4. PlaceInv /\ RangeInv /\ CursorInv /\ BodyInv
    BY DEF Init, PlaceInv, RangeInv, CursorInv, BodyInv, Accepted
<1> QED BY <1>1, <1>3, <1>4 DEF IInv

-----------------------------------------------------------------------------
(* A turn of build_block_offsets adds a block's true length, except perhaps *)
(* the last one's.                                                          *)
LEMMA AddOffsetInv == IInv /\ AddOffset => IInv'
<1> SUFFICES ASSUME IInv, AddOffset PROVE IInv'
    OBVIOUS
<1> USE DEF IInv
<1>1. /\ WellFormed(file) /\ LastBlock(file) \in Nat \ {0}
      /\ \A i \in 1 .. LastBlock(file) + 1 : file.at[i] \in Nat
    BY FileFacts
<1>2. /\ Len(offsets) \in 1..LastBlock(file) /\ offsets \in Seq(Nat)
      /\ offsets[Len(offsets)] \in Nat /\ file.block_size[Len(offsets)] \in Nat
    <2>1. offsets \in Seq(Nat) /\ Len(offsets) \in 1..LastBlock(file)
        BY <1>1 DEF AddOffset, TypeOK, OffsetsInv
    <2>2. file.block_size \in Seq(Nat) /\ Len(file.block_size) = LastBlock(file)
        BY <1>1 DEF WellFormed, LastBlock
    <2> QED BY <2>1, <2>2
<1>3. AssumedSize(Len(offsets)) \in Nat
    BY <1>2, DefaultAssumption DEF AssumedSize
<1>4. /\ offsets' \in Seq(Nat) /\ Len(offsets') = Len(offsets) + 1
      /\ offsets'[Len(offsets) + 1] = offsets[Len(offsets)] + AssumedSize(Len(offsets))
      /\ \A i \in 1..Len(offsets) : offsets'[i] = offsets[i]
    BY <1>2, <1>3 DEF AddOffset
<1>5. Len(offsets) < LastBlock(file) =>
        offsets[Len(offsets)] + AssumedSize(Len(offsets)) = file.at[Len(offsets) + 1]
    <2> SUFFICES ASSUME Len(offsets) < LastBlock(file)
                 PROVE  offsets[Len(offsets)] + AssumedSize(Len(offsets)) = file.at[Len(offsets) + 1]
        OBVIOUS
    <2> DEFINE n == Len(offsets)
    <2>1. BlockLen(file, n) \in Nat \ {0}
        BY <1>2, FileFacts
    <2>2. \/ file.block_size[n] = BlockLen(file, n)
          \/ file.block_size[n] = 0 /\ BlockLen(file, n) = default_block_size
        BY <1>1, <1>2 DEF WellFormed
    <2>3. AssumedSize(n) = BlockLen(file, n)
        BY <2>1, <2>2 DEF AssumedSize
    <2>4. n \in 1..LastBlock(file) /\ n \in 1 .. LastBlock(file) + 1 /\ n + 1 \in 1 .. LastBlock(file) + 1
        BY <1>1, <1>2
    <2>5. offsets[n] = file.at[n]
        BY <2>4 DEF OffsetsInv
    <2>6. file.at[n] \in Nat /\ file.at[n + 1] \in Nat
        BY <1>1, <2>4
    <2> QED BY <2>3, <2>5, <2>6 DEF BlockLen
<1>6. UNCHANGED <<phase, file, header, status, range_start, range_end, block_index,
                  offset_in_block, remaining, body, gone>> /\ phase = "indexing"
    BY DEF AddOffset, request, range, cursor
<1>7. TypeOK'
    BY <1>4, <1>6 DEF TypeOK, LastBlock
<1>8. OffsetsInv'
    <2>1. Len(offsets') \in 1 .. LastBlock(file) + 1
        BY <1>1, <1>2, <1>4
    <2>2. ASSUME NEW i \in 1..LastBlock(file), i <= Len(offsets')
          PROVE  offsets'[i] = file.at[i]
        <3>1. CASE i <= Len(offsets)
            <4>1. i \in 1..Len(offsets) /\ offsets[i] = file.at[i]
                BY <1>1, <1>2, <3>1 DEF OffsetsInv
            <4> QED BY <1>4, <4>1
        <3>2. CASE i = Len(offsets) + 1
            <4>1. Len(offsets) < LastBlock(file)
                BY <1>1, <1>2, <3>2
            <4> QED BY <1>4, <1>5, <3>2, <4>1
        <3> QED BY <1>2, <1>4, <2>2, <3>1, <3>2
    <2> QED BY <1>6, <2>1, <2>2 DEF OffsetsInv, LastBlock
<1>9. PlaceInv' /\ RangeInv' /\ CursorInv' /\ BodyInv'
    BY <1>6 DEF PlaceInv, RangeInv, CursorInv, BodyInv, Accepted, Requested, Sent, Size, LastBlock, BlockLen
<1> QED BY <1>7, <1>8, <1>9

LEMMA RequestInv == IInv /\ Request => IInv'
<1> SUFFICES ASSUME IInv, Request PROVE IInv'
    OBVIOUS
<1> USE DEF IInv
<1>1. UNCHANGED <<offsets, status, range_start, range_end, block_index, offset_in_block,
                  remaining, body, gone>>
      /\ phase' = "indexing" /\ file' \in Files /\ header' \in Headers
    BY DEF Request, range, cursor
<1>2. offsets = <<0>> /\ block_index = 1 /\ body = <<>> /\ status = 0 /\ offset_in_block = 0
    BY DEF PlaceInv, Request
<1>3. LastBlock(file') \in Nat \ {0} /\ file'.at[1] = 0
    BY <1>1, FilesAssumption DEF WellFormed, LastBlock
<1>4. TypeOK'
    BY <1>1, <1>2, <1>3 DEF TypeOK, LastBlock
<1>5. OffsetsInv'
    <2>1. Len(offsets') = 1 /\ offsets'[1] = 0
        BY <1>1, <1>2
    <2> QED BY <1>1, <1>3, <2>1 DEF OffsetsInv, LastBlock
<1>6. PlaceInv' /\ RangeInv' /\ CursorInv' /\ BodyInv'
    BY <1>1, <1>2 DEF PlaceInv, RangeInv, CursorInv, BodyInv, Accepted
<1> QED BY <1>4, <1>5, <1>6

-----------------------------------------------------------------------------
(* FixEnd moves only the end of the last block, and moves it to the file's  *)
(* end.                                                                     *)
LEMMA FixEndFixes ==
    ASSUME TypeOK, OffsetsInv, Len(offsets) > LastBlock(file), FixEnd
    PROVE  /\ offsets' \in Seq(Nat) /\ Len(offsets') = LastBlock(file) + 1
           /\ offsets'[LastBlock(file) + 1] = Size(file)
           /\ \A i \in 1..LastBlock(file) : offsets'[i] = file.at[i]
<1>1. LastBlock(file) \in Nat \ {0} /\ Size(file) \in Nat \ {0} /\ total_size = Size(file)
    BY FileFacts, TotalIsSize
<1>2. offsets \in Seq(Nat) /\ Len(offsets) = LastBlock(file) + 1
    BY <1>1 DEF TypeOK, OffsetsInv
<1>3. offsets' = [offsets EXCEPT ![LastBlock(file) + 1] = Size(file)]
    <2>1. total_size > 0
        BY <1>1
    <2>2. offsets' = [offsets EXCEPT ![Len(offsets)] = total_size]
        BY <2>1 DEF FixEnd
    <2> QED BY <1>1, <1>2, <2>2
<1>4. \A i \in 1..LastBlock(file) : offsets[i] = file.at[i]
    BY <1>1, <1>2 DEF OffsetsInv
<1> QED BY <1>1, <1>2, <1>3, <1>4

(* A response with a body starts before its first byte.                     *)
LEMMA AnswerInv ==
    ASSUME IInv, NEW from \in Nat, NEW to \in Nat,
           phase = "indexing", Len(offsets) > LastBlock(file), FixEnd,
           status' \in {200, 206}, Answer(from, to),
           from <= to, to < Size(file), from .. to = Requested
    PROVE  IInv'
<1> USE DEF IInv
<1>1. /\ WellFormed(file) /\ LastBlock(file) \in Nat \ {0} /\ Size(file) \in Nat \ {0}
      /\ \A i \in 1 .. LastBlock(file) + 1 : file.at[i] \in Nat
    BY FileFacts
<1>2. /\ offsets' \in Seq(Nat) /\ Len(offsets') = LastBlock(file) + 1
      /\ offsets'[LastBlock(file) + 1] = Size(file)
      /\ \A i \in 1..LastBlock(file) : offsets'[i] = file.at[i]
    BY FixEndFixes
<1>3. /\ UNCHANGED <<file, header, offset_in_block, block_index, body, gone>>
      /\ phase' = "seeking" /\ range_start' = from /\ range_end' = to
      /\ remaining' = to - from + 1
    BY DEF Answer, request
<1>4. block_index = 1 /\ offset_in_block = 0 /\ body = <<>>
    BY DEF PlaceInv
<1>5. TypeOK'
    <2>1. remaining' \in Nat /\ {range_start', range_end', offset_in_block'} \subseteq Nat
        BY <1>3, <1>4
    <2>2. file' \in Files /\ header' \in Headers /\ body' \in Seq([from : Nat, to : Nat])
          /\ gone' \in BOOLEAN /\ block_index' \in 1 .. LastBlock(file') + 1
        BY <1>3 DEF TypeOK
    <2> QED BY <1>2, <1>3, <2>1, <2>2 DEF TypeOK
<1>6. OffsetsInv'
    BY <1>1, <1>2, <1>3 DEF OffsetsInv, LastBlock, Size
<1>7. PlaceInv'
    BY <1>3, <1>4 DEF PlaceInv, Accepted
<1>8. RangeInv'
    BY <1>3 DEF RangeInv, Requested, Size, LastBlock
<1>9. CursorInv'
    BY <1>1, <1>3, <1>4 DEF CursorInv, WellFormed, LastBlock
<1>10. BodyInv'
    BY <1>3, <1>4 DEF BodyInv, Sent
<1> QED BY <1>5, <1>6, <1>7, <1>8, <1>9, <1>10

LEMMA AnswerAllInv == IInv /\ AnswerAll => IInv'
<1> SUFFICES ASSUME IInv, AnswerAll PROVE IInv'
    OBVIOUS
<1>1. Size(file) \in Nat \ {0} /\ total_size = Size(file)
    BY FileFacts, TotalIsSize DEF IInv
<1>2. 0 .. Size(file) - 1 = Requested
    BY AllIsRequested DEF IInv, AnswerAll
<1>3. /\ phase = "indexing" /\ Len(offsets) > LastBlock(file) /\ FixEnd /\ status' = 200
      /\ Answer(0, Size(file) - 1)
    BY <1>1 DEF AnswerAll
<1> QED BY <1>1, <1>2, <1>3, AnswerInv

LEMMA AnswerPartInv == IInv /\ AnswerPart => IInv'
<1> SUFFICES ASSUME IInv, AnswerPart PROVE IInv'
    OBVIOUS
<1> DEFINE n == Size(file)
           from == Parsed(n).start
           to == Parsed(n).end
<1>1. n \in Nat \ {0} /\ total_size = n
    BY FileFacts, TotalIsSize DEF IInv
<1>2. /\ phase = "indexing" /\ Len(offsets) > LastBlock(file) /\ FixEnd /\ status' = 206
      /\ header.form # Absent /\ Parsed(n).ok /\ Answer(from, to)
    BY <1>1 DEF AnswerPart
<1>3. from \in Nat /\ to \in Nat /\ from <= to /\ to < n /\ from .. to = Requested
    BY <1>1, <1>2, ParsedIsRequested DEF IInv
<1> HIDE DEF from, to
<1> QED BY <1>1, <1>2, <1>3, AnswerInv

LEMMA RefuseInv == IInv /\ Refuse => IInv'
<1> SUFFICES ASSUME IInv, Refuse PROVE IInv'
    OBVIOUS
<1> USE DEF IInv
<1>1. LastBlock(file) \in Nat \ {0} /\ Size(file) \in Nat \ {0} /\ total_size = Size(file)
    BY FileFacts, TotalIsSize
<1>2. /\ offsets' \in Seq(Nat) /\ Len(offsets') = LastBlock(file) + 1
      /\ \A i \in 1..LastBlock(file) : offsets'[i] = file.at[i]
    BY FixEndFixes DEF Refuse
<1>3. /\ UNCHANGED <<file, header, range_start, range_end, block_index, offset_in_block,
                     remaining, body, gone>>
      /\ phase = "indexing" /\ phase' = "done" /\ status' = 416
    BY DEF Refuse, request, cursor
<1>4. Requested = {}
    BY <1>1, ParsedIsRequested DEF Refuse
<1>5. TypeOK'
    BY <1>2, <1>3 DEF TypeOK, LastBlock
<1>6. OffsetsInv'
    BY <1>1, <1>2, <1>3 DEF OffsetsInv, LastBlock
<1>7. PlaceInv' /\ CursorInv' /\ BodyInv'
    BY <1>3 DEF PlaceInv, CursorInv, BodyInv, Accepted
<1>8. RangeInv'
    BY <1>3, <1>4 DEF RangeInv, Accepted, Requested, Size, LastBlock
<1> QED BY <1>5, <1>6, <1>7, <1>8

-----------------------------------------------------------------------------
LEMMA SeekNextInv == IInv /\ SeekNext => IInv'
<1> SUFFICES ASSUME IInv, SeekNext PROVE IInv'
    OBVIOUS
<1> USE DEF IInv
<1>1. LastBlock(file) \in Nat \ {0}
    BY FileFacts
<1>2. /\ UNCHANGED <<phase, file, header, offsets, status, range_start, range_end,
                     offset_in_block, remaining, body, gone>>
      /\ phase = "seeking" /\ block_index' = block_index + 1
      /\ block_index \in 1 .. LastBlock(file) - 1
    BY <1>1 DEF SeekNext, request, range, TypeOK
<1>3. file.at[block_index + 1] <= range_start
    <2>1. offsets[block_index + 1] = file.at[block_index + 1]
        BY <1>1, <1>2 DEF OffsetsInv
    <2>2. file.at[block_index + 1] \in Nat
        BY <1>1, <1>2, FileFacts
    <2> QED BY <1>2, <2>1, <2>2 DEF SeekNext, TypeOK
<1>4. TypeOK'
    BY <1>1, <1>2 DEF TypeOK, LastBlock
<1>5. OffsetsInv' /\ PlaceInv' /\ RangeInv' /\ BodyInv'
    BY <1>2 DEF OffsetsInv, PlaceInv, RangeInv, BodyInv, Accepted, Requested, Sent, Size, LastBlock
<1>6. CursorInv'
    BY <1>1, <1>2, <1>3 DEF CursorInv, LastBlock
<1> QED BY <1>4, <1>5, <1>6

(* The byte of the range's start is in the block that is found.             *)
LEMMA SeekFoundInv == IInv /\ SeekFound => IInv'
<1> SUFFICES ASSUME IInv, SeekFound PROVE IInv'
    OBVIOUS
<1> USE DEF IInv
<1>1. /\ LastBlock(file) \in Nat \ {0}
      /\ \A i \in 1 .. LastBlock(file) + 1 : file.at[i] \in Nat
    BY FileFacts
<1>2. /\ UNCHANGED <<file, header, offsets, status, range_start, range_end,
                     block_index, remaining, body, gone>>
      /\ phase = "seeking" /\ phase' = "streaming"
      /\ offset_in_block' = range_start - offsets[block_index]
    BY DEF SeekFound, request, range
<1>3. /\ block_index \in 1..LastBlock(file) /\ offsets[block_index] = file.at[block_index]
      /\ file.at[block_index] <= range_start /\ body = <<>> /\ Accepted
      /\ range_start \in Nat /\ range_end \in Nat
    BY <1>1, <1>2 DEF CursorInv, OffsetsInv, PlaceInv, TypeOK
<1>4. offsets[block_index + 1] = file.at[block_index + 1]
    <2>1. block_index = LastBlock(file) \/ block_index + 1 \in 1..LastBlock(file)
        BY <1>1, <1>3
    <2>2. /\ Len(offsets) = LastBlock(file) + 1 /\ offsets[LastBlock(file) + 1] = Size(file)
          /\ \A i \in 1..LastBlock(file) : i <= Len(offsets) => offsets[i] = file.at[i]
        BY <1>2 DEF OffsetsInv
    <2>3. \A i \in 1..LastBlock(file) : offsets[i] = file.at[i]
        BY <1>1, <2>2
    <2> QED BY <2>1, <2>2, <2>3 DEF Size
<1>5. range_start < file.at[block_index + 1]
    <2>1. CASE range_start < offsets[block_index + 1]
        BY <1>4, <2>1
    <2>2. CASE block_index = LastBlock(file)
        BY <1>1, <1>3, <2>2, FileFacts DEF RangeInv, Size
    <2> QED BY <2>1, <2>2 DEF SeekFound
<1>6. /\ offset_in_block' \in Nat
      /\ offset_in_block' < BlockLen(file, block_index)
      /\ file.at[block_index] + offset_in_block' = range_start
    <2>1. offset_in_block' = range_start - file.at[block_index]
        BY <1>2, <1>3
    <2>2. file.at[block_index] \in Nat /\ file.at[block_index + 1] \in Nat
        BY <1>1, <1>3, FileFacts
    <2> QED BY <1>3, <1>5, <2>1, <2>2 DEF BlockLen
<1>7. remaining = range_end - range_start + 1
    BY <1>3 DEF BodyInv
<1>8. TypeOK'
    BY <1>2, <1>6 DEF TypeOK, LastBlock
<1>9. OffsetsInv' /\ PlaceInv' /\ RangeInv'
    BY <1>2 DEF OffsetsInv, PlaceInv, RangeInv, Accepted, Requested, Size, LastBlock
<1>10. CursorInv'
    BY <1>2, <1>3, <1>6, <1>7 DEF CursorInv, BlockLen, LastBlock
<1>11. BodyInv'
    BY <1>2 DEF BodyInv, Accepted, Sent
<1> QED BY <1>8, <1>9, <1>10, <1>11

-----------------------------------------------------------------------------
(* What a turn of the stream's loop appends is the next bytes of the range. *)
LEMMA WriteChunkInv == IInv /\ WriteChunk => IInv'
<1> SUFFICES ASSUME IInv, WriteChunk PROVE IInv'
    OBVIOUS
<1> USE DEF IInv
<1>1. /\ WellFormed(file) /\ LastBlock(file) \in Nat \ {0} /\ Size(file) \in Nat \ {0}
      /\ \A i \in 1 .. LastBlock(file) + 1 : file.at[i] \in Nat
    BY FileFacts
<1>2. /\ UNCHANGED <<phase, file, header, offsets, status, range_start, range_end, gone>>
      /\ phase = "streaming" /\ remaining > 0
      /\ remaining' = remaining - to_write /\ block_index' = block_index + 1
      /\ offset_in_block' = 0 /\ body' = Append(body, Chunk)
    BY DEF WriteChunk, GoesOn, request, range
<1>3. /\ {range_start, range_end, offset_in_block, remaining} \subseteq Nat
      /\ body \in Seq([from : Nat, to : Nat]) /\ Accepted
      /\ range_start <= range_end /\ range_end < Size(file)
    BY <1>2 DEF TypeOK, PlaceInv, RangeInv
<1>4. /\ block_index \in 1..LastBlock(file)
      /\ offset_in_block < BlockLen(file, block_index)
      /\ file.at[block_index] + offset_in_block = range_end + 1 - remaining
    BY <1>2 DEF CursorInv
<1> DEFINE from == range_end + 1 - remaining
           w == to_write
<1>5. /\ BlockLen(file, block_index) = file.at[block_index + 1] - file.at[block_index]
      /\ file.at[block_index] \in Nat /\ file.at[block_index + 1] \in Nat
    BY <1>1, <1>4 DEF BlockLen
<1>6. /\ w \in Nat \ {0} /\ w <= remaining
      /\ w < remaining => from + w = file.at[block_index + 1]
    <2>1. remaining \in Nat \ {0} /\ available \in Nat \ {0}
        <3>1. offset_in_block \in Nat /\ remaining \in Nat \ {0}
            BY <1>2, <1>3
        <3>2. BlockLen(file, block_index) \in Int
            BY <1>5
        <3> QED BY <1>4, <3>1, <3>2 DEF available
    <2>2. w = IF remaining <= available THEN remaining ELSE available
        BY DEF to_write, Min2
    <2>3. w \in Nat \ {0} /\ w <= remaining /\ (w < remaining => w = available)
        BY <2>1, <2>2
    <2>4. from + available = file.at[block_index + 1]
        BY <1>3, <1>4, <1>5, SMTT(20) DEF available
    <2>5. w < remaining => from + w = file.at[block_index + 1]
        BY <2>3, <2>4
    <2> HIDE DEF from, w
    <2> QED BY <2>3, <2>5
<1>7. Chunk = [from |-> from, to |-> from + w - 1]
    BY <1>4 DEF Chunk
<1>8. remaining <= range_end - range_start + 1 /\ from >= range_start
    BY <1>3 DEF BodyInv
<1> HIDE DEF w
<1>9. /\ Len(body') = Len(body) + 1
      /\ \A k \in 1..Len(body) : body'[k] = body[k]
      /\ body'[Len(body) + 1] = [from |-> from, to |-> from + w - 1]
      /\ body' \in Seq([from : Nat, to : Nat])
    <2>1. from \in Nat
        BY <1>3, <1>8
    <2>2. from + w - 1 \in Nat
        <3> HIDE DEF from
        <3> QED BY <1>6, <2>1
    <2>3. Chunk \in [from : Nat, to : Nat]
        BY <1>7, <2>1, <2>2
    <2> HIDE DEF from
    <2> QED BY <1>2, <1>3, <1>7, <2>3
<1>10. remaining' = remaining - w /\ remaining' \in Nat
    BY <1>2, <1>3, <1>6 DEF w
<1>11. TypeOK'
    <2>1. block_index' \in 1 .. LastBlock(file) + 1 /\ body' \in Seq([from : Nat, to : Nat])
        BY <1>1, <1>2, <1>4, <1>9
    <2>2. {range_start', range_end', offset_in_block', remaining'} \subseteq Nat
        BY <1>2, <1>3, <1>10
    <2>3. offsets' \in Seq(Nat) /\ header' \in Headers /\ gone' \in BOOLEAN
        BY <1>2 DEF TypeOK
    <2> QED BY <1>2, <2>1, <2>2, <2>3 DEF TypeOK, LastBlock
<1>12. OffsetsInv' /\ RangeInv'
    BY <1>2 DEF OffsetsInv, RangeInv, Accepted, Requested, Size, LastBlock
<1>13. PlaceInv'
    BY <1>2, <1>3 DEF PlaceInv, Accepted
<1>14. CursorInv'
    <2> SUFFICES ASSUME remaining' > 0
                 PROVE  /\ block_index + 1 \in 1..LastBlock(file)
                        /\ 0 < BlockLen(file, block_index + 1)
                        /\ file.at[block_index + 1] = range_end + 1 - remaining'
        BY <1>1, <1>2, <1>4, <1>5 DEF CursorInv, BlockLen, LastBlock
    <2>1. file.at[block_index + 1] = from + w
        BY <1>3, <1>6, <1>10
    <2>2. file.at[block_index + 1] = range_end + 1 - remaining'
        BY <1>3, <1>6, <1>10, <2>1
    <2>3. block_index # LastBlock(file)
        BY <1>1, <1>3, <1>10, <2>2 DEF Size
    <2>4. block_index + 1 \in 1..LastBlock(file)
        BY <1>1, <1>4, <2>3
    <2>5. BlockLen(file, block_index + 1) \in Nat \ {0}
        BY <2>4, FileFacts
    <2> QED BY <2>2, <2>4, <2>5
<1>15. BodyInv'
    <2>1. Sent = range_start .. from - 1
        BY <1>3 DEF BodyInv
    <2>2. Sent' = Sent \cup (from .. from + w - 1)
        <3>1. Len(body) \in Nat
            BY <1>3
        <3>2. Len(body') = Len(body) + 1
            BY <1>9
        <3>3. ASSUME NEW p PROVE p \in Sent' <=> p \in Sent \/ p \in from .. from + w - 1
            <4>1. p \in Sent' <=> \E k \in 1 .. Len(body) + 1 : p \in body'[k].from .. body'[k].to
                BY <3>2 DEF Sent
            <4>2. p \in Sent <=> \E k \in 1..Len(body) : p \in body[k].from .. body[k].to
                BY DEF Sent
            <4>3. body'[Len(body) + 1].from .. body'[Len(body) + 1].to = from .. from + w - 1
                BY <1>9
            <4>4. \A k \in 1..Len(body) : body'[k].from .. body'[k].to = body[k].from .. body[k].to
                BY <1>9
            <4>5. \A k : k \in 1 .. Len(body) + 1 <=> k \in 1..Len(body) \/ k = Len(body) + 1
                BY <3>1
            <4> HIDE DEF from
            <4> QED BY <4>1, <4>2, <4>3, <4>4, <4>5
        <3> QED BY <3>3
    <2>3. Sent' = range_start .. range_end - remaining'
        <3>1. from \in Int /\ range_start \in Int /\ w \in Nat /\ from >= range_start
            BY <1>3, <1>6, <1>8
        <3>2. range_end - remaining' = from + w - 1
            BY <1>3, <1>6, <1>10
        <3>3. (range_start .. from - 1) \cup (from .. from + w - 1) = range_start .. from + w - 1
            <4> HIDE DEF from
            <4> QED BY <3>1
        <3> QED BY <2>1, <2>2, <3>2, <3>3
    <2>4. body' # <<>> /\ body'[Len(body')].to = range_end - remaining'
        BY <1>3, <1>6, <1>9, <1>10
    <2>5. \A k \in 1..Len(body') :
            /\ body'[k].from <= body'[k].to
            /\ body'[k].from = IF k = 1 THEN range_start ELSE body'[k - 1].to + 1
        <3> SUFFICES ASSUME NEW k \in 1 .. Len(body) + 1
                     PROVE  /\ body'[k].from <= body'[k].to
                            /\ body'[k].from = IF k = 1 THEN range_start ELSE body'[k - 1].to + 1
            BY <1>9
        <3>1. CASE k \in 1..Len(body)
            <4>1. /\ body[k].from <= body[k].to
                  /\ body[k].from = IF k = 1 THEN range_start ELSE body[k - 1].to + 1
                BY <1>3, <3>1 DEF BodyInv
            <4>2. k # 1 => k - 1 \in 1..Len(body)
                BY <1>3, <3>1
            <4> QED BY <1>9, <3>1, <4>1, <4>2
        <3>2. CASE k = Len(body) + 1
            <4>1. body'[k].from = from /\ body'[k].to = from + w - 1
                BY <1>9, <3>2
            <4>2. CASE body = <<>>
                <5>1. k = 1 /\ remaining = range_end - range_start + 1
                    BY <1>3, <3>2, <4>2 DEF BodyInv
                <5>2. from = range_start /\ from \in Int
                    BY <1>3, <5>1
                <5>3. from <= from + w - 1
                    BY <1>6, <5>2
                <5> HIDE DEF from
                <5> QED BY <4>1, <5>1, <5>2, <5>3
            <4>3. CASE body # <<>>
                <5>1. Len(body) \in 1..Len(body) /\ k # 1 /\ k - 1 = Len(body)
                    BY <1>3, <3>2, <4>3
                <5>2. body'[k - 1].to = range_end - remaining
                    BY <1>3, <1>9, <4>3, <5>1 DEF BodyInv
                <5>3. from = (range_end - remaining) + 1 /\ from \in Int
                    BY <1>3
                <5>4. from <= from + w - 1
                    BY <1>6, <5>3
                <5> HIDE DEF from
                <5> QED BY <4>1, <5>1, <5>2, <5>3, <5>4
            <4> QED BY <4>2, <4>3
        <3> QED BY <1>3, <3>1, <3>2
    <2>6. remaining' <= range_end - range_start + 1
        BY <1>3, <1>6, <1>8, <1>10
    <2>7. UNCHANGED <<phase, range_start, range_end, gone>> /\ phase # "done"
        BY <1>2
    <2> QED BY <2>3, <2>4, <2>5, <2>6, <2>7 DEF BodyInv
<1> QED BY <1>11, <1>12, <1>13, <1>14, <1>15

(* The loop ends when the range is used up, and for no other reason.        *)
LEMMA EndBodyInv == IInv /\ EndBody => IInv'
<1> SUFFICES ASSUME IInv, EndBody PROVE IInv'
    OBVIOUS
<1> USE DEF IInv
<1>1. /\ UNCHANGED <<file, header, offsets, status, range_start, range_end, block_index,
                     offset_in_block, remaining, body, gone>>
      /\ phase = "streaming" /\ phase' = "done"
    BY DEF EndBody, request, range, cursor
<1>2. remaining \in Nat /\ offset_in_block \in Nat /\ Accepted
    BY <1>1 DEF TypeOK, PlaceInv
<1>3. remaining = 0
    <2> SUFFICES ASSUME remaining > 0 PROVE FALSE
        BY <1>2
    <2>1. /\ block_index \in 1..LastBlock(file)
          /\ offset_in_block < BlockLen(file, block_index)
        BY <1>1 DEF CursorInv
    <2>2. BlockLen(file, block_index) \in Nat /\ LastBlock(file) \in Nat
        BY <2>1, FileFacts
    <2> QED BY <1>1, <1>2, <2>1, <2>2 DEF EndBody, GoesOn, available
<1>4. TypeOK' /\ OffsetsInv' /\ RangeInv' /\ CursorInv'
    BY <1>1 DEF TypeOK, OffsetsInv, RangeInv, CursorInv, Accepted, Requested, Size, LastBlock
<1>5. PlaceInv'
    BY <1>1, <1>2 DEF PlaceInv, Accepted
<1>6. BodyInv'
    BY <1>1, <1>3 DEF BodyInv, Accepted, Sent
<1> QED BY <1>4, <1>5, <1>6

LEMMA DisconnectInv == IInv /\ Disconnect => IInv'
<1> SUFFICES ASSUME IInv, Disconnect PROVE IInv'
    OBVIOUS
<1> USE DEF IInv
<1>1. /\ UNCHANGED <<file, header, offsets, status, range_start, range_end, block_index,
                     offset_in_block, remaining, body>>
      /\ phase \in {"seeking", "streaming"} /\ phase' = "done" /\ gone' = TRUE
    BY DEF Disconnect, GoesOn, request, range, cursor
<1>2. TypeOK' /\ OffsetsInv' /\ CursorInv'
    BY <1>1 DEF TypeOK, OffsetsInv, CursorInv, Size, LastBlock
<1>3. RangeInv'
    BY <1>1 DEF RangeInv, Accepted, Requested, Size, LastBlock
<1>4. BodyInv'
    BY <1>1 DEF BodyInv, Accepted, Sent
<1>5. PlaceInv'
    BY <1>1 DEF PlaceInv, Accepted
<1> QED BY <1>2, <1>3, <1>4, <1>5

LEMMA StutterInv == IInv /\ UNCHANGED vars => IInv'
<1> SUFFICES ASSUME IInv, UNCHANGED vars PROVE IInv'
    OBVIOUS
<1>1. UNCHANGED <<phase, file, header, offsets, status, range_start, range_end, block_index,
                  offset_in_block, remaining, body, gone>>
    BY DEF vars, request, range, cursor
<1> USE DEF IInv
<1>2. TypeOK' /\ OffsetsInv' /\ PlaceInv'
    BY <1>1 DEF TypeOK, OffsetsInv, PlaceInv, Accepted, Size, LastBlock
<1>3. RangeInv' /\ CursorInv'
    BY <1>1 DEF RangeInv, CursorInv, Accepted, Requested, Size, LastBlock, BlockLen
<1>4. BodyInv'
    BY <1>1 DEF BodyInv, Accepted, Sent
<1> QED BY <1>2, <1>3, <1>4

LEMMA StepInv == IInv /\ [Next]_vars => IInv'
BY AddOffsetInv, RequestInv, AnswerAllInv, AnswerPartInv, RefuseInv, SeekNextInv, SeekFoundInv,
   WriteChunkInv, EndBodyInv, DisconnectInv, StutterInv DEF Next

LEMMA IInvHolds == Spec => []IInv
BY InitInv, StepInv, PTL DEF Spec

-----------------------------------------------------------------------------
(* The offsets, the range and the place of the stream's loop are always     *)
(* what their types in handle_request can hold: no subtraction of unsigned  *)
(* numbers goes below zero and no index leaves the blocks.                  *)
THEOREM TypeCorrect == Spec => []TypeOK
<1>1. IInv => TypeOK
    BY DEF IInv
<1> QED BY <1>1, IInvHolds, PTL

(* For all files, block sizes and Range headers that the assumptions        *)
(* allow, the body is the requested range, and 416 is answered only if the  *)
(* file has none of it.                                                     *)
THEOREM BodyIsRequestedHolds == Spec => []BodyIsRequested
<1>1. IInv => BodyIsRequested
    <2> SUFFICES ASSUME IInv PROVE BodyIsRequested
        OBVIOUS
    <2> USE DEF IInv
    <2>1. CASE Accepted
        <3>1. {range_start, range_end, remaining} \subseteq Nat
            BY DEF TypeOK
        <3>2. Requested = range_start .. range_end
            BY <2>1 DEF RangeInv
        <3>3. Sent \subseteq Requested
            BY <2>1, <3>1, <3>2 DEF BodyInv
        <3>4. phase = "done" /\ ~gone => Sent = Requested
            BY <2>1, <3>1, <3>2 DEF BodyInv
        <3> QED BY <2>1, <3>2, <3>3, <3>4 DEF BodyIsRequested, BodyInv, Accepted
    <2>2. CASE ~Accepted
        <3>1. body = <<>> /\ Sent = {}
            BY <2>2 DEF PlaceInv, Sent
        <3>2. phase = "done" => status = 416
            BY <2>2 DEF PlaceInv, TypeOK, Accepted
        <3>3. status = 416 => Requested = {}
            BY DEF RangeInv
        <3> QED BY <2>2, <3>1, <3>2, <3>3 DEF BodyIsRequested, Accepted
    <2> QED BY <2>1, <2>2
<1> QED BY <1>1, IInvHolds, PTL

-----------------------------------------------------------------------------
(* Induction and recursion along numbers and sequences, stated with sets    *)
(* and functions. They rest on the least element of a set of numbers.       *)

(* What holds of a number as soon as it holds of all smaller ones holds of  *)
(* every number.                                                            *)
LEMMA StrongInduction ==
    ASSUME NEW P, \A n \in Nat : (\A m \in Nat : m < n => m \in P) => n \in P
    PROVE  \A n \in Nat : n \in P
<1> SUFFICES ASSUME Nat \ P # {} PROVE FALSE
    OBVIOUS
<1>1. PICK x \in Nat \ P : \A y \in Nat \ P : ~(<<y, x>> \in OpToRel(<, Nat))
    BY NatLessThanWellFounded, WFMin
<1>2. \A y \in Nat \ P : ~(y < x)
    <2> TAKE y \in Nat \ P
    <2>1. <<y, x>> \in Nat \X Nat
        OBVIOUS
    <2> QED BY <1>1, <2>1 DEF OpToRel
<1> QED BY <1>1, <1>2

(* A set that has 0 and with a number the next one has all of them.         *)
LEMMA Induction ==
    ASSUME NEW P, 0 \in P, \A n \in Nat : n \in P => n + 1 \in P
    PROVE  \A n \in Nat : n \in P
<1>1. ASSUME NEW n \in Nat, \A m \in Nat : m < n => m \in P PROVE n \in P
    <2>1. CASE n # 0
        <3>1. n - 1 \in Nat /\ n - 1 < n /\ (n - 1) + 1 = n
            BY <2>1
        <3> QED BY <1>1, <3>1
    <2> QED BY <2>1
<1> QED BY <1>1, StrongInduction

(* A set of sequences that has the empty one and, with a sequence, each     *)
(* that is longer by one element, has them all.                             *)
LEMMA SeqInduction ==
    ASSUME NEW S, NEW P, <<>> \in P,
           \A s \in Seq(S), x \in S : s \in P => s \o <<x>> \in P
    PROVE  \A s \in Seq(S) : s \in P
<1> DEFINE Q == {n \in Nat : \A s \in Seq(S) : Len(s) = n => s \in P}
<1>1. 0 \in Q
    BY EmptySeq
<1>2. ASSUME NEW n \in Nat, n \in Q PROVE n + 1 \in Q
    <2> SUFFICES ASSUME NEW s \in Seq(S), Len(s) = n + 1 PROVE s \in P
        OBVIOUS
    <2> DEFINE f == SubSeq(s, 1, n)
    <2>1. f \in Seq(S) /\ Len(f) = n /\ s[n + 1] \in S
        BY <1>2, SubSeqProperties, ElementOfSeq
    <2>2. s = f \o <<s[n + 1]>>
        <3>1. 1 \in 1..Len(s) /\ Len(s) \in 1..Len(s) /\ Len(s) - 1 = n
            BY <1>2
        <3> QED BY <3>1, SubSeqFull, SubSeqRecursiveSecond
    <2> QED BY <1>2, <2>1, <2>2
<1> HIDE DEF Q
<1>3. \A n \in Nat : n \in Q
    BY <1>1, <1>2, Induction
<1> QED BY <1>3, LenProperties DEF Q

(* A value for 0 and a step from each number to the next make a function.   *)
LEMMA Recursion ==
    ASSUME NEW S, NEW base \in S, NEW n \in Nat, NEW step \in [1..n -> [S -> S]]
    PROVE  \E f \in [0..n -> S] : f[0] = base /\ \A i \in 1..n : f[i] = step[i][f[i - 1]]
<1> DEFINE Q == {m \in Nat : m <= n => \E f \in [0..m -> S] :
                    f[0] = base /\ \A i \in 1..m : f[i] = step[i][f[i - 1]]}
<1>1. 0 \in Q
    <2> SUFFICES \E f \in [0..0 -> S] :
                    f[0] = base /\ \A i \in 1..0 : f[i] = step[i][f[i - 1]]
        OBVIOUS
    <2> WITNESS [i \in 0..0 |-> base] \in [0..0 -> S]
    <2> QED OBVIOUS
<1>2. ASSUME NEW m \in Nat, m \in Q PROVE m + 1 \in Q
    <2> SUFFICES ASSUME m + 1 <= n
                 PROVE  \E f \in [0 .. m + 1 -> S] :
                            f[0] = base /\ \A i \in 1 .. m + 1 : f[i] = step[i][f[i - 1]]
        OBVIOUS
    <2>1. PICK f \in [0..m -> S] : f[0] = base /\ \A i \in 1..m : f[i] = step[i][f[i - 1]]
        BY <1>2
    <2> DEFINE g == [i \in 0 .. m + 1 |-> IF i <= m THEN f[i] ELSE step[i][f[m]]]
    <2>2. step[m + 1] \in [S -> S] /\ f[m] \in S
        BY <2>1
    <2>3. g \in [0 .. m + 1 -> S] /\ g[0] = base
        BY <2>1, <2>2
    <2>4. \A i \in 1 .. m + 1 : g[i] = step[i][g[i - 1]]
        BY <2>1
    <2> QED BY <2>3, <2>4
<1> HIDE DEF Q
<1>3. n \in Q
    BY <1>1, <1>2, Induction
<1> QED BY <1>3 DEF Q

(* The values of a function along 0..n stay in a set that has the first and,  *)
(* with each value, the next.                                               *)
LEMMA ValuesStay ==
    ASSUME NEW S, NEW n \in Nat, NEW f, f[0] \in S,
           \A i \in 1..n : f[i - 1] \in S => f[i] \in S
    PROVE  \A i \in 0..n : f[i] \in S
<1> DEFINE Q == {m \in Nat : m <= n => f[m] \in S}
<1>1. 0 \in Q
    OBVIOUS
<1>2. ASSUME NEW m \in Nat, m \in Q PROVE m + 1 \in Q
    <2> SUFFICES ASSUME m + 1 <= n PROVE f[m + 1] \in S
        OBVIOUS
    <2>1. m + 1 \in 1..n /\ (m + 1) - 1 = m /\ f[m] \in S
        BY <1>2
    <2> QED BY <2>1
<1> HIDE DEF Q
<1>3. \A m \in Nat : m \in Q
    BY <1>1, <1>2, Induction
<1> QED BY <1>3 DEF Q

(* Two such functions agree as far as their values for 0 and their steps do.*)
Same(f, g, i) == f[i] = g[i]

(* Two functions that start alike and go on alike are alike.                *)
LEMMA RecursionAgrees ==
    ASSUME NEW n \in Nat, NEW f, NEW g, Same(f, g, 0),
           \A i \in 1..n : Same(f, g, i - 1) => Same(f, g, i)
    PROVE  \A i \in 0..n : Same(f, g, i)
<1> DEFINE Q == {m \in Nat : m <= n => Same(f, g, m)}
<1>1. 0 \in Q
    OBVIOUS
<1>2. ASSUME NEW m \in Nat, m \in Q PROVE m + 1 \in Q
    <2> SUFFICES ASSUME m + 1 <= n PROVE Same(f, g, m + 1)
        OBVIOUS
    <2>1. m + 1 \in 1..n /\ (m + 1) - 1 = m /\ Same(f, g, m)
        BY <1>2
    <2> QED BY <2>1
<1> HIDE DEF Q
<1>3. \A m \in Nat : m \in Q
    BY <1>1, <1>2, Induction
<1> QED BY <1>3 DEF Q

(* Reading a sequence of n elements from a place on: what is read there and *)
(* the reading from a later place.                                          *)
Advances(next, n) == \A i \in 1..n : next[i] \in i + 1 .. n + 1
IsReading(f, part, next, n) ==
    f[n + 1] = <<>> /\ \A i \in 1..n : f[i] = part[i] \o f[next[i]]

(* The values from each place on, each made of those further on, exist.     *)
LEMMA ReadingExists ==
    ASSUME NEW S, NEW n \in Nat, NEW part \in [1..n -> Seq(S)], NEW next, Advances(next, n)
    PROVE  \E f \in [1 .. n + 1 -> Seq(S)] : IsReading(f, part, next, n)
<1> DEFINE H(a) == \E f \in [a .. n + 1 -> Seq(S)] :
                    f[n + 1] = <<>> /\ \A i \in a..n : f[i] = part[i] \o f[next[i]]
           Q == {m \in Nat : m <= n => H(n + 1 - m)}
<1>1. \A i \in 1..n : next[i] \in i + 1 .. n + 1
    BY DEF Advances
<1>2. H(n + 1)
    <2> DEFINE f == [i \in n + 1 .. n + 1 |-> <<>>]
    <2>1. f \in [n + 1 .. n + 1 -> Seq(S)] /\ f[n + 1] = <<>>
        BY EmptySeq
    <2>2. \A i \in n + 1 .. n : f[i] = part[i] \o f[next[i]]
        OBVIOUS
    <2> HIDE DEF f
    <2> QED BY <2>1, <2>2
<1>3. ASSUME NEW a \in 2 .. n + 1, H(a) PROVE H(a - 1)
    <2>1. PICK f \in [a .. n + 1 -> Seq(S)] :
                f[n + 1] = <<>> /\ \A i \in a..n : f[i] = part[i] \o f[next[i]]
        BY <1>3
    <2> DEFINE g == [i \in a - 1 .. n + 1 |-> IF i >= a THEN f[i] ELSE part[i] \o f[next[i]]]
    <2>2. a - 1 \in 1..n /\ next[a - 1] \in a .. n + 1
        <3>1. a - 1 \in 1..n /\ (a - 1) + 1 = a
            OBVIOUS
        <3> QED BY <1>1, <3>1
    <2>3. part[a - 1] \o f[next[a - 1]] \in Seq(S)
        BY <2>1, <2>2, ConcatProperties
    <2>4. g \in [a - 1 .. n + 1 -> Seq(S)] /\ g[n + 1] = <<>>
        <3>1. \A i \in a - 1 .. n + 1 : i >= a \/ i = a - 1
            OBVIOUS
        <3>2. \A i \in a - 1 .. n + 1 : g[i] \in Seq(S)
            <4> TAKE i \in a - 1 .. n + 1
            <4>1. CASE i >= a
                <5>1. i \in a .. n + 1 /\ g[i] = f[i]
                    BY <4>1
                <5> QED BY <5>1, <2>1
            <4>2. CASE i = a - 1
                <5>1. ~(i >= a)
                    BY <4>2
                <5>2. g[i] = part[i] \o f[next[i]]
                    BY <5>1
                <5> QED BY <4>2, <5>2, <2>3
            <4> QED BY <3>1, <4>1, <4>2
        <3>3. n + 1 \in a - 1 .. n + 1 /\ n + 1 >= a
            OBVIOUS
        <3> QED BY <2>1, <3>2, <3>3
    <2>5. ASSUME NEW i \in a - 1 .. n PROVE g[i] = part[i] \o g[next[i]]
        <3>1. i \in 1..n /\ next[i] \in a .. n + 1 /\ next[i] >= a /\ i \in a - 1 .. n + 1
            <4>1. i \in 1..n /\ next[i] \in i + 1 .. n + 1
                BY <1>1
            <4> QED BY <4>1
        <3>2. g[next[i]] = f[next[i]]
            BY <3>1
        <3>3. CASE i >= a
            <4>1. i \in a..n /\ g[i] = f[i]
                BY <3>3, <3>1
            <4>2. f[i] = part[i] \o f[next[i]]
                BY <4>1, <2>1
            <4> HIDE DEF g
            <4> QED BY <4>1, <4>2, <3>2
        <3>4. CASE ~(i >= a)
            <4>1. g[i] = part[i] \o f[next[i]]
                BY <3>4, <3>1
            <4> QED BY <4>1, <3>2
        <3> QED BY <3>3, <3>4
    <2> HIDE DEF g
    <2> QED BY <2>4, <2>5
<1> HIDE DEF H
<1>4. 0 \in Q
    <2>1. n + 1 - 0 = n + 1
        OBVIOUS
    <2> QED BY <1>2, <2>1
<1>5. ASSUME NEW m \in Nat, m \in Q PROVE m + 1 \in Q
    <2> SUFFICES ASSUME m + 1 <= n PROVE H(n + 1 - (m + 1))
        OBVIOUS
    <2>1. n + 1 - m \in 2 .. n + 1 /\ (n + 1 - m) - 1 = n + 1 - (m + 1)
        OBVIOUS
    <2>2. H((n + 1 - m) - 1)
        BY <1>3, <1>5, <2>1
    <2> QED BY <2>1, <2>2
<1> HIDE DEF Q
<1>6. n \in Q
    BY <1>4, <1>5, Induction
<1>7. H(1)
    <2>1. n + 1 - n = 1
        OBVIOUS
    <2> QED BY <1>6, <2>1 DEF Q
<1> QED BY <1>7 DEF H, IsReading

(* Two readings agree where their ends, parts and places agree, d apart.    *)
Alike(f, g, i, d) == f[i] = g[i + d]

(* Two such functions, one shifted by d, agree if they do at the end and    *)
(* from each place to the one before that is read from it.                  *)
LEMMA ReadingAgrees ==
    ASSUME NEW n \in Nat, NEW d \in Nat, NEW f, NEW g, NEW next, Advances(next, n),
           Alike(f, g, n + 1, d),
           \A i \in 1..n : Alike(f, g, next[i], d) => Alike(f, g, i, d)
    PROVE  \A i \in 1 .. n + 1 : Alike(f, g, i, d)
<1> DEFINE Q == {m \in Nat : m <= n => Alike(f, g, n + 1 - m, d)}
<1>1. ASSUME NEW m \in Nat, \A k \in Nat : k < m => k \in Q PROVE m \in Q
    <2> SUFFICES ASSUME m <= n PROVE Alike(f, g, n + 1 - m, d)
        OBVIOUS
    <2>1. CASE m = 0
        BY <2>1
    <2>2. CASE m # 0
        <3> DEFINE i == n + 1 - m
                   k == n + 1 - next[i]
        <3>1. i \in 1..n /\ next[i] \in i + 1 .. n + 1
            BY <2>2 DEF Advances
        <3>2. k \in Nat /\ k < m /\ k <= n /\ n + 1 - k = next[i]
            BY <3>1
        <3>3. Alike(f, g, next[i], d)
            BY <1>1, <3>2
        <3> QED BY <3>1, <3>3
    <2> QED BY <2>1, <2>2
<1> HIDE DEF Q
<1>2. \A m \in Nat : m \in Q
    BY <1>1, StrongInduction
<1> SUFFICES ASSUME NEW i \in 1 .. n + 1 PROVE Alike(f, g, i, d)
    OBVIOUS
<1>3. n + 1 - i \in Nat /\ n + 1 - i <= n /\ n + 1 - (n + 1 - i) = i
    OBVIOUS
<1> QED BY <1>2, <1>3 DEF Q

-----------------------------------------------------------------------------
(* Three bytes in four digits of base64, and back: the parts of a number    *)
(* that a digit has, and what the decoder's accumulator keeps of it.        *)

Octets == 0..255
Digits == 0..63

(* What a digit d makes of an accumulator of which the low bits c are still *)
(* to be written: the byte of c and of the first bits of d, from 14 bits.   *)
LEMMA ByteOfSix ==
    ASSUME NEW a \in Nat, NEW d \in Nat, d < 64
    PROVE  (((a * 64 + d) % 16384) \div 16) % 256 = 4 * (a % 64) + (d \div 16)
<1>1. PICK c \in 0..63 : a % 64 = c
  OBVIOUS
<1> DEFINE q == a \div 64
           r == q % 4
           p == q \div 4
           R == 4096 * r + 64 * c + d
<1>2. a = 64 * q + c /\ q \in Nat
  BY <1>1
<1>3. q = 4 * p + r /\ r \in 0..3 /\ p \in Nat
  <2> HIDE DEF q
  <2> QED BY <1>2
<1> HIDE DEF q, r, p
<1>4. R \in Nat /\ R < 16384 /\ a * 64 + d = 16384 * p + R
  BY <1>2, <1>3
<1>5. (R) \div 16 = 256 * r + (4 * c + (d \div 16))
  BY <1>3
<1>6. (256 * r + (4 * c + (d \div 16))) % 256 = 4 * c + (d \div 16)
  BY <1>3
<1> HIDE DEF R
<1>7. (16384 * p + R) % 16384 = R
  BY <1>3, <1>4
<1>8. (a * 64 + d) % 16384 = R
  BY <1>4, <1>7
<1> QED BY <1>1, <1>5, <1>6, <1>8

(* The byte that is put out when four bits are left over.                   *)
LEMMA ByteOfFour ==
    ASSUME NEW a \in Nat, NEW d \in Nat, d < 64
    PROVE  (((a * 64 + d) % 16384) \div 4) % 256 = 16 * (a % 16) + (d \div 4)
<1>1. PICK c \in 0..15 : a % 16 = c
  OBVIOUS
<1> DEFINE q == a \div 16
           r == q % 16
           p == q \div 16
           R == 1024 * r + 64 * c + d
<1>2. a = 16 * q + c /\ q \in Nat
  BY <1>1
<1>3. q = 16 * p + r /\ r \in 0..15 /\ p \in Nat
  <2> HIDE DEF q
  <2> QED BY <1>2
<1> HIDE DEF q, r, p
<1>4. R \in Nat /\ R < 16384 /\ a * 64 + d = 16384 * p + R
  BY <1>2, <1>3
<1>5. (R) \div 4 = 256 * r + (16 * c + (d \div 4))
  BY <1>3
<1>6. (256 * r + (16 * c + (d \div 4))) % 256 = 16 * c + (d \div 4)
  BY <1>3
<1> HIDE DEF R
<1>7. (16384 * p + R) % 16384 = R
  BY <1>3, <1>4
<1>8. (a * 64 + d) % 16384 = R
  BY <1>4, <1>7
<1> QED BY <1>1, <1>5, <1>6, <1>8

(* The byte that is put out when two bits are left over.                    *)
LEMMA ByteOfTwo ==
    ASSUME NEW a \in Nat, NEW d \in Nat, d < 64
    PROVE  ((a * 64 + d) % 16384) % 256 = 64 * (a % 4) + d
<1>1. PICK c \in 0..3 : a % 4 = c
  OBVIOUS
<1> DEFINE q == a \div 4
           r == q % 64
           p == q \div 64
           R == 256 * r + 64 * c + d
<1>2. a = 4 * q + c /\ q \in Nat
  BY <1>1
<1>3. q = 64 * p + r /\ r \in 0..63 /\ p \in Nat
  <2> HIDE DEF q
  <2> QED BY <1>2
<1> HIDE DEF q, r, p
<1>4. R \in Nat /\ R < 16384 /\ a * 64 + d = 16384 * p + R
  BY <1>2, <1>3
<1>5. R = 256 * r + (64 * c + d)
  BY <1>3
<1>6. (256 * r + (64 * c + d)) % 256 = 64 * c + d
  BY <1>3
<1> HIDE DEF R
<1>7. (16384 * p + R) % 16384 = R
  BY <1>3, <1>4
<1>8. (a * 64 + d) % 16384 = R
  BY <1>4, <1>7
<1> QED BY <1>1, <1>5, <1>6, <1>8

(* The accumulator with one digit shifted in; the low bits that it keeps,   *)
(* the byte that it gives away, and the bits of a byte that come in with    *)
(* the digit before its own.                                                *)
Shifted(a, d) == (a * 64 + d) % 16384
LowSix(a)   == a % 64
LowFour(a)  == a % 16
LowTwo(a)   == a % 4
ByteSix(v)  == (v \div 16) % 256
ByteFour(v) == (v \div 4) % 256
ByteTwo(v)  == v % 256
TopSix(y)   == y \div 4
TopFour(y)  == y \div 16
TopTwo(z)   == z \div 64

(* What the accumulator keeps when a digit is shifted in, and the byte it   *)
(* gives.                                                                   *)
LEMMA ShiftedLemma ==
    ASSUME NEW a \in Nat, NEW d \in Nat, d < 64
    PROVE  /\ Shifted(a, d) \in Nat
           /\ LowSix(Shifted(a, d)) = d
           /\ LowFour(Shifted(a, d)) = LowFour(d)
           /\ LowTwo(Shifted(a, d)) = LowTwo(d)
           /\ ByteSix(Shifted(a, d)) = 4 * LowSix(a) + TopFour(d)
           /\ ByteFour(Shifted(a, d)) = 16 * LowFour(a) + TopSix(d)
           /\ ByteTwo(Shifted(a, d)) = 64 * LowTwo(a) + d
<1>1. Shifted(a, d) \in Nat
  BY DEF Shifted
<1>2. LowSix(Shifted(a, d)) = d
  BY DEF Shifted, LowSix
<1>3. LowFour(Shifted(a, d)) = LowFour(d)
  BY DEF Shifted, LowFour
<1>4. LowTwo(Shifted(a, d)) = LowTwo(d)
  BY DEF Shifted, LowTwo
<1>5. ByteSix(Shifted(a, d)) = 4 * LowSix(a) + TopFour(d)
  BY ByteOfSix DEF Shifted, ByteSix, LowSix, TopFour
<1>6. ByteFour(Shifted(a, d)) = 16 * LowFour(a) + TopSix(d)
  BY ByteOfFour DEF Shifted, ByteFour, LowFour, TopSix
<1>7. ByteTwo(Shifted(a, d)) = 64 * LowTwo(a) + d
  BY ByteOfTwo DEF Shifted, ByteTwo, LowTwo
<1> QED BY <1>1, <1>2, <1>3, <1>4, <1>5, <1>6, <1>7

(* The four digits of three bytes.                                          *)
First(x)     == x \div 4
Second(x, y) == (x % 4) * 16 + (y \div 16)
Third(y, z)  == (y % 16) * 4 + (z \div 64)
Fourth(z)    == z % 64

(* The first digit has six bits of the first byte.                          *)
LEMMA FirstLemma ==
    ASSUME NEW x \in Octets
    PROVE  First(x) \in Digits /\ x \div 4 \in 0..63 /\ x % 4 \in 0..3 /\ 4 * First(x) + (x % 4) = x
BY DEF First, Octets, Digits

(* The fourth digit has six bits of the third byte.                         *)
LEMMA FourthLemma ==
    ASSUME NEW z \in Octets
    PROVE  Fourth(z) \in Digits /\ z \div 64 \in 0..3 /\ 64 * (z \div 64) + Fourth(z) = z
BY DEF Fourth, Octets, Digits

(* The second digit has the other two bits of the first byte and four of    *)
(* the second.                                                              *)
LEMMA SecondLemma ==
    ASSUME NEW x \in Octets, NEW y \in Octets
    PROVE  /\ Second(x, y) \in Digits
           /\ 4 * First(x) + (Second(x, y) \div 16) = x
           /\ Second(x, y) % 16 = y \div 16 /\ y \div 16 \in 0..15
<1>1. x % 4 \in 0..3 /\ 4 * First(x) + (x % 4) = x
  BY FirstLemma
<1>2. y \div 16 \in 0..15
  BY DEF Octets
<1>3. \A p \in 0..3, q \in 0..15 : (p * 16 + q) \div 16 = p /\ (p * 16 + q) % 16 = q /\ p * 16 + q \in Digits
  BY DEF Digits
<1>4. Second(x, y) \div 16 = x % 4 /\ Second(x, y) % 16 = y \div 16 /\ Second(x, y) \in Digits
  BY <1>1, <1>2, <1>3 DEF Second
<1> QED BY <1>1, <1>2, <1>4

(* The third digit has the other four bits of the second byte and two of    *)
(* the third.                                                               *)
LEMMA ThirdLemma ==
    ASSUME NEW y \in Octets, NEW z \in Octets
    PROVE  /\ Third(y, z) \in Digits
           /\ 16 * (y \div 16) + (Third(y, z) \div 4) = y
           /\ Third(y, z) % 4 = z \div 64 /\ z \div 64 \in 0..3
<1>1. y = 16 * (y \div 16) + (y % 16) /\ y % 16 \in 0..15
  BY DEF Octets
<1>2. z \div 64 \in 0..3
  BY DEF Octets
<1>3. \A p \in 0..15, q \in 0..3 : (p * 4 + q) \div 4 = p /\ (p * 4 + q) % 4 = q /\ p * 4 + q \in Digits
  BY DEF Digits
<1>4. Third(y, z) \div 4 = y % 16 /\ Third(y, z) % 4 = z \div 64 /\ Third(y, z) \in Digits
  BY <1>1, <1>2, <1>3 DEF Third
<1> QED BY <1>1, <1>2, <1>4

(* The decoder at each of the four digits: what it keeps and puts out.      *)
LEMMA FirstStep ==
    ASSUME NEW a \in Nat, NEW x \in Octets
    PROVE  LowSix(Shifted(a, First(x))) = First(x)
<1>1. First(x) \in Nat /\ First(x) < 64
  BY FirstLemma DEF Digits
<1> QED BY <1>1, ShiftedLemma

(* With the second digit the first byte is complete.                        *)
LEMMA SecondStep ==
    ASSUME NEW a \in Nat, NEW x \in Octets, NEW y \in Octets, LowSix(a) = First(x)
    PROVE  /\ ByteSix(Shifted(a, Second(x, y))) = x
           /\ LowFour(Shifted(a, Second(x, y))) = TopFour(y)
<1>1. Second(x, y) \in Nat /\ Second(x, y) < 64
  BY SecondLemma DEF Digits
<1>2. 4 * First(x) + TopFour(Second(x, y)) = x /\ LowFour(Second(x, y)) = TopFour(y)
  BY SecondLemma DEF TopFour, LowFour
<1> QED BY <1>1, <1>2, ShiftedLemma

(* With the third digit the second byte is complete.                        *)
LEMMA ThirdStep ==
    ASSUME NEW a \in Nat, NEW y \in Octets, NEW z \in Octets, LowFour(a) = TopFour(y)
    PROVE  /\ ByteFour(Shifted(a, Third(y, z))) = y
           /\ LowTwo(Shifted(a, Third(y, z))) = TopTwo(z)
<1>1. Third(y, z) \in Nat /\ Third(y, z) < 64
  BY ThirdLemma DEF Digits
<1>2. 16 * TopFour(y) + TopSix(Third(y, z)) = y /\ LowTwo(Third(y, z)) = TopTwo(z)
  BY ThirdLemma DEF TopFour, TopSix, LowTwo, TopTwo
<1> QED BY <1>1, <1>2, ShiftedLemma

(* With the fourth digit the third byte is complete.                        *)
LEMMA FourthStep ==
    ASSUME NEW a \in Nat, NEW z \in Octets, LowTwo(a) = TopTwo(z)
    PROVE  ByteTwo(Shifted(a, Fourth(z))) = z
<1>1. Fourth(z) \in Nat /\ Fourth(z) < 64
  BY FourthLemma DEF Digits
<1>2. 64 * TopTwo(z) + Fourth(z) = z
  BY FourthLemma DEF TopTwo
<1> QED BY <1>1, <1>2, ShiftedLemma

(* How many digits there are for a number of bytes, by what is left of it   *)
(* modulo three.                                                            *)
LEMMA Ends == ASSUME NEW n \in Nat
  PROVE  \E g \in Nat : \/ n = 3 * g /\ (8 * n + 5) \div 6 = 4 * g
                        \/ n = 3 * g + 1 /\ (8 * n + 5) \div 6 = 4 * g + 2
                        \/ n = 3 * g + 2 /\ (8 * n + 5) \div 6 = 4 * g + 3
<1> DEFINE g == n \div 3
<1>1. g \in Nat /\ (n = 3 * g \/ n = 3 * g + 1 \/ n = 3 * g + 2)
  OBVIOUS
<1> HIDE DEF g
<1> QED BY <1>1

-----------------------------------------------------------------------------
(* Texts, their bytes and their digits: what the encoding writes.           *)

Text == Seq(Units)

(* A unit is a number of sixteen bits.                                      *)
LEMMA UnitsLemma == \A x : x \in Units <=> x \in Int /\ 0 <= x /\ x <= 65535
<1>1. 2^16 = 65536
  OBVIOUS
<1> QED BY <1>1 DEF Units

(* A unit is made of its two bytes.                                         *)
LEMMA HalvesLemma == ASSUME NEW x \in Units
    PROVE x \div 256 \in Octets /\ x % 256 \in Octets /\ (x \div 256) * 256 + (x % 256) = x
<1>1. x \in Int /\ 0 <= x /\ x <= 65535
 BY UnitsLemma
<1>2. x \div 256 \in Int /\ 0 <= x \div 256 /\ x \div 256 <= 255
  BY <1>1
<1>3. x % 256 \in Octets
  BY <1>1 DEF Octets
<1>4. (x \div 256) * 256 + (x % 256) = x
  BY <1>1
<1> QED BY <1>2, <1>3, <1>4 DEF Octets

(* Bytes has two bytes for each unit, and they make it again.               *)
LEMMA BytesLemma ==
    ASSUME NEW u \in Text
    PROVE  /\ Bytes(u) \in Seq(Octets) /\ Len(Bytes(u)) = 2 * Len(u)
           /\ \A i \in 1..Len(u) : Bytes(u)[2 * i - 1] * 256 + Bytes(u)[2 * i] = u[i]
<1>1. Len(u) \in Nat /\ \A i \in 1..Len(u) : u[i] \in Units
    BY ElementOfSeq DEF Text
<1>2. ASSUME NEW k \in 1 .. 2 * Len(u) PROVE Bytes(u)[k] \in Octets
    <2>1. CASE k % 2 = 1
        <3>1. (k + 1) \div 2 \in 1..Len(u)
            BY <1>1, <2>1
        <3>2. Bytes(u)[k] = u[(k + 1) \div 2] \div 256
            BY <2>1 DEF Bytes
        <3>3. PICK x \in Units : x = u[(k + 1) \div 2]
            BY <1>1, <3>1
        <3>4. x \div 256 \in Octets
            BY HalvesLemma
        <3> QED BY <3>2, <3>3, <3>4
    <2>2. CASE k % 2 # 1
        <3>1. k \div 2 \in 1..Len(u)
            BY <1>1, <2>2
        <3>2. Bytes(u)[k] = u[k \div 2] % 256
            BY <2>2 DEF Bytes
        <3>3. PICK x \in Units : x = u[k \div 2]
            BY <1>1, <3>1
        <3>4. x % 256 \in Octets
            BY HalvesLemma
        <3> QED BY <3>2, <3>3, <3>4
    <2> QED BY <2>1, <2>2
<1>3. Bytes(u) = [k \in 1 .. 2 * Len(u) |-> Bytes(u)[k]]
    BY DEF Bytes
<1>4. Bytes(u) \in Seq(Octets) /\ Len(Bytes(u)) = 2 * Len(u)
    BY <1>1, <1>2, <1>3
<1>5. ASSUME NEW i \in 1..Len(u) PROVE Bytes(u)[2 * i - 1] * 256 + Bytes(u)[2 * i] = u[i]
    <2>1. 2 * i - 1 \in 1 .. 2 * Len(u) /\ (2 * i - 1) % 2 = 1 /\ ((2 * i - 1) + 1) \div 2 = i
        BY <1>1
    <2>2. 2 * i \in 1 .. 2 * Len(u) /\ (2 * i) % 2 # 1 /\ (2 * i) \div 2 = i
        BY <1>1
    <2>3. Bytes(u)[2 * i - 1] = u[i] \div 256
        BY <2>1 DEF Bytes
    <2>4. Bytes(u)[2 * i] = u[i] % 256
        BY <2>2 DEF Bytes
    <2> QED BY <1>1, <2>3, <2>4, HalvesLemma
<1> QED BY <1>4, <1>5

(* A digit is read as what it was written for, and none is a hyphen, a      *)
(* quote, a backslash or a wildcard.                                        *)
LEMMA AlphabetLemma ==
    /\ \A d \in Digits : Alphabet[d] \in 43..122 /\ Alphabet[d] \notin {Hyphen, Quote, Escape, Percent, Asterisk}
    /\ \A d \in Digits : IsDigit(Alphabet[d]) /\ Digit(Alphabet[d]) = d
<1>1. \A d \in Digits : Alphabet[d] \in 43..122 /\ Alphabet[d] \notin {Hyphen, Quote, Escape, Percent, Asterisk}
    <2>1. \A d \in Digits : Alphabet[d] \in {43, 44} \cup 48..57 \cup 65..90 \cup 97..122
        BY SMTT(40) DEF Alphabet, Digits
    <2>2. \A c \in {43, 44} \cup 48..57 \cup 65..90 \cup 97..122 :
            c \in 43..122 /\ c \notin {Hyphen, Quote, Escape, Percent, Asterisk}
        BY DEF Hyphen, Quote, Escape, Percent, Asterisk
    <2> QED BY <2>1, <2>2
<1>2. \A d, e \in Digits : Alphabet[d] = Alphabet[e] => d = e
    BY DEF Alphabet, Digits
<1>3. \A d \in Digits : IsDigit(Alphabet[d]) /\ Digit(Alphabet[d]) = d
    BY <1>2 DEF IsDigit, Digit, Digits
<1> QED BY <1>1, <1>3

(* The byte at i of what is encoded, zero behind the end; and the k-th      *)
(* digit of the encoding.                                                   *)
ByteAt(b, i) == IF i <= Len(b) THEN b[i] ELSE 0

(* What encode_modified_base64 writes at each place of a group.             *)
LEMMA DigitsLemma ==
    ASSUME NEW b \in Seq(Octets)
    PROVE  /\ encode_modified_base64(b) \in Text
           /\ Len(encode_modified_base64(b)) = (8 * Len(b) + 5) \div 6
           /\ \A k \in 1 .. (8 * Len(b) + 5) \div 6 :
                 encode_modified_base64(b)[k] \in {Alphabet[d] : d \in Digits}
           /\ \A k \in 1 .. (8 * Len(b) + 5) \div 6, g \in Nat :
                LET x == ByteAt(b, 3 * g + 1)
                    y == ByteAt(b, 3 * g + 2)
                    z == ByteAt(b, 3 * g + 3)
                IN  /\ k = 4 * g + 1 => encode_modified_base64(b)[k] = Alphabet[First(x)]
                    /\ k = 4 * g + 2 => encode_modified_base64(b)[k] = Alphabet[Second(x, y)]
                    /\ k = 4 * g + 3 => encode_modified_base64(b)[k] = Alphabet[Third(y, z)]
                    /\ k = 4 * g + 4 => encode_modified_base64(b)[k] = Alphabet[Fourth(z)]
<1> DEFINE n == (8 * Len(b) + 5) \div 6
           B(i) == ByteAt(b, i)
           Group(i) == <<First(B(i)), Second(B(i), B(i + 1)), Third(B(i + 1), B(i + 2)), Fourth(B(i + 2))>>
           e == encode_modified_base64(b)
<1>1. Len(b) \in Nat /\ n \in Nat /\ \A i \in Nat \ {0} : B(i) \in Octets
    <2>1. 0 \in Octets
        BY DEF Octets
    <2> QED BY <2>1, ElementOfSeq DEF ByteAt
<1>2. e = [k \in 1..n |-> Alphabet[Group(3 * ((k - 1) \div 4) + 1)[((k - 1) % 4) + 1]]]
    BY DEF encode_modified_base64, ByteAt, First, Second, Third, Fourth
<1> HIDE DEF e, B
<1>3. ASSUME NEW g \in Nat
      PROVE  /\ Group(3 * g + 1)[0 + 1] = First(B(3 * g + 1))
             /\ Group(3 * g + 1)[1 + 1] = Second(B(3 * g + 1), B(3 * g + 2))
             /\ Group(3 * g + 1)[2 + 1] = Third(B(3 * g + 2), B(3 * g + 3))
             /\ Group(3 * g + 1)[3 + 1] = Fourth(B(3 * g + 3))
    <2>1. 3 * g + 1 + 1 = 3 * g + 2 /\ 3 * g + 1 + 2 = 3 * g + 3
        OBVIOUS
    <2>2. Group(3 * g + 1) =
            <<First(B(3 * g + 1)), Second(B(3 * g + 1), B(3 * g + 2)),
              Third(B(3 * g + 2), B(3 * g + 3)), Fourth(B(3 * g + 3))>>
        BY <2>1
    <2> HIDE DEF Group
    <2> QED BY <2>2
<1>4. ASSUME NEW g \in Nat, NEW i \in 1..4 PROVE Group(3 * g + 1)[i] \in Digits
    <2>1. B(3 * g + 1) \in Octets /\ B(3 * g + 2) \in Octets /\ B(3 * g + 3) \in Octets
        <3>1. 3 * g + 1 \in Nat \ {0} /\ 3 * g + 2 \in Nat \ {0} /\ 3 * g + 3 \in Nat \ {0}
            OBVIOUS
        <3> QED BY <1>1, <3>1
    <2> HIDE DEF Group
    <2>2. i = 0 + 1 \/ i = 1 + 1 \/ i = 2 + 1 \/ i = 3 + 1
        OBVIOUS
    <2>3. /\ First(B(3 * g + 1)) \in Digits
          /\ Second(B(3 * g + 1), B(3 * g + 2)) \in Digits
          /\ Third(B(3 * g + 2), B(3 * g + 3)) \in Digits
          /\ Fourth(B(3 * g + 3)) \in Digits
        BY <2>1, FirstLemma, SecondLemma, ThirdLemma, FourthLemma
    <2>4. CASE i = 0 + 1
        BY <1>3, <2>3, <2>4
    <2>5. CASE i = 1 + 1
        BY <1>3, <2>3, <2>5
    <2>6. CASE i = 2 + 1
        BY <1>3, <2>3, <2>6
    <2>7. CASE i = 3 + 1
        BY <1>3, <2>3, <2>7
    <2> QED BY <2>2, <2>4, <2>5, <2>6, <2>7
<1> HIDE DEF Group
<1>5. ASSUME NEW k \in 1..n
      PROVE  /\ e[k] \in {Alphabet[d] : d \in Digits}
             /\ \A g \in Nat, p \in 0..3 : k = 4 * g + p + 1 => e[k] = Alphabet[Group(3 * g + 1)[p + 1]]
    <2>1. (k - 1) \div 4 \in Nat /\ ((k - 1) % 4) + 1 \in 1..4
        BY <1>1
    <2>2. e[k] = Alphabet[Group(3 * ((k - 1) \div 4) + 1)[((k - 1) % 4) + 1]]
        BY <1>2
    <2>3. e[k] \in {Alphabet[d] : d \in Digits}
        <3>1. Group(3 * ((k - 1) \div 4) + 1)[((k - 1) % 4) + 1] \in Digits
            BY <1>4, <2>1
        <3> QED BY <2>2, <3>1
    <2>4. ASSUME NEW g \in Nat, NEW p \in 0..3, k = 4 * g + p + 1
          PROVE  e[k] = Alphabet[Group(3 * g + 1)[p + 1]]
        <3>1. (k - 1) \div 4 = g /\ (k - 1) % 4 = p
            <4>1. k - 1 = 4 * g + p
                BY <2>4
            <4>2. (4 * g + p) \div 4 = g /\ (4 * g + p) % 4 = p
                <5>1. (4 * g + p) \div 4 = g
                    OBVIOUS
                <5>2. (4 * g + p) % 4 = p
                    OBVIOUS
                <5> QED BY <5>1, <5>2
            <4> QED BY <4>1, <4>2
        <3> QED BY <2>2, <3>1
    <2> QED BY <2>3, <2>4
<1>6. ASSUME NEW k \in 1..n, NEW g \in Nat
      PROVE  /\ k = 4 * g + 1 => e[k] = Alphabet[Group(3 * g + 1)[0 + 1]]
             /\ k = 4 * g + 2 => e[k] = Alphabet[Group(3 * g + 1)[1 + 1]]
             /\ k = 4 * g + 3 => e[k] = Alphabet[Group(3 * g + 1)[2 + 1]]
             /\ k = 4 * g + 4 => e[k] = Alphabet[Group(3 * g + 1)[3 + 1]]
    <2>1. k = 4 * g + 1 => k = 4 * g + 0 + 1
        OBVIOUS
    <2>2. k = 4 * g + 2 => k = 4 * g + 1 + 1
        OBVIOUS
    <2>3. k = 4 * g + 3 => k = 4 * g + 2 + 1
        OBVIOUS
    <2>4. k = 4 * g + 4 => k = 4 * g + 3 + 1
        OBVIOUS
    <2> QED BY <1>5, <2>1, <2>2, <2>3, <2>4
<1>7. \A d \in Digits : Alphabet[d] \in Units
    <2>1. \A x \in 43..122 : x \in Units
        BY UnitsLemma
    <2> QED BY <2>1, AlphabetLemma
<1>8. e \in Text /\ Len(e) = n
    <2>1. \A k \in 1..n : e[k] \in Units
        BY <1>5, <1>7
    <2>2. e = [k \in 1..n |-> e[k]]
        BY <1>2
    <2> QED BY <1>1, <2>1, <2>2 DEF Text
<1>9. ASSUME NEW k \in 1..n, NEW g \in Nat
      PROVE  /\ k = 4 * g + 1 => e[k] = Alphabet[First(B(3 * g + 1))]
             /\ k = 4 * g + 2 => e[k] = Alphabet[Second(B(3 * g + 1), B(3 * g + 2))]
             /\ k = 4 * g + 3 => e[k] = Alphabet[Third(B(3 * g + 2), B(3 * g + 3))]
             /\ k = 4 * g + 4 => e[k] = Alphabet[Fourth(B(3 * g + 3))]
    BY <1>3, <1>6
<1> QED BY <1>5, <1>8, <1>9 DEF e, B

-----------------------------------------------------------------------------
(* The decoder, digit by digit: after the first digits of an encoding it    *)
(* has put out the bytes they complete and keeps the bits that are left     *)
(* over.                                                                    *)

AreDigits(text) == \A k \in 1..Len(text) : Digit(text[k]) \in Digits
DecoderStates == [acc : Nat, bits : {0, 2, 4, 6}, out : Seq(Octets)]
Shift(st, ch) == Shifted(st.acc, Digit(ch))

(* One digit: six bits come in, and a byte goes out if there are eight.     *)
LEMMA DecodeCharLemma ==
    ASSUME NEW st \in DecoderStates, NEW ch, Digit(ch) \in Digits
    PROVE  /\ DecodeChar(st, ch) \in DecoderStates
           /\ DecodeChar(st, ch).acc = Shift(st, ch)
           /\ st.bits = 0 => DecodeChar(st, ch).bits = 6 /\ DecodeChar(st, ch).out = st.out
           /\ st.bits = 6 => DecodeChar(st, ch).bits = 4 /\ DecodeChar(st, ch).out = Append(st.out, ByteSix(Shift(st, ch)))
           /\ st.bits = 4 => DecodeChar(st, ch).bits = 2 /\ DecodeChar(st, ch).out = Append(st.out, ByteFour(Shift(st, ch)))
           /\ st.bits = 2 => DecodeChar(st, ch).bits = 0 /\ DecodeChar(st, ch).out = Append(st.out, ByteTwo(Shift(st, ch)))
<1> DEFINE a == Shift(st, ch)
           next == DecodeChar(st, ch)
<1>1. 2^14 = 16384 /\ 2^0 = 1 /\ 2^2 = 4 /\ 2^4 = 16
    OBVIOUS
<1>2. st.acc \in Nat /\ st.bits \in {0, 2, 4, 6} /\ st.out \in Seq(Octets)
    BY DEF DecoderStates
<1>3. a \in Nat /\ a = (st.acc * 64 + Digit(ch)) % 2^14
    <2>1. a = (st.acc * 64 + Digit(ch)) % 2^14
        BY <1>1 DEF Shift, Shifted
    <2>2. (st.acc * 64 + Digit(ch)) % 16384 \in Nat
        <3>1. st.acc \in Nat
            BY <1>2
        <3>2. Digit(ch) \in Nat
            BY DEF Digits
        <3>3. st.acc \in Nat /\ Digit(ch) \in Nat
            BY <3>1, <3>2
        <3>4. st.acc * 64 + Digit(ch) \in Nat
            BY <3>3
        <3> QED BY <3>4
    <2> QED BY <2>1, <2>2 DEF Shift, Shifted
<1>4. next = IF st.bits + 6 < 8 THEN [acc |-> a, bits |-> st.bits + 6, out |-> st.out]
             ELSE [acc |-> a, bits |-> (st.bits + 6) - 8,
                   out |-> Append(st.out, (a \div 2^((st.bits + 6) - 8)) % 256)]
    <2> HIDE DEF a
    <2>1. a = (st.acc * 64 + Digit(ch)) % 2^14
        BY <1>3
    <2> DEFINE x == (st.acc * 64 + Digit(ch)) % 2^14
    <2>2. next = IF st.bits + 6 < 8 THEN [acc |-> x, bits |-> st.bits + 6, out |-> st.out]
             ELSE [acc |-> x, bits |-> (st.bits + 6) - 8,
                   out |-> Append(st.out, (x \div 2^((st.bits + 6) - 8)) % 256)]
        BY DEF DecodeChar
    <2> HIDE DEF x, next
    <2> QED BY <2>1, <2>2 DEF x
<1> HIDE DEF a, next
<1>5. (a \div 16) % 256 \in Octets /\ (a \div 4) % 256 \in Octets /\ a % 256 \in Octets /\ a \div 1 = a
    <2>1. (a \div 16) % 256 \in Octets
        BY <1>3 DEF Octets
    <2>2. (a \div 4) % 256 \in Octets
        BY <1>3 DEF Octets
    <2>3. a % 256 \in Octets
        BY <1>3 DEF Octets
    <2>4. a \div 1 = a
        BY <1>3
    <2> QED BY <2>1, <2>2, <2>3, <2>4
<1>6. CASE st.bits = 0
    <2>1. next = [acc |-> a, bits |-> 6, out |-> st.out]
        BY <1>4, <1>6
    <2> QED BY <1>2, <1>3, <1>6, <2>1 DEF DecoderStates, next, a
<1>7. CASE st.bits = 6
    <2>1. next = [acc |-> a, bits |-> 4, out |-> Append(st.out, (a \div 16) % 256)]
        BY <1>1, <1>4, <1>7
    <2>2. Append(st.out, (a \div 16) % 256) \in Seq(Octets)
        BY <1>2, <1>5
    <2> QED BY <1>3, <1>7, <2>1, <2>2 DEF DecoderStates, next, a, ByteSix
<1>8. CASE st.bits = 4
    <2>1. next = [acc |-> a, bits |-> 2, out |-> Append(st.out, (a \div 4) % 256)]
        BY <1>1, <1>4, <1>8
    <2>2. Append(st.out, (a \div 4) % 256) \in Seq(Octets)
        BY <1>2, <1>5
    <2> QED BY <1>3, <1>8, <2>1, <2>2 DEF DecoderStates, next, a, ByteFour
<1>9. CASE st.bits = 2
    <2>1. next = [acc |-> a, bits |-> 0, out |-> Append(st.out, a % 256)]
        <3>1. next = [acc |-> a, bits |-> 0, out |-> Append(st.out, (a \div 1) % 256)]
            BY <1>1, <1>4, <1>9
        <3> QED BY <1>5, <3>1
    <2>2. Append(st.out, a % 256) \in Seq(Octets)
        BY <1>2, <1>5
    <2> QED BY <1>3, <1>9, <2>1, <2>2 DEF DecoderStates, next, a, ByteTwo
<1> QED BY <1>2, <1>6, <1>7, <1>8, <1>9

(* The states of the decoder along a text of digits.                        *)
LEMMA DecodingLemma ==
    ASSUME NEW text \in Text, AreDigits(text)
    PROVE  /\ Decoding(text)[0] = [acc |-> 0, bits |-> 0, out |-> <<>>]
           /\ \A k \in 0..Len(text) : Decoding(text)[k] \in DecoderStates
           /\ \A k \in 1..Len(text) : Decoding(text)[k] = DecodeChar(Decoding(text)[k - 1], text[k])
<1> DEFINE n == Len(text)
           base == [acc |-> 0, bits |-> 0, out |-> <<>>]
           step == [i \in 1..n |-> [st \in DecoderStates |-> DecodeChar(st, text[i])]]
           Q(f) == f = [i \in 0..n |-> IF i = 0 THEN base ELSE DecodeChar(f[i - 1], text[i])]
<1>1. n \in Nat
    BY DEF Text
<1>2. base \in DecoderStates
    BY EmptySeq DEF DecoderStates
<1>3. step \in [1..n -> [DecoderStates -> DecoderStates]]
    BY DecodeCharLemma DEF AreDigits
<1> HIDE DEF base, n
<1>4. PICK f \in [0..n -> DecoderStates] :
            f[0] = base /\ \A i \in 1..n : f[i] = step[i][f[i - 1]]
    <2> DEFINE S == DecoderStates
    <2>1. base \in S
        BY <1>2
    <2>2. step \in [1..n -> [S -> S]]
        BY <1>3
    <2> HIDE DEF step, S, Q
    <2>3. \E f \in [0..n -> S] : f[0] = base /\ \A i \in 1..n : f[i] = step[i][f[i - 1]]
        BY <1>1, <2>1, <2>2, Recursion, SMTT(20)
    <2> QED BY <2>3 DEF S
<1>5. \A i \in 0..n : f[i] = IF i = 0 THEN base ELSE DecodeChar(f[i - 1], text[i])
    <2> TAKE i \in 0..n
    <2>1. CASE i # 0
        <3>1. i \in 1..n /\ i - 1 \in 0..n
            BY <1>1, <2>1
        <3>2. f[i - 1] \in DecoderStates
            BY <1>4, <3>1
        <3>3. step[i][f[i - 1]] = DecodeChar(f[i - 1], text[i])
            BY <3>1, <3>2
        <3>4. f[i] = step[i][f[i - 1]]
            <4> HIDE DEF step
            <4> QED BY <1>4, <3>1
        <3> QED BY <2>1, <3>3, <3>4
    <2> QED BY <1>4, <2>1
<1>6. Q(f)
    BY <1>4, <1>5
<1>7. Decoding(text) = CHOOSE g : Q(g)
    BY DEF Decoding, base, n
<1> HIDE DEF Q
<1>8. Q(Decoding(text))
    BY <1>6, <1>7
<1>9. \A i \in 0..n : Decoding(text)[i] = IF i = 0 THEN base ELSE DecodeChar(Decoding(text)[i - 1], text[i])
    <2> DEFINE h == Decoding(text)
    <2>1. Q(h)
        BY <1>8
    <2> HIDE DEF h
    <2>2. \A i \in 0..n : h[i] = IF i = 0 THEN base ELSE DecodeChar(h[i - 1], text[i])
        BY <2>1 DEF Q
    <2> QED BY <2>2 DEF h
<1>10. \A i \in 0..n : Decoding(text)[i] \in DecoderStates
    <2> DEFINE h == Decoding(text)
    <2>1. h[0] \in DecoderStates
        BY <1>1, <1>2, <1>9
    <2>2. ASSUME NEW i \in 1..n, h[i - 1] \in DecoderStates PROVE h[i] \in DecoderStates
        <3>1. h[i] = DecodeChar(h[i - 1], text[i])
            BY <1>1, <1>9
        <3> QED BY <2>2, <3>1, DecodeCharLemma DEF n, AreDigits
    <2> HIDE DEF h
    <2>3. \A i \in 0..n : h[i] \in DecoderStates
        BY <1>1, <2>1, <2>2, ValuesStay
    <2> QED BY <2>3 DEF h
<1>11. Decoding(text)[0] = base /\ \A i \in 1..n : Decoding(text)[i] = DecodeChar(Decoding(text)[i - 1], text[i])
    BY <1>1, <1>9
<1> QED BY <1>10, <1>11 DEF base, n

(* The first j bytes are out.                                               *)
HasDecoded(b, st, j) ==
    st.out \in Seq(Octets) /\ Len(st.out) = j /\ j <= Len(b) /\ \A i \in 1..j : st.out[i] = b[i]

(* After k digits the whole bytes are out and the low bits of the           *)
(* accumulator are the beginning of the next.                               *)
Phase0(b, k, st, g) == k = 4 * g /\ st.bits = 0 /\ HasDecoded(b, st, 3 * g)
Phase1(b, k, st, g) == k = 4 * g + 1 /\ st.bits = 6 /\ HasDecoded(b, st, 3 * g) /\ 3 * g + 1 <= Len(b)
                       /\ LowSix(st.acc) = First(ByteAt(b, 3 * g + 1))
Phase2(b, k, st, g) == k = 4 * g + 2 /\ st.bits = 4 /\ HasDecoded(b, st, 3 * g + 1)
                       /\ LowFour(st.acc) = TopFour(ByteAt(b, 3 * g + 2))
Phase3(b, k, st, g) == k = 4 * g + 3 /\ st.bits = 2 /\ HasDecoded(b, st, 3 * g + 2)
                       /\ LowTwo(st.acc) = TopTwo(ByteAt(b, 3 * g + 3))

(* One more byte is out.                                                    *)
LEMMA AppendDecoded ==
    ASSUME NEW b, NEW st, NEW next, NEW j \in Nat, NEW v \in Octets,
           HasDecoded(b, st, j), j + 1 <= Len(b), v = b[j + 1], next.out = Append(st.out, v)
    PROVE  HasDecoded(b, next, j + 1)
<1> DEFINE s == st.out
           t == next.out
<1>1. s \in Seq(Octets) /\ Len(s) = j /\ \A i \in 1..j : s[i] = b[i]
    BY DEF HasDecoded
<1>2. t = Append(s, v)
    OBVIOUS
<1> HIDE DEF s, t
<1>3. t \in Seq(Octets) /\ Len(t) = j + 1 /\ t[j + 1] = v /\ \A i \in 1..j : t[i] = s[i]
    BY <1>1, <1>2, AppendProperties
<1>4. \A i \in 1 .. j + 1 : t[i] = b[i]
    <2> TAKE i \in 1 .. j + 1
    <2>1. i = j + 1 \/ i \in 1..j
        OBVIOUS
    <2> QED BY <1>1, <1>3, <2>1
<1> QED BY <1>3, <1>4 DEF HasDecoded, t

(* A byte of the text, or a zero behind its end.                            *)
LEMMA ByteAtLemma ==
    ASSUME NEW b \in Seq(Octets), NEW i \in Nat \ {0}
    PROVE  /\ ByteAt(b, i) \in Octets
           /\ i <= Len(b) => ByteAt(b, i) = b[i]
           /\ i > Len(b) => ByteAt(b, i) = 0
<1>1. 0 \in Octets
    BY DEF Octets
<1>2. Len(b) \in Nat
    OBVIOUS
<1>3. i <= Len(b) => b[i] \in Octets
    BY <1>2, ElementOfSeq
<1> QED BY <1>1, <1>2, <1>3 DEF ByteAt

(* One digit more.                                                          *)
LEMMA DigitStep ==
    ASSUME NEW b \in Seq(Octets), NEW g \in Nat, NEW st \in DecoderStates,
           NEW k \in 1 .. (8 * Len(b) + 5) \div 6
    PROVE  LET next == DecodeChar(st, encode_modified_base64(b)[k]) IN
           /\ Phase0(b, k - 1, st, g) => Phase1(b, k, next, g)
           /\ Phase1(b, k - 1, st, g) => Phase2(b, k, next, g)
           /\ Phase2(b, k - 1, st, g) => Phase3(b, k, next, g)
           /\ Phase3(b, k - 1, st, g) => Phase0(b, k, next, g + 1)
<1> DEFINE ch == encode_modified_base64(b)[k]
           next == DecodeChar(st, ch)
           x == ByteAt(b, 3 * g + 1)
           y == ByteAt(b, 3 * g + 2)
           z == ByteAt(b, 3 * g + 3)
           n == Len(b)
<1>1. n \in Nat /\ st.acc \in Nat /\ k \in Nat
    <2>1. st.acc \in Nat
        BY DEF DecoderStates
    <2>2. n \in Nat
        OBVIOUS
    <2>3. k \in Nat
        BY <2>2
    <2> QED BY <2>1, <2>2, <2>3
<1>2. /\ x \in Octets /\ (3 * g + 1 <= n => x = b[3 * g + 1])
      /\ y \in Octets /\ (3 * g + 2 <= n => y = b[3 * g + 2])
      /\ z \in Octets /\ (3 * g + 3 <= n => z = b[3 * g + 3])
    <2>1. 3 * g + 1 \in Nat \ {0} /\ 3 * g + 2 \in Nat \ {0} /\ 3 * g + 3 \in Nat \ {0}
        OBVIOUS
    <2> QED BY <2>1, ByteAtLemma
<1>3. \A d \in Digits : Digit(Alphabet[d]) = d /\ d \in Nat /\ d < 64
    <2>1. \A d \in Digits : d \in Nat /\ d < 64
        BY DEF Digits
    <2> QED BY <2>1, AlphabetLemma
<1>4. /\ k = 4 * g + 1 => ch = Alphabet[First(x)]
      /\ k = 4 * g + 2 => ch = Alphabet[Second(x, y)]
      /\ k = 4 * g + 3 => ch = Alphabet[Third(y, z)]
      /\ k = 4 * g + 4 => ch = Alphabet[Fourth(z)]
    BY DigitsLemma
<1>5. /\ k = 4 * g + 1 => 3 * g + 1 <= n
      /\ k = 4 * g + 3 => 3 * g + 2 <= n
      /\ k = 4 * g + 4 => 3 * g + 3 <= n
    <2>1. 6 * k <= 8 * n + 5
        BY <1>1
    <2> HIDE DEF n
    <2> QED BY <1>1, <2>1
<1>6. First(x) \in Digits /\ Second(x, y) \in Digits /\ Third(y, z) \in Digits /\ Fourth(z) \in Digits
    BY <1>2, FirstLemma, SecondLemma, ThirdLemma, FourthLemma
<1> HIDE DEF ch, next, x, y, z, n
<1>7. ASSUME NEW d \in Digits, ch = Alphabet[d]
      PROVE  /\ next \in DecoderStates /\ next.acc = Shifted(st.acc, d)
             /\ st.bits = 0 => next.bits = 6 /\ next.out = st.out
             /\ st.bits = 6 => next.bits = 4 /\ next.out = Append(st.out, ByteSix(Shifted(st.acc, d)))
             /\ st.bits = 4 => next.bits = 2 /\ next.out = Append(st.out, ByteFour(Shifted(st.acc, d)))
             /\ st.bits = 2 => next.bits = 0 /\ next.out = Append(st.out, ByteTwo(Shifted(st.acc, d)))
    <2>1. Digit(ch) = d /\ Digit(ch) \in Digits
        BY <1>3, <1>7
    <2> QED BY <2>1, DecodeCharLemma DEF Shift, next
<1>8. ASSUME Phase0(b, k - 1, st, g) PROVE Phase1(b, k, next, g)
    <2>1. k = 4 * g + 1 /\ st.bits = 0 /\ HasDecoded(b, st, 3 * g)
        BY <1>1, <1>8 DEF Phase0
    <2>2. next.acc = Shifted(st.acc, First(x)) /\ next.bits = 6 /\ next.out = st.out
        BY <1>4, <1>6, <1>7, <2>1
    <2>3. LowSix(next.acc) = First(x)
        BY <1>1, <1>2, <2>2, FirstStep
    <2>4. HasDecoded(b, next, 3 * g)
        BY <2>1, <2>2 DEF HasDecoded
    <2> QED BY <1>5, <2>1, <2>2, <2>3, <2>4 DEF Phase1, x, n
<1>9. ASSUME Phase1(b, k - 1, st, g) PROVE Phase2(b, k, next, g)
    <2>1. k = 4 * g + 2 /\ st.bits = 6 /\ HasDecoded(b, st, 3 * g) /\ 3 * g + 1 <= n
          /\ LowSix(st.acc) = First(x)
        BY <1>1, <1>9 DEF Phase1, x, n
    <2>2. next.acc = Shifted(st.acc, Second(x, y)) /\ next.bits = 4
          /\ next.out = Append(st.out, ByteSix(Shifted(st.acc, Second(x, y))))
        BY <1>4, <1>6, <1>7, <2>1
    <2>3. LowFour(next.acc) = TopFour(y) /\ next.out = Append(st.out, x)
        BY <1>1, <1>2, <2>1, <2>2, SecondStep
    <2>4. HasDecoded(b, next, 3 * g + 1)
        <3>1. x = b[3 * g + 1] /\ 3 * g \in Nat
            BY <1>2, <2>1
        <3> QED BY <1>2, <2>1, <2>3, <3>1, AppendDecoded DEF n
    <2> QED BY <2>1, <2>2, <2>3, <2>4 DEF Phase2, y
<1>10. ASSUME Phase2(b, k - 1, st, g) PROVE Phase3(b, k, next, g)
    <2>1. k = 4 * g + 3 /\ st.bits = 4 /\ HasDecoded(b, st, 3 * g + 1) /\ 3 * g + 2 <= n
          /\ LowFour(st.acc) = TopFour(y)
        BY <1>1, <1>5, <1>10 DEF Phase2, y, n
    <2>2. next.acc = Shifted(st.acc, Third(y, z)) /\ next.bits = 2
          /\ next.out = Append(st.out, ByteFour(Shifted(st.acc, Third(y, z))))
        BY <1>4, <1>6, <1>7, <2>1
    <2>3. LowTwo(next.acc) = TopTwo(z) /\ next.out = Append(st.out, y)
        BY <1>1, <1>2, <2>1, <2>2, ThirdStep
    <2>4. HasDecoded(b, next, 3 * g + 2)
        <3>1. y = b[3 * g + 2] /\ 3 * g + 1 \in Nat /\ (3 * g + 1) + 1 = 3 * g + 2 /\ (3 * g + 1) + 1 <= n
              /\ y = b[(3 * g + 1) + 1]
            BY <1>2, <2>1
        <3> QED BY <1>2, <2>1, <2>3, <3>1, AppendDecoded DEF n
    <2> QED BY <2>1, <2>2, <2>3, <2>4 DEF Phase3, z
<1>11. ASSUME Phase3(b, k - 1, st, g) PROVE Phase0(b, k, next, g + 1)
    <2>1. k = 4 * g + 4 /\ st.bits = 2 /\ HasDecoded(b, st, 3 * g + 2) /\ 3 * g + 3 <= n
          /\ LowTwo(st.acc) = TopTwo(z)
        BY <1>1, <1>5, <1>11 DEF Phase3, z, n
    <2>2. next.bits = 0 /\ next.out = Append(st.out, ByteTwo(Shifted(st.acc, Fourth(z))))
        BY <1>4, <1>6, <1>7, <2>1
    <2>3. next.out = Append(st.out, z)
        BY <1>1, <1>2, <2>1, <2>2, FourthStep
    <2>4. HasDecoded(b, next, 3 * g + 3)
        <3>1. z = b[3 * g + 3] /\ 3 * g + 2 \in Nat /\ (3 * g + 2) + 1 = 3 * g + 3 /\ (3 * g + 2) + 1 <= n
              /\ z = b[(3 * g + 2) + 1]
            BY <1>2, <2>1
        <3> QED BY <1>2, <2>1, <2>3, <3>1, AppendDecoded DEF n
    <2>5. 3 * (g + 1) = 3 * g + 3 /\ 4 * (g + 1) = 4 * g + 4
        OBVIOUS
    <2> QED BY <2>1, <2>2, <2>4, <2>5 DEF Phase0
<1> QED BY <1>8, <1>9, <1>10, <1>11 DEF next, ch

(* Where the decoder stands after k digits.                                 *)
Stands(b, k, st) ==
    \E g \in Nat : Phase0(b, k, st, g) \/ Phase1(b, k, st, g) \/ Phase2(b, k, st, g) \/ Phase3(b, k, st, g)

(* Behind the last digit all bytes are out and no bits are left.            *)
LEMMA StandsAtEnd ==
    ASSUME NEW b \in Seq(Octets), NEW st \in DecoderStates, Stands(b, (8 * Len(b) + 5) \div 6, st)
    PROVE  st.out = b /\ st.acc % 2^st.bits = 0
<1>1. PICK g \in Nat : LET k == (8 * Len(b) + 5) \div 6 IN
            Phase0(b, k, st, g) \/ Phase1(b, k, st, g) \/ Phase2(b, k, st, g) \/ Phase3(b, k, st, g)
    BY DEF Stands
<1> DEFINE n == Len(b)
           k == (8 * n + 5) \div 6
<1>2. n \in Nat /\ k \in Nat /\ st.acc \in Nat
    BY DEF DecoderStates
<1>3. PICK h \in Nat : \/ n = 3 * h /\ k = 4 * h
                       \/ n = 3 * h + 1 /\ k = 4 * h + 2
                       \/ n = 3 * h + 2 /\ k = 4 * h + 3
    BY <1>2, Ends
<1>4. ASSUME HasDecoded(b, st, n) PROVE st.out = b
    BY <1>2, <1>4, SeqEqual DEF HasDecoded
<1>5. 2^0 = 1 /\ 2^2 = 4 /\ 2^4 = 16
    OBVIOUS
<1>6. TopFour(0) = 0 /\ TopTwo(0) = 0
    BY DEF TopFour, TopTwo
<1>7. CASE n = 3 * h /\ k = 4 * h
    <2>1. Phase0(b, k, st, g) \/ Phase1(b, k, st, g) \/ Phase2(b, k, st, g) \/ Phase3(b, k, st, g)
        BY <1>1
    <2> HIDE DEF k, n
    <2>2. g = h /\ st.bits = 0 /\ HasDecoded(b, st, 3 * g)
        BY <1>2, <1>7, <2>1 DEF Phase0, Phase1, Phase2, Phase3
    <2>3. st.acc % 1 = 0
        BY <1>2
    <2> QED BY <1>4, <1>5, <1>7, <2>2, <2>3
<1>8. CASE n = 3 * h + 1 /\ k = 4 * h + 2
    <2>1. Phase0(b, k, st, g) \/ Phase1(b, k, st, g) \/ Phase2(b, k, st, g) \/ Phase3(b, k, st, g)
        BY <1>1
    <2>2. 3 * h + 2 \in Nat \ {0} /\ 3 * h + 2 > n
        BY <1>8
    <2>3. ByteAt(b, 3 * h + 2) = 0
        BY <2>2, ByteAtLemma
    <2> HIDE DEF k, n
    <2>4. g = h /\ st.bits = 4 /\ HasDecoded(b, st, 3 * g + 1) /\ LowFour(st.acc) = TopFour(ByteAt(b, 3 * g + 2))
        BY <1>2, <1>8, <2>1 DEF Phase0, Phase1, Phase2, Phase3
    <2>5. st.acc % 16 = 0
        BY <1>6, <2>3, <2>4 DEF LowFour
    <2> QED BY <1>4, <1>5, <1>8, <2>4, <2>5
<1>9. CASE n = 3 * h + 2 /\ k = 4 * h + 3
    <2>1. Phase0(b, k, st, g) \/ Phase1(b, k, st, g) \/ Phase2(b, k, st, g) \/ Phase3(b, k, st, g)
        BY <1>1
    <2>2. 3 * h + 3 \in Nat \ {0} /\ 3 * h + 3 > n
        BY <1>9
    <2>3. ByteAt(b, 3 * h + 3) = 0
        BY <2>2, ByteAtLemma
    <2> HIDE DEF k, n
    <2>4. g = h /\ st.bits = 2 /\ HasDecoded(b, st, 3 * g + 2) /\ LowTwo(st.acc) = TopTwo(ByteAt(b, 3 * g + 3))
        BY <1>2, <1>9, <2>1 DEF Phase0, Phase1, Phase2, Phase3
    <2>5. st.acc % 4 = 0
        BY <1>6, <2>3, <2>4 DEF LowTwo
    <2> QED BY <1>4, <1>5, <1>9, <2>4, <2>5
<1> QED BY <1>3, <1>7, <1>8, <1>9

(* decode_modified_base64 gives back the bytes that encode_modified_base64  *)
(* was given, however many they are.                                        *)
THEOREM Base64RoundTrip ==
    ASSUME NEW b \in Seq(Octets)
    PROVE  decode_modified_base64(encode_modified_base64(b)) = b
<1> DEFINE e == encode_modified_base64(b)
           n == (8 * Len(b) + 5) \div 6
           st(k) == Decoding(e)[k]
<1>1. e \in Text /\ Len(e) = n /\ n \in Nat /\ \A k \in 1..n : e[k] \in {Alphabet[d] : d \in Digits}
    <2>1. n \in Nat
        OBVIOUS
    <2> QED BY <2>1, DigitsLemma
<1>2. \A k \in 1..n : IsDigit(e[k]) /\ Digit(e[k]) \in Digits
    <2> TAKE k \in 1..n
    <2>1. PICK d \in Digits : e[k] = Alphabet[d]
        BY <1>1
    <2> HIDE DEF e
    <2> QED BY <2>1, AlphabetLemma
<1>3. AreDigits(e)
    BY <1>1, <1>2 DEF AreDigits
<1>4. /\ st(0) = [acc |-> 0, bits |-> 0, out |-> <<>>]
      /\ \A k \in 0..n : st(k) \in DecoderStates
      /\ \A k \in 1..n : st(k) = DecodeChar(st(k - 1), e[k])
    <2> HIDE DEF e
    <2> QED BY <1>1, <1>3, DecodingLemma
<1> HIDE DEF st
<1> DEFINE Q == {k \in Nat : k <= n => Stands(b, k, st(k))}
<1>5. 0 \in Q
    <2>1. st(0).out = <<>> /\ st(0).bits = 0
        BY <1>4
    <2>2. HasDecoded(b, st(0), 3 * 0)
        <3>1. Len(b) \in Nat /\ <<>> \in Seq(Octets) /\ Len(<<>>) = 0
            BY EmptySeq
        <3>2. 3 * 0 = 0 /\ 0 <= Len(b) /\ 1..0 = {}
            BY <3>1
        <3> HIDE DEF e
        <3> QED BY <2>1, <3>1, <3>2 DEF HasDecoded
    <2>3. Phase0(b, 0, st(0), 0)
        BY <2>1, <2>2 DEF Phase0
    <2> QED BY <2>3 DEF Stands
<1>6. ASSUME NEW k \in Nat, k \in Q PROVE k + 1 \in Q
    <2> SUFFICES ASSUME k + 1 <= n PROVE Stands(b, k + 1, st(k + 1))
        OBVIOUS
    <2>1. k + 1 \in 1..n /\ (k + 1) - 1 = k /\ k \in 0..n /\ Stands(b, k, st(k))
        BY <1>1, <1>6
    <2>2. PICK g \in Nat : Phase0(b, k, st(k), g) \/ Phase1(b, k, st(k), g)
                           \/ Phase2(b, k, st(k), g) \/ Phase3(b, k, st(k), g)
        BY <2>1 DEF Stands
    <2>3. st(k) \in DecoderStates /\ st(k + 1) = DecodeChar(st(k), e[k + 1])
        BY <1>4, <2>1
    <2>4. /\ Phase0(b, k, st(k), g) => Phase1(b, k + 1, st(k + 1), g)
          /\ Phase1(b, k, st(k), g) => Phase2(b, k + 1, st(k + 1), g)
          /\ Phase2(b, k, st(k), g) => Phase3(b, k + 1, st(k + 1), g)
          /\ Phase3(b, k, st(k), g) => Phase0(b, k + 1, st(k + 1), g + 1)
        <3> PICK j \in 1..n : j = k + 1 /\ j - 1 = k
            BY <2>1
        <3> QED BY <2>3, DigitStep
    <2> QED BY <2>2, <2>4 DEF Stands
<1> HIDE DEF Q
<1>7. Stands(b, n, st(n))
    <2>1. n \in Q
        BY <1>1, <1>5, <1>6, Induction
    <2> QED BY <1>1, <2>1 DEF Q
<1>8. st(n).out = b /\ st(n).acc % 2^st(n).bits = 0
    <2>1. st(n) \in DecoderStates
        BY <1>1, <1>4
    <2> QED BY <1>7, <2>1, StandsAtEnd
<1>9. ~ \E k \in 1..Len(e) : ~IsDigit(e[k])
    BY <1>1, <1>2
<1> QED BY <1>1, <1>8, <1>9 DEF decode_modified_base64, st

-----------------------------------------------------------------------------
(* Texts: joining them, parts of them, the end of a segment.                *)

(* The empty text, a text of one unit, the units of a text.                 *)
LEMMA TextLemma ==
    /\ <<>> \in Text /\ Len(<<>>) = 0
    /\ \A u \in Units : <<u>> \in Text /\ Len(<<u>>) = 1 /\ <<u>>[1] = u
    /\ \A s \in Text : /\ Len(s) \in Nat /\ \A i \in 1..Len(s) : s[i] \in Units
                       /\ s # <<>> => Len(s) > 0
    /\ \A s \in Text : s \o <<>> = s /\ <<>> \o s = s
<1>1. <<>> \in Text /\ Len(<<>>) = 0
    BY EmptySeq DEF Text
<1>2. \A u \in Units : <<u>> \in Text /\ Len(<<u>>) = 1 /\ <<u>>[1] = u
    <2> TAKE u \in Units
    <2> QED BY DEF Text
<1>3. ASSUME NEW s \in Text
      PROVE  Len(s) \in Nat /\ \A i \in 1..Len(s) : s[i] \in Units
    BY ElementOfSeq, LenProperties DEF Text
<1>4. ASSUME NEW s \in Text, s # <<>> PROVE Len(s) > 0
    BY <1>4, EmptySeq DEF Text
<1>5. \A s \in Text : s \o <<>> = s /\ <<>> \o s = s
    BY ConcatEmptySeq DEF Text
<1> QED BY <1>1, <1>2, <1>3, <1>4, <1>5

(* Two texts joined.                                                        *)
LEMMA TextConcat ==
    ASSUME NEW s \in Text, NEW t \in Text
    PROVE  /\ s \o t \in Text /\ Len(s \o t) = Len(s) + Len(t)
           /\ \A i \in 1..Len(s) : (s \o t)[i] = s[i]
           /\ \A i \in 1..Len(t) : (s \o t)[Len(s) + i] = t[i]
<1>1. /\ s \o t \in Text /\ Len(s \o t) = Len(s) + Len(t)
      /\ \A i \in 1 .. Len(s) + Len(t) : (s \o t)[i] = IF i <= Len(s) THEN s[i] ELSE t[i - Len(s)]
    BY ConcatProperties DEF Text
<1>2. Len(s) \in Nat /\ Len(t) \in Nat
    BY TextLemma
<1>3. ASSUME NEW i \in 1..Len(t) PROVE (s \o t)[Len(s) + i] = t[i]
    <2>1. Len(s) + i \in 1 .. Len(s) + Len(t) /\ ~(Len(s) + i <= Len(s)) /\ Len(s) + i - Len(s) = i
        BY <1>2
    <2> QED BY <1>1, <2>1
<1>4. ASSUME NEW i \in 1..Len(s) PROVE (s \o t)[i] = s[i]
    <2>1. i \in 1 .. Len(s) + Len(t) /\ i <= Len(s)
        BY <1>2
    <2> QED BY <1>1, <2>1
<1> QED BY <1>1, <1>3, <1>4

(* Joining is associative.                                                  *)
LEMMA TextAssoc ==
    \A s, t, u \in Text : (s \o t) \o u = s \o (t \o u)
BY ConcatAssociative DEF Text

(* Texts with the same units are equal.                                     *)
LEMMA TextEqual ==
    ASSUME NEW s \in Text, NEW t \in Text, Len(s) = Len(t), \A i \in 1..Len(s) : s[i] = t[i]
    PROVE  s = t
BY SeqEqual DEF Text

Part(s, i, j) == SubSeq(s, i, j)

(* A part of a text.                                                        *)
LEMMA TextSub ==
    ASSUME NEW s \in Text, NEW i \in Nat \ {0}, NEW j \in Nat, j <= Len(s)
    PROVE  /\ Part(s, i, j) \in Text
           /\ Len(Part(s, i, j)) = IF i <= j THEN j - i + 1 ELSE 0
           /\ \A k \in 1 .. j - i + 1 : Part(s, i, j)[k] = s[i + k - 1]
<1>1. \A k \in i..j : s[k] \in Units
    <2>1. \A k \in i..j : k \in 1..Len(s)
        BY TextLemma
    <2> QED BY <2>1, TextLemma
<1> QED BY <1>1, SubSeqProperties DEF Text, Part

(* Part of a concatenation that lies in its second half, or is its first.   *)
LEMMA TextSubConcat ==
    ASSUME NEW s \in Text, NEW t \in Text, NEW i \in Nat \ {0}, NEW j \in Nat, j <= Len(t)
    PROVE  Part(s \o t, Len(s) + i, Len(s) + j) = Part(t, i, j)
<1> DEFINE a == Part(s \o t, Len(s) + i, Len(s) + j)
           b == Part(t, i, j)
<1>1. Len(s) \in Nat /\ Len(t) \in Nat /\ s \o t \in Text /\ Len(s \o t) = Len(s) + Len(t)
    BY TextLemma, TextConcat
<1>2. Len(s) + i \in Nat \ {0} /\ Len(s) + j \in Nat /\ Len(s) + j <= Len(s \o t)
      /\ (Len(s) + j) - (Len(s) + i) + 1 = j - i + 1 /\ (Len(s) + i <= Len(s) + j <=> i <= j)
    BY <1>1
<1>3. /\ b \in Text /\ Len(b) = IF i <= j THEN j - i + 1 ELSE 0
      /\ \A k \in 1 .. j - i + 1 : b[k] = t[i + k - 1]
    BY TextSub
<1>4. /\ a \in Text /\ Len(a) = IF i <= j THEN j - i + 1 ELSE 0
      /\ \A k \in 1 .. j - i + 1 : a[k] = (s \o t)[Len(s) + i + k - 1]
    <2>1. PICK m \in Nat \ {0} : m = Len(s) + i
        BY <1>2
    <2>2. PICK n \in Nat : n = Len(s) + j
        BY <1>2
    <2>3. /\ Part(s \o t, m, n) \in Text
          /\ Len(Part(s \o t, m, n)) = IF m <= n THEN n - m + 1 ELSE 0
          /\ \A k \in 1 .. n - m + 1 : Part(s \o t, m, n)[k] = (s \o t)[m + k - 1]
        <3>1. PICK c \in Text : c = s \o t /\ n <= Len(c)
            BY <1>1, <1>2, <2>2
        <3> HIDE DEF a, b
        <3>2. /\ Part(c, m, n) \in Text
              /\ Len(Part(c, m, n)) = IF m <= n THEN n - m + 1 ELSE 0
              /\ \A k \in 1 .. n - m + 1 : Part(c, m, n)[k] = c[m + k - 1]
            BY <3>1, TextSub, ZenonT(60)
        <3> QED BY <3>1, <3>2
    <2>4. n - m + 1 = j - i + 1 /\ (m <= n <=> i <= j)
        BY <1>2, <2>1, <2>2
    <2>5. a = Part(s \o t, m, n)
        BY <2>1, <2>2
    <2> HIDE DEF a
    <2>6. /\ a \in Text /\ Len(a) = IF i <= j THEN j - i + 1 ELSE 0
          /\ \A k \in 1 .. j - i + 1 : a[k] = (s \o t)[m + k - 1]
        BY <2>3, <2>4, <2>5
    <2> QED BY <2>1, <2>6
<1>5. \A k \in 1 .. j - i + 1 : a[k] = b[k]
    <2> TAKE k \in 1 .. j - i + 1
    <2>1. Len(s) + i + k - 1 = Len(s) + (i + k - 1) /\ i + k - 1 \in 1..Len(t)
        BY <1>1
    <2>2. (s \o t)[Len(s) + (i + k - 1)] = t[i + k - 1]
        BY <2>1, TextConcat
    <2> QED BY <1>3, <1>4, <2>1, <2>2
<1>6. Len(a) = Len(b) /\ \A k \in 1..Len(a) : k \in 1 .. j - i + 1
    BY <1>3, <1>4
<1> HIDE DEF a, b
<1>7. a = b
    BY <1>3, <1>4, <1>5, <1>6, TextEqual
<1> QED BY <1>7 DEF a, b

(* The first of two joined texts.                                           *)
LEMMA TextSubFirst ==
    ASSUME NEW s \in Text, NEW t \in Text
    PROVE  Part(s \o t, 1, Len(s)) = s
<1> DEFINE a == Part(s \o t, 1, Len(s))
<1>1. Len(s) \in Nat /\ Len(t) \in Nat /\ s \o t \in Text /\ Len(s \o t) = Len(s) + Len(t)
    BY TextLemma, TextConcat
<1>2. 1 \in Nat \ {0} /\ Len(s) <= Len(s \o t) /\ Len(s) - 1 + 1 = Len(s) /\ (1 <= Len(s) \/ Len(s) = 0)
    BY <1>1
<1>3. /\ a \in Text /\ Len(a) = IF 1 <= Len(s) THEN Len(s) - 1 + 1 ELSE 0
      /\ \A k \in 1 .. Len(s) - 1 + 1 : a[k] = (s \o t)[1 + k - 1]
    BY <1>1, <1>2, TextSub, ZenonT(40)
<1> HIDE DEF a
<1>4. Len(a) = Len(s) /\ \A k \in 1..Len(s) : a[k] = s[k]
    <2>1. Len(a) = Len(s)
        BY <1>2, <1>3
    <2>2. \A k \in 1..Len(s) : 1 + k - 1 = k
        BY <1>1
    <2> QED BY <1>2, <1>3, <2>1, <2>2, TextConcat
<1>5. a = s
    BY <1>3, <1>4, TextEqual
<1> QED BY <1>5 DEF a

(* The end of a segment.                                                    *)
LEMMA EndOfLemma ==
    ASSUME NEW raw \in Text, NEW i \in 1..Len(raw)
    PROVE  \/ EndOf(raw, i) = 0 /\ \A j \in i..Len(raw) : raw[j] # Hyphen
           \/ /\ EndOf(raw, i) \in i..Len(raw) /\ raw[EndOf(raw, i)] = Hyphen
              /\ \A j \in i..Len(raw) : j < EndOf(raw, i) => raw[j] # Hyphen
<1> DEFINE I == {j \in i..Len(raw) : raw[j] = Hyphen}
<1>1. EndOf(raw, i) = IF I # {} THEN Min(I) ELSE 0
    BY DEF EndOf, SelectInSubSeq
<1>2. CASE I = {}
    BY <1>1, <1>2
<1>3. CASE I # {}
    <2>1. I \subseteq Nat /\ Len(raw) \in Nat
        BY TextLemma
    <2>2. PICK x \in I : \A y \in I : x <= y
        <3> SUFFICES ASSUME \A x \in I : \E y \in I : y < x PROVE FALSE
            <4> HIDE DEF I
            <4> QED BY <2>1
        <3> DEFINE P == Nat \ I
        <3>1. ASSUME NEW n \in Nat, \A m \in Nat : m < n => m \in P PROVE n \in P
            <4> HIDE DEF I
            <4> QED BY <2>1, <3>1
        <3> HIDE DEF P
        <3>2. \A n \in Nat : n \in P
            BY <3>1, StrongInduction
        <3> HIDE DEF I
        <3> QED BY <1>3, <2>1, <3>2 DEF P
    <2>3. Min(I) \in I /\ \A y \in I : Min(I) <= y
        <3> HIDE DEF I
        <3> QED BY <2>2 DEF Min
    <2>4. EndOf(raw, i) \in I /\ \A y \in I : EndOf(raw, i) <= y
        BY <1>1, <1>3, <2>3
    <2>5. \A j \in i..Len(raw) : j < EndOf(raw, i) => j \notin I
        <3>1. PICK e \in I : e = EndOf(raw, i) /\ \A y \in I : e <= y
            BY <2>4
        <3> HIDE DEF I
        <3>2. \A j \in I : ~(j < e)
            BY <2>1, <3>1
        <3> QED BY <3>1, <3>2
    <2> QED BY <2>4, <2>5
<1> QED BY <1>2, <1>3

(* The end of a segment is the first hyphen.                                *)
LEMMA EndOfIs ==
    ASSUME NEW raw \in Text, NEW i \in 1..Len(raw), NEW e \in i..Len(raw), raw[e] = Hyphen,
           \A j \in i..Len(raw) : j < e => raw[j] # Hyphen
    PROVE  EndOf(raw, i) = e
<1>1. i \in Nat /\ Len(raw) \in Nat
    BY TextLemma
<1> QED BY <1>1, EndOfLemma

-----------------------------------------------------------------------------
(* Segments, and the reading of a raw name from each of its places on.      *)

(* Two bytes make a unit.                                                   *)
UnitsOf(bytes) == [i \in 1 .. Len(bytes) \div 2 |-> bytes[2 * i - 1] * 256 + bytes[2 * i]]

(* Pairs of bytes are units.                                                *)
LEMMA UnitsOfLemma ==
    ASSUME NEW b \in Seq(Octets)
    PROVE  UnitsOf(b) \in Text
<1> DEFINE n == Len(b) \div 2
<1>1. Len(b) \in Nat /\ n \in Nat
    OBVIOUS
<1>2. ASSUME NEW i \in 1..n PROVE b[2 * i - 1] * 256 + b[2 * i] \in Units
    <2>1. 2 * i - 1 \in 1..Len(b) /\ 2 * i \in 1..Len(b)
        BY <1>1
    <2>2. b[2 * i - 1] \in Octets /\ b[2 * i] \in Octets
        BY <2>1, ElementOfSeq
    <2>3. \A x, y \in Octets : x * 256 + y \in Units
        BY UnitsLemma DEF Octets
    <2> QED BY <2>2, <2>3
<1> HIDE DEF n
<1>3. [i \in 1..n |-> b[2 * i - 1] * 256 + b[2 * i]] \in Seq(Units)
    BY <1>1, <1>2
<1> QED BY <1>3 DEF UnitsOf, Text, n

(* What decode_modified_base64 returns: bytes, or no bytes.                 *)
LEMMA BytesRead ==
    ASSUME NEW text \in Text
    PROVE  decode_modified_base64(text) = NoBytes \/ decode_modified_base64(text) \in Seq(Octets)
<1>1. CASE \E k \in 1..Len(text) : ~IsDigit(text[k])
    BY <1>1 DEF decode_modified_base64
<1>2. CASE \A k \in 1..Len(text) : IsDigit(text[k])
    <2>1. AreDigits(text)
        BY <1>2 DEF AreDigits, IsDigit, Digit, Digits
    <2>2. Decoding(text)[Len(text)] \in DecoderStates
        <3>1. Len(text) \in Nat
            BY TextLemma
        <3> QED BY <2>1, <3>1, DecodingLemma
    <2>3. Decoding(text)[Len(text)].out \in Seq(Octets)
        BY <2>2 DEF DecoderStates
    <2> QED BY <2>3 DEF decode_modified_base64
<1> QED BY <1>1, <1>2

(* What is read of a segment: its units, or the segment as it is.           *)
LEMMA SegmentLemma ==
    ASSUME NEW text \in Text
    PROVE  /\ decode_utf16_segment(text) \in Text
           /\ \/ decode_utf16_segment(text) = <<Ampersand>>
              \/ decode_utf16_segment(text) = <<Ampersand>> \o text \o <<Hyphen>>
              \/ Paired(decode_utf16_segment(text))
<1> DEFINE b == decode_modified_base64(text)
<1>1. b = NoBytes \/ b \in Seq(Octets)
    BY BytesRead
<1>2. decode_utf16_segment(text) =
        IF text = <<>> THEN <<Ampersand>>
        ELSE IF b = NoBytes \/ Len(b) % 2 # 0 \/ ~Paired(UnitsOf(b))
             THEN <<Ampersand>> \o text \o <<Hyphen>> ELSE UnitsOf(b)
    BY DEF decode_utf16_segment, UnitsOf
<1>3. Ampersand \in Units /\ Hyphen \in Units
    BY UnitsLemma DEF Ampersand, Hyphen
<1>4. <<Ampersand>> \in Text /\ <<Ampersand>> \o text \o <<Hyphen>> \in Text
    <2>1. <<Ampersand>> \in Text /\ <<Hyphen>> \in Text
        BY <1>3, TextLemma
    <2>2. <<Ampersand>> \o text \in Text
        BY <2>1, TextConcat
    <2> QED BY <2>1, <2>2, TextConcat
<1> HIDE DEF b
<1> QED BY <1>1, <1>2, <1>4, UnitsOfLemma

(* A segment is decoded to the units it was made of, if their surrogates    *)
(* are paired.                                                              *)
THEOREM SegmentRoundTrip ==
    ASSUME NEW u \in Text, u # <<>>, Paired(u)
    PROVE  decode_utf16_segment(encode_modified_base64(Bytes(u))) = u
<1> DEFINE b == Bytes(u)
           t == encode_modified_base64(b)
<1>1. /\ b \in Seq(Octets) /\ Len(b) = 2 * Len(u)
      /\ \A i \in 1..Len(u) : b[2 * i - 1] * 256 + b[2 * i] = u[i]
    BY BytesLemma
<1>2. Len(u) \in Nat /\ Len(u) > 0
    BY TextLemma
<1> HIDE DEF b
<1>3. t \in Text /\ Len(t) = (8 * Len(b) + 5) \div 6 /\ decode_modified_base64(t) = b
    BY <1>1, DigitsLemma, Base64RoundTrip
<1> HIDE DEF t
<1>4. t # <<>>
    <2>1. Len(t) > 0
        BY <1>1, <1>2, <1>3
    <2> QED BY <2>1, TextLemma
<1>5. b # NoBytes
    <2>1. b[1] \in Octets
        <3>1. 1 \in 1..Len(b)
            BY <1>1, <1>2
        <3> QED BY <1>1, <3>1, ElementOfSeq
    <2>2. b[1] # -1
        <3>1. \A x \in Octets : x # -1
            BY DEF Octets
        <3> QED BY <2>1, <3>1
    <2> QED BY <2>2 DEF NoBytes
<1>6. Len(b) % 2 = 0 /\ Len(b) \div 2 = Len(u)
    BY <1>1, <1>2
<1>7. UnitsOf(b) = u
    <2>1. UnitsOf(b) = [i \in 1..Len(u) |-> u[i]]
        BY <1>1, <1>6 DEF UnitsOf
    <2>2. u = [i \in 1..Len(u) |-> u[i]]
        BY LenProperties DEF Text
    <2> QED BY <2>1, <2>2
<1> QED BY <1>3, <1>4, <1>5, <1>6, <1>7 DEF decode_utf16_segment, UnitsOf, t, b

(* Each step of the reading gives a text and goes forward.                  *)
LEMMA ReadLemma ==
    ASSUME NEW raw \in Text, NEW i \in 1..Len(raw)
    PROVE  ReadAt(raw, i) \in Text /\ ReadTo(raw, i) \in i + 1 .. Len(raw) + 1
<1>1. Len(raw) \in Nat /\ i \in Nat /\ i <= Len(raw) /\ i >= 1 /\ raw[i] \in Units
    BY TextLemma
<1>2. CASE raw[i] # Ampersand
    <2>1. ReadAt(raw, i) = <<raw[i]>> /\ ReadTo(raw, i) = i + 1
        BY <1>2 DEF ReadAt, ReadTo
    <2> QED BY <1>1, <2>1, TextLemma
<1>3. CASE raw[i] = Ampersand /\ EndOf(raw, i) = 0
    <2>1. ReadAt(raw, i) = Part(raw, i, Len(raw)) /\ ReadTo(raw, i) = Len(raw) + 1
        BY <1>3 DEF ReadAt, ReadTo, Part
    <2> QED BY <1>1, <2>1, TextSub
<1>4. CASE raw[i] = Ampersand /\ EndOf(raw, i) # 0
    <2>1. PICK e \in i..Len(raw) : e = EndOf(raw, i)
        BY <1>4, EndOfLemma
    <2>2. ReadAt(raw, i) = decode_utf16_segment(Part(raw, i + 1, e - 1)) /\ ReadTo(raw, i) = e + 1
        BY <1>4, <2>1 DEF ReadAt, ReadTo, Part
    <2>3. Part(raw, i + 1, e - 1) \in Text
        <3>1. i + 1 \in Nat \ {0} /\ e - 1 \in Nat /\ e - 1 <= Len(raw)
            BY <1>1
        <3> QED BY <3>1, TextSub
    <2> QED BY <1>1, <2>2, <2>3, SegmentLemma
<1> QED BY <1>2, <1>3, <1>4

(* Reading satisfies its recursive definition.                              *)
LEMMA ReadingLemma ==
    ASSUME NEW raw \in Text
    PROVE  /\ \A i \in 1 .. Len(raw) + 1 : Reading(raw)[i] \in Text
           /\ Reading(raw)[Len(raw) + 1] = <<>>
           /\ \A i \in 1..Len(raw) : Reading(raw)[i] = ReadAt(raw, i) \o Reading(raw)[ReadTo(raw, i)]
<1> DEFINE n == Len(raw)
           part == [i \in 1..n |-> ReadAt(raw, i)]
           next == [i \in 1..n |-> ReadTo(raw, i)]
           Q(f) == f = [i \in 1 .. n + 1 |-> IF i > n THEN <<>> ELSE ReadAt(raw, i) \o f[ReadTo(raw, i)]]
<1>1. n \in Nat
    BY TextLemma
<1>2. part \in [1..n -> Seq(Units)] /\ Advances(next, n)
    <2>1. \A i \in 1..n : ReadAt(raw, i) \in Seq(Units)
        BY ReadLemma DEF Text
    <2>2. \A i \in 1..n : ReadTo(raw, i) \in i + 1 .. n + 1
        BY ReadLemma
    <2> HIDE DEF n
    <2> QED BY <2>1, <2>2 DEF Advances
<1>3. PICK f \in [1 .. n + 1 -> Seq(Units)] : IsReading(f, part, next, n)
    <2> HIDE DEF part, next, n, Q
    <2> QED BY <1>1, <1>2, ReadingExists
<1>4. f[n + 1] = <<>> /\ \A i \in 1..n : f[i] = part[i] \o f[next[i]]
    <2> HIDE DEF part, next, n, Q
    <2> QED BY <1>3 DEF IsReading
<1>5. \A i \in 1 .. n + 1 : f[i] = IF i > n THEN <<>> ELSE ReadAt(raw, i) \o f[ReadTo(raw, i)]
    <2> HIDE DEF n
    <2> TAKE i \in 1 .. n + 1
    <2>1. CASE i = n + 1
        BY <1>1, <1>4, <2>1
    <2>2. CASE i # n + 1
        <3>1. i \in 1..n /\ ~(i > n)
            BY <1>1, <2>2
        <3> QED BY <1>4, <3>1
    <2> QED BY <2>1, <2>2
<1>6. Q(f)
    BY <1>4, <1>5
<1>7. Reading(raw) = CHOOSE g : Q(g)
    BY DEF Reading
<1> HIDE DEF Q
<1>8. Q(Reading(raw))
    BY <1>6, <1>7
<1>9. \A i \in 1 .. n + 1 :
        Reading(raw)[i] = IF i > n THEN <<>> ELSE ReadAt(raw, i) \o Reading(raw)[ReadTo(raw, i)]
    <2> DEFINE h == Reading(raw)
    <2>1. Q(h)
        BY <1>8
    <2> HIDE DEF h
    <2>2. \A i \in 1 .. n + 1 : h[i] = IF i > n THEN <<>> ELSE ReadAt(raw, i) \o h[ReadTo(raw, i)]
        BY <2>1 DEF Q
    <2> QED BY <2>2 DEF h
<1> DEFINE h == Reading(raw)
<1>10. h[n + 1] = <<>> /\ \A i \in 1..n : h[i] = ReadAt(raw, i) \o h[ReadTo(raw, i)]
    <2>1. n + 1 \in 1 .. n + 1 /\ n + 1 > n /\ \A i \in 1..n : i \in 1 .. n + 1 /\ ~(i > n)
        BY <1>1
    <2> HIDE DEF n
    <2> QED BY <1>9, <2>1
<1>11. PICK d \in Nat : d = 0
    OBVIOUS
<1>12. \A i \in 1 .. n + 1 : Alike(f, h, i, d)
    <2>1. ASSUME NEW i \in 1..n, Alike(f, h, next[i], d) PROVE Alike(f, h, i, d)
        <3>1. next[i] \in Nat /\ next[i] = ReadTo(raw, i) /\ part[i] = ReadAt(raw, i)
            <4>1. next[i] \in i + 1 .. n + 1
                <5> HIDE DEF next, n
                <5> QED BY <1>2 DEF Advances
            <4> QED BY <1>1, <4>1
        <3>2. f[i] = ReadAt(raw, i) \o f[next[i]]
            BY <1>4, <3>1
        <3>3. h[i] = ReadAt(raw, i) \o h[next[i]]
            BY <1>10, <3>1
        <3>4. next[i] + d = next[i] /\ i + d = i
            BY <1>11, <3>1
        <3> HIDE DEF h, next, part, n
        <3> QED BY <2>1, <3>2, <3>3, <3>4 DEF Alike
    <2>2. Alike(f, h, n + 1, d)
        <3>1. n + 1 + d = n + 1
            BY <1>11, <1>1
        <3> HIDE DEF h, n
        <3> QED BY <1>4, <1>10, <3>1 DEF Alike
    <2> HIDE DEF h, next, part, n
    <2> QED BY <1>1, <1>2, <2>1, <2>2, ReadingAgrees
<1>13. \A i \in 1 .. n + 1 : h[i] \in Text
    <2>1. \A i \in 1 .. n + 1 : i + d = i
        BY <1>11, <1>1
    <2> HIDE DEF h, n
    <2> QED BY <1>3, <1>12, <2>1 DEF Text, Alike
<1> QED BY <1>10, <1>13

(* What is read at a place of z, and how far, does not depend on what is    *)
(* before z.                                                                *)
LEMMA ReadBehind ==
    ASSUME NEW x \in Text, NEW z \in Text, NEW i \in 1..Len(z)
    PROVE  /\ ReadAt(x \o z, Len(x) + i) = ReadAt(z, i)
           /\ ReadTo(x \o z, Len(x) + i) = ReadTo(z, i) + Len(x)
<1>1. PICK d \in Nat : d = Len(x)
    BY TextLemma
<1>2. PICK n \in Nat : n = Len(z)
    BY TextLemma
<1>3. PICK r \in Text : r = x \o z /\ Len(r) = d + n /\ \A k \in 1..n : r[d + k] = z[k]
    <2>1. /\ x \o z \in Text /\ Len(x \o z) = Len(x) + Len(z)
          /\ \A k \in 1..Len(z) : (x \o z)[Len(x) + k] = z[k]
        BY TextConcat
    <2> QED BY <1>1, <1>2, <2>1
<1>4. i \in Nat /\ i >= 1 /\ i <= n
    BY <1>2
<1>5. r[d + i] = z[i]
    BY <1>3, <1>4
<1>6. CASE z[i] # Ampersand
    <2>1. ReadAt(r, d + i) = <<z[i]>> /\ ReadTo(r, d + i) = d + i + 1
        BY <1>5, <1>6 DEF ReadAt, ReadTo
    <2>2. ReadAt(z, i) = <<z[i]>> /\ ReadTo(z, i) = i + 1
        BY <1>6 DEF ReadAt, ReadTo
    <2>3. d + i + 1 = i + 1 + d
        BY <1>4
    <2> QED BY <1>1, <1>3, <2>1, <2>2, <2>3
<1>7. CASE z[i] = Ampersand /\ EndOf(z, i) = 0
    <2>1. \A j \in i..n : z[j] # Hyphen
        BY <1>2, <1>4, <1>7, EndOfLemma
    <2>2. \A j \in d + i .. d + n : r[j] # Hyphen
        <3> TAKE j \in d + i .. d + n
        <3>1. PICK k \in i..n : j = d + k
            <4>1. j - d \in i..n /\ j = d + (j - d)
                BY <1>4
            <4> QED BY <4>1
        <3>2. k \in 1..n
            BY <1>4
        <3> QED BY <1>3, <2>1, <3>1, <3>2
    <2>3. EndOf(r, d + i) = 0
        <3>1. PICK m \in 1..Len(r) : m = d + i
            BY <1>3, <1>4
        <3>2. \A j \in m..Len(r) : r[j] # Hyphen
            BY <1>3, <2>2, <3>1
        <3> QED BY <3>1, <3>2, EndOfLemma
    <2>4. ReadAt(r, d + i) = Part(r, d + i, d + n) /\ ReadTo(r, d + i) = d + n + 1
        BY <1>3, <1>5, <1>7, <2>3 DEF ReadAt, ReadTo, Part
    <2>5. ReadAt(z, i) = Part(z, i, n) /\ ReadTo(z, i) = n + 1
        BY <1>2, <1>7 DEF ReadAt, ReadTo, Part
    <2>6. Part(r, d + i, d + n) = Part(z, i, n)
        <3>1. i \in Nat \ {0} /\ n <= Len(z)
            BY <1>2, <1>4
        <3> QED BY <1>1, <1>3, <3>1, TextSubConcat
    <2>7. d + n + 1 = n + 1 + d
        OBVIOUS
    <2> QED BY <1>1, <1>3, <2>4, <2>5, <2>6, <2>7
<1>8. CASE z[i] = Ampersand /\ EndOf(z, i) # 0
    <2>1. PICK e \in i..n : e = EndOf(z, i) /\ z[e] = Hyphen /\ \A j \in i..n : j < e => z[j] # Hyphen
        BY <1>2, <1>4, <1>8, EndOfLemma
    <2>2. e \in Nat /\ e >= 1 /\ e <= n /\ i <= e /\ i # e
        BY <1>4, <1>8, <2>1 DEF Ampersand, Hyphen
    <2>3. r[d + e] = Hyphen
        BY <1>3, <2>1, <2>2, SMTT(20)
    <2>4. \A j \in d + i .. d + n : j < d + e => r[j] # Hyphen
        <3> TAKE j \in d + i .. d + n
        <3>1. PICK k \in i..n : j = d + k
            <4>1. j - d \in i..n /\ j = d + (j - d)
                BY <1>4
            <4> QED BY <4>1
        <3>2. k \in 1..n /\ (j < d + e => k < e)
            BY <1>4, <2>2, <3>1
        <3>3. r[j] = z[k]
            BY <1>3, <3>1, <3>2
        <3> QED BY <2>1, <3>2, <3>3
    <2>5. EndOf(r, d + i) = d + e
        <3>1. PICK m \in 1..Len(r) : m = d + i
            BY <1>3, <1>4
        <3>2. PICK f \in m..Len(r) : f = d + e
            BY <1>3, <2>2, <3>1
        <3>3. r[f] = Hyphen /\ \A j \in m..Len(r) : j < f => r[j] # Hyphen
            BY <1>3, <2>3, <2>4, <3>1, <3>2
        <3>4. EndOf(r, m) = f
            BY <3>3, EndOfIs
        <3> QED BY <3>1, <3>2, <3>4
    <2>6. d + e # 0
        BY <2>2
    <2>7. /\ ReadAt(r, d + i) = decode_utf16_segment(Part(r, d + i + 1, d + e - 1))
          /\ ReadTo(r, d + i) = d + e + 1
        BY <1>5, <1>8, <2>5, <2>6 DEF ReadAt, ReadTo, Part
    <2>8. ReadAt(z, i) = decode_utf16_segment(Part(z, i + 1, e - 1)) /\ ReadTo(z, i) = e + 1
        BY <1>8, <2>1 DEF ReadAt, ReadTo, Part
    <2>9. Part(r, d + i + 1, d + e - 1) = Part(z, i + 1, e - 1)
        <3>1. PICK p \in Nat \ {0} : p = i + 1
            BY <1>4
        <3>2. PICK q \in Nat : q = e - 1 /\ q <= Len(z)
            BY <1>2, <2>2
        <3>3. d + i + 1 = d + p /\ d + e - 1 = d + q
            BY <1>4, <2>2, <3>1, <3>2
        <3>4. Part(r, d + p, d + q) = Part(z, p, q)
            BY <1>1, <1>3, <3>2, TextSubConcat
        <3> QED BY <3>1, <3>2, <3>3, <3>4
    <2>10. d + e + 1 = e + 1 + d
        BY <2>2
    <2> QED BY <1>1, <1>3, <2>7, <2>8, <2>9, <2>10
<1> QED BY <1>6, <1>7, <1>8

(* The reading of z behind x is the reading of z.                           *)
LEMMA DecodeBehind ==
    ASSUME NEW x \in Text, NEW z \in Text
    PROVE  /\ decode_imap_utf7(z) \in Text /\ Reading(x \o z)[Len(x) + 1] = decode_imap_utf7(z)
<1>1. PICK d \in Nat : d = Len(x)
    BY TextLemma
<1>2. PICK n \in Nat : n = Len(z)
    BY TextLemma
<1>3. PICK r \in Text : r = x \o z /\ Len(r) = d + n
    BY <1>1, <1>2, TextConcat
<1> DEFINE f == Reading(z)
           g == Reading(r)
           next == [i \in 1..n |-> ReadTo(z, i)]
<1>4. Advances(next, n)
    BY <1>2, ReadLemma DEF Advances
<1>5. /\ f[n + 1] = <<>>
      /\ \A i \in 1..n : f[i] = ReadAt(z, i) \o f[next[i]]
      /\ f[1] \in Text
    <2>1. 1 \in 1 .. n + 1
        OBVIOUS
    <2> QED BY <1>2, <2>1, ReadingLemma
<1>6. /\ g[d + n + 1] = <<>>
      /\ \A i \in 1 .. d + n : g[i] = ReadAt(r, i) \o g[ReadTo(r, i)]
    BY <1>3, ReadingLemma
<1>7. ASSUME NEW i \in 1..n, Alike(f, g, next[i], d) PROVE Alike(f, g, i, d)
    <2>1. next[i] = ReadTo(z, i)
        OBVIOUS
    <2>2. f[i] = ReadAt(z, i) \o f[next[i]] /\ f[next[i]] = g[next[i] + d]
        BY <1>5, <1>7 DEF Alike
    <2>3. d + i \in 1 .. d + n /\ d + i = i + d
        OBVIOUS
    <2>4. g[d + i] = ReadAt(r, d + i) \o g[ReadTo(r, d + i)]
        BY <1>6, <2>3
    <2>5. ReadAt(r, d + i) = ReadAt(z, i) /\ ReadTo(r, d + i) = ReadTo(z, i) + d
        BY <1>1, <1>2, <1>3, ReadBehind
    <2> HIDE DEF f, g, next
    <2> QED BY <2>1, <2>2, <2>3, <2>4, <2>5 DEF Alike
<1>8. Alike(f, g, n + 1, d)
    <2>1. n + 1 + d = d + n + 1
        OBVIOUS
    <2> HIDE DEF f, g
    <2> QED BY <1>5, <1>6, <2>1 DEF Alike
<1>9. \A i \in 1 .. n + 1 : Alike(f, g, i, d)
    <2> HIDE DEF f, g, next
    <2> QED BY <1>4, <1>7, <1>8, ReadingAgrees
<1>10. Alike(f, g, 1, d)
    BY <1>9
<1>11. d + 1 = 1 + d
    OBVIOUS
<1> QED BY <1>1, <1>3, <1>5, <1>10, <1>11 DEF Alike, decode_imap_utf7

(* The first step of a reading.                                             *)
LEMMA DecodeFirst ==
    ASSUME NEW x \in Text, NEW z \in Text, x # <<>>, ReadTo(x \o z, 1) = Len(x) + 1
    PROVE  decode_imap_utf7(x \o z) = ReadAt(x \o z, 1) \o decode_imap_utf7(z)
<1>1. PICK r \in Text : r = x \o z /\ Len(r) = Len(x) + Len(z)
    BY TextConcat
<1>2. 1 \in 1..Len(r)
    BY <1>1, TextLemma
<1>3. Reading(r)[1] = ReadAt(r, 1) \o Reading(r)[ReadTo(r, 1)]
    BY <1>2, ReadingLemma
<1>4. Reading(x \o z)[Len(x) + 1] = decode_imap_utf7(z)
    BY DecodeBehind
<1> QED BY <1>1, <1>3, <1>4 DEF decode_imap_utf7

-----------------------------------------------------------------------------
(* What a piece of a raw name is read as, whatever follows it.              *)

(* x is read as y, whatever comes behind it.                                *)
ReadsAs(x, y) == \A z \in Text : decode_imap_utf7(x \o z) = y \o decode_imap_utf7(z)

(* Two pieces are read one after the other.                                 *)
LEMMA ReadsConcat ==
    ASSUME NEW x1 \in Text, NEW x2 \in Text, NEW y1 \in Text, NEW y2 \in Text,
           ReadsAs(x1, y1), ReadsAs(x2, y2)
    PROVE  ReadsAs(x1 \o x2, y1 \o y2)
<1> SUFFICES ASSUME NEW z \in Text
             PROVE  decode_imap_utf7((x1 \o x2) \o z) = (y1 \o y2) \o decode_imap_utf7(z)
    BY DEF ReadsAs
<1>1. PICK w \in Text : w = decode_imap_utf7(z)
    BY DecodeBehind
<1>2. x2 \o z \in Text
    BY TextConcat
<1>3. decode_imap_utf7(x1 \o (x2 \o z)) = y1 \o (y2 \o w)
    BY <1>1, <1>2 DEF ReadsAs
<1>4. (x1 \o x2) \o z = x1 \o (x2 \o z)
    BY ConcatAssociative, SMTT(40) DEF Text
<1>5. (y1 \o y2) \o w = y1 \o (y2 \o w)
    BY TextAssoc, SMTT(20)
<1> QED BY <1>1, <1>3, <1>4, <1>5

(* Nothing is read as nothing.                                              *)
LEMMA ReadsEmpty == ReadsAs(<<>>, <<>>)
<1> SUFFICES ASSUME NEW z \in Text PROVE decode_imap_utf7(<<>> \o z) = <<>> \o decode_imap_utf7(z)
    BY DEF ReadsAs
<1>1. decode_imap_utf7(z) \in Text
    BY DecodeBehind, TextLemma
<1> QED BY <1>1, TextLemma

(* A character that starts no segment is read as itself.                    *)
LEMMA ReadsUnit ==
    ASSUME NEW u \in Units, u # Ampersand
    PROVE  ReadsAs(<<u>>, <<u>>)
<1> SUFFICES ASSUME NEW z \in Text PROVE decode_imap_utf7(<<u>> \o z) = <<u>> \o decode_imap_utf7(z)
    BY DEF ReadsAs
<1>1. PICK x \in Text : x = <<u>> /\ Len(x) = 1 /\ x[1] = u /\ x # <<>>
    BY TextLemma
<1>2. (x \o z)[1] = u
    BY <1>1, TextConcat
<1>3. ReadAt(x \o z, 1) = x /\ ReadTo(x \o z, 1) = Len(x) + 1
    BY <1>1, <1>2 DEF ReadAt, ReadTo
<1> QED BY <1>1, <1>3, DecodeFirst

(* Joining four texts.                                                      *)
LEMMA ConcatOfFour ==
    ASSUME NEW a \in Text, NEW t \in Text, NEW h \in Text, NEW z \in Text
    PROVE  ((a \o t) \o h) \o z = a \o (t \o (h \o z))
<1>1. a \o t \in Text /\ h \o z \in Text
    BY TextConcat
<1>2. ((a \o t) \o h) \o z = (a \o t) \o (h \o z)
    BY <1>1, ConcatAssociative, SMTT(20) DEF Text
<1>3. (a \o t) \o (h \o z) = a \o (t \o (h \o z))
    BY <1>1, ConcatAssociative, SMTT(20) DEF Text
<1> QED BY <1>2, <1>3

(* A segment is read as what is decoded of its digits.                      *)
LEMMA ReadsSegment ==
    ASSUME NEW t \in Text, \A k \in 1..Len(t) : t[k] # Hyphen
    PROVE  ReadsAs(<<Ampersand>> \o t \o <<Hyphen>>, decode_utf16_segment(t))
<1>1. PICK a \in Text : a = <<Ampersand>> /\ Len(a) = 1 /\ a[1] = Ampersand
    <2>1. Ampersand \in Units
        BY UnitsLemma DEF Ampersand
    <2> QED BY <2>1, TextLemma
<1>2. PICK h \in Text : h = <<Hyphen>> /\ Len(h) = 1 /\ h[1] = Hyphen
    <2>1. Hyphen \in Units
        BY UnitsLemma DEF Hyphen
    <2> QED BY <2>1, TextLemma
<1>3. \A z \in Text : ((a \o t) \o h) \o z = a \o (t \o (h \o z))
    BY ConcatOfFour, ZenonT(40)
<1>4. PICK n \in Nat : n = Len(t)
    BY TextLemma
<1>5. PICK at \in Text : /\ at = a \o t /\ Len(at) = 1 + n /\ at[1] = Ampersand
                         /\ \A k \in 1..n : at[1 + k] = t[k]
    <2>1. /\ a \o t \in Text /\ Len(a \o t) = Len(a) + Len(t)
          /\ \A k \in 1..Len(a) : (a \o t)[k] = a[k]
          /\ \A k \in 1..Len(t) : (a \o t)[Len(a) + k] = t[k]
        BY TextConcat
    <2>2. 1 \in 1..Len(a)
        BY <1>1
    <2> QED BY <1>1, <1>4, <2>1, <2>2
<1>6. PICK x \in Text : /\ x = at \o h /\ Len(x) = n + 2 /\ x[1] = Ampersand /\ x[n + 2] = Hyphen
                        /\ \A k \in 1..n : x[1 + k] = t[k]
    <2>1. /\ at \o h \in Text /\ Len(at \o h) = Len(at) + Len(h)
          /\ \A k \in 1..Len(at) : (at \o h)[k] = at[k]
          /\ \A k \in 1..Len(h) : (at \o h)[Len(at) + k] = h[k]
        BY TextConcat
    <2>2. at \o h \in Text /\ Len(at \o h) = 1 + n + 1 /\ \A k \in 1 .. 1 + n : (at \o h)[k] = at[k]
        BY <1>2, <1>5, <2>1
    <2>3. (at \o h)[(1 + n) + 1] = Hyphen
        <3>1. 1 \in 1..Len(h)
            BY <1>2
        <3> QED BY <1>2, <1>5, <2>1, <3>1
    <2>4. 1 + n + 1 = n + 2 /\ (1 + n) + 1 = n + 2 /\ 1 \in 1 .. 1 + n
        OBVIOUS
    <2>5. \A k \in 1..n : 1 + k \in 1 .. 1 + n
        OBVIOUS
    <2>6. at \o h \in Text /\ Len(at \o h) = n + 2 /\ (at \o h)[n + 2] = Hyphen
        BY <2>2, <2>3, <2>4
    <2>7. (at \o h)[1] = Ampersand
        BY <1>5, <2>2, <2>4
    <2>8. \A k \in 1..n : (at \o h)[1 + k] = t[k]
        BY <1>5, <2>2, <2>5
    <2> QED BY <2>6, <2>7, <2>8
<1>7. ASSUME NEW z \in Text PROVE decode_imap_utf7(x \o z) = decode_utf16_segment(t) \o decode_imap_utf7(z)
    <2>1. PICK m \in Nat : m = Len(z)
        BY TextLemma
    <2>2. PICK r \in Text : /\ r = x \o z /\ Len(r) = n + 2 + m
                            /\ \A k \in 1 .. n + 2 : r[k] = x[k]
        <3>1. /\ x \o z \in Text /\ Len(x \o z) = Len(x) + Len(z)
              /\ \A k \in 1..Len(x) : (x \o z)[k] = x[k]
            BY TextConcat
        <3> QED BY <1>6, <2>1, <3>1, ZenonT(60)
    <2>3. r[1] = Ampersand /\ r[n + 2] = Hyphen
        BY <1>6, <2>2
    <2>4. \A j \in 1 .. n + 1 : r[j] # Hyphen
        <3> TAKE j \in 1 .. n + 1
        <3>1. CASE j = 1
            BY <2>3, <3>1 DEF Ampersand, Hyphen
        <3>2. CASE j # 1
            <4>1. PICK k \in 1..n : j = 1 + k
                <5>1. j - 1 \in 1..n /\ j = 1 + (j - 1)
                    BY <3>2
                <5> QED BY <5>1
            <4>2. r[j] = t[k]
                <5>1. j \in 1 .. n + 2
                    OBVIOUS
                <5> QED BY <1>6, <2>2, <4>1, <5>1
            <4> QED BY <1>4, <4>2
        <3> QED BY <3>1, <3>2
    <2>5. EndOf(r, 1) = n + 2
        <3>1. PICK i \in 1..Len(r) : i = 1
            BY <2>2
        <3>2. PICK e \in i..Len(r) : e = n + 2
            BY <2>2, <3>1
        <3>3. \A j \in i..Len(r) : j < e => r[j] # Hyphen
            BY <2>2, <2>4, <3>1, <3>2
        <3>4. EndOf(r, i) = e
            BY <2>3, <3>2, <3>3, EndOfIs
        <3> QED BY <3>1, <3>2, <3>4
    <2>6. n + 2 # 0 /\ 1 + 1 = 2 /\ (n + 2) - 1 = n + 1 /\ (n + 2) + 1 = n + 3
        OBVIOUS
    <2>7. ReadAt(r, 1) = decode_utf16_segment(Part(r, 2, n + 1)) /\ ReadTo(r, 1) = n + 3
        BY <2>3, <2>5, <2>6 DEF ReadAt, ReadTo, Part
    <2>8. Part(r, 2, n + 1) = t
        <3>1. PICK hz \in Text : hz = h \o z
            BY TextConcat
        <3>2. PICK tz \in Text : tz = t \o hz /\ Len(tz) = n + Len(hz) /\ Len(hz) \in Nat
            <4>1. t \o hz \in Text /\ Len(t \o hz) = Len(t) + Len(hz)
                BY TextConcat
            <4>2. Len(hz) \in Nat
                BY TextLemma
            <4> QED BY <1>4, <4>1, <4>2
        <3>3. r = a \o tz
            BY <1>5, <1>6, <1>3, <2>2, <3>1, <3>2
        <3>4. Part(a \o tz, Len(a) + 1, Len(a) + n) = Part(tz, 1, n)
            <4>1. PICK i \in Nat \ {0} : i = 1
                OBVIOUS
            <4>2. n <= Len(tz)
                BY <3>2
            <4>3. Part(a \o tz, Len(a) + i, Len(a) + n) = Part(tz, i, n)
                BY <4>2, TextSubConcat
            <4> QED BY <4>1, <4>3
        <3>5. Part(tz, 1, n) = t
            BY <1>4, <3>2, TextSubFirst
        <3>6. Len(a) + 1 = 2 /\ Len(a) + n = n + 1
            BY <1>1
        <3> QED BY <3>3, <3>4, <3>5, <3>6
    <2>9. x # <<>> /\ ReadTo(r, 1) = Len(x) + 1
        BY <1>6, <2>7, TextLemma, SMTT(20)
    <2> QED BY <2>2, <2>7, <2>8, <2>9, DecodeFirst, ZenonT(40)
<1> QED BY <1>1, <1>2, <1>5, <1>6, <1>7 DEF ReadsAs

-----------------------------------------------------------------------------
(* The encoder of a name, unit by unit.                                     *)

EncoderStates == [encoded : Text, pending : Text]

(* A unit that waits for a segment, what is written for one that does not,  *)
(* and the segment of the units that wait.                                  *)
Waits(u) == ~IsDirect(u) /\ u # Ampersand
Chars(u) == IF IsDirect(u) THEN <<u>> ELSE <<Ampersand, Hyphen>>
Segment(p) == IF p = <<>> THEN <<>> ELSE encode_utf16_segment(p)

(* What is written for units that do not wait.                              *)
LEMMA CharsLemma ==
    /\ Ampersand \in Units /\ Hyphen \in Units /\ <<Ampersand, Hyphen>> = <<Ampersand>> \o <<Hyphen>>
    /\ <<Ampersand>> \in Text /\ <<Hyphen>> \in Text
    /\ \A u \in Units : Chars(u) \in Text
<1>1. Ampersand \in Units /\ Hyphen \in Units
    BY UnitsLemma DEF Ampersand, Hyphen
<1>2. <<Ampersand>> \in Text /\ <<Hyphen>> \in Text
    BY <1>1, TextLemma
<1>3. <<Ampersand, Hyphen>> = <<Ampersand>> \o <<Hyphen>>
    OBVIOUS
<1>4. <<Ampersand>> \o <<Hyphen>> \in Text
    BY <1>2, TextConcat
<1>5. \A u \in Units : <<u>> \in Text
    BY TextLemma
<1> QED BY <1>1, <1>2, <1>3, <1>4, <1>5 DEF Chars

(* What is written for units that waited is a text.                         *)
LEMMA SegmentText ==
    ASSUME NEW p \in Text
    PROVE  Segment(p) \in Text
<1> DEFINE b == Bytes(p)
           t == encode_modified_base64(b)
<1>1. b \in Seq(Octets)
    BY BytesLemma
<1> HIDE DEF b
<1>2. t \in Text
    BY <1>1, DigitsLemma
<1> HIDE DEF t
<1>3. <<Ampersand>> \o t \in Text
    BY <1>2, CharsLemma, TextConcat
<1>4. (<<Ampersand>> \o t) \o <<Hyphen>> \in Text
    BY <1>3, CharsLemma, TextConcat
<1> QED BY <1>4, TextLemma DEF Segment, encode_utf16_segment, t, b

(* The encoder's step: the unit waits, or what waited is written and then   *)
(* the unit.                                                                *)
LEMMA EncodeUnitLemma ==
    ASSUME NEW st \in EncoderStates, NEW u \in Units
    PROVE  /\ EncodeUnit(st, u) \in EncoderStates
           /\ Waits(u) => /\ EncodeUnit(st, u).encoded = st.encoded
                          /\ EncodeUnit(st, u).pending = st.pending \o <<u>>
           /\ ~Waits(u) => /\ EncodeUnit(st, u).encoded = (st.encoded \o Segment(st.pending)) \o Chars(u)
                           /\ EncodeUnit(st, u).pending = <<>>
<1>1. PICK e \in Text, p \in Text : e = st.encoded /\ p = st.pending /\ st = [encoded |-> e, pending |-> p]
    BY DEF EncoderStates
<1>2. CASE Waits(u)
    <2>1. EncodeUnit(st, u) = [st EXCEPT !.pending = Append(@, u)]
        BY <1>2 DEF EncodeUnit, Waits
    <2>2. EncodeUnit(st, u) = [encoded |-> e, pending |-> Append(p, u)]
        BY <1>1, <2>1
    <2>3. Append(p, u) = p \o <<u>>
        BY AppendIsConcat DEF Text
    <2>4. p \o <<u>> \in Text
        <3>1. <<u>> \in Text
            BY TextLemma
        <3> QED BY <3>1, TextConcat
    <2>5. PICK q \in Text : q = p \o <<u>>
        BY <2>4
    <2>6. EncodeUnit(st, u) = [encoded |-> e, pending |-> q]
        BY <2>2, <2>3, <2>5
    <2>7. EncodeUnit(st, u) \in EncoderStates
        BY <2>6 DEF EncoderStates
    <2> QED BY <1>1, <1>2, <2>5, <2>6, <2>7
<1>3. CASE ~Waits(u)
    <2>1. EncodeUnit(st, u) = Put(st, Chars(u))
        BY <1>3 DEF EncodeUnit, Waits, Chars
    <2>2. EncodeUnit(st, u) = [encoded |-> (e \o Segment(p)) \o Chars(u), pending |-> <<>>]
        BY <1>1, <2>1 DEF Put, Flushed, Segment
    <2>3. e \o Segment(p) \in Text
        BY SegmentText, TextConcat
    <2>4. (e \o Segment(p)) \o Chars(u) \in Text
        BY <2>3, CharsLemma, TextConcat
    <2>5. PICK d \in Text : d = (e \o Segment(p)) \o Chars(u)
        BY <2>4
    <2>6. EncodeUnit(st, u) = [encoded |-> d, pending |-> <<>>]
        BY <2>2, <2>5
    <2>7. EncodeUnit(st, u) \in EncoderStates
        BY <2>6, TextLemma DEF EncoderStates
    <2>8. EncodeUnit(st, u).encoded = d /\ EncodeUnit(st, u).pending = <<>>
        BY <2>6
    <2>9. d = (st.encoded \o Segment(st.pending)) \o Chars(u)
        <3>1. e = st.encoded /\ p = st.pending
            BY <1>1
        <3> QED BY <2>5, <3>1
    <2> QED BY <1>3, <2>7, <2>8, <2>9
<1> QED BY <1>2, <1>3

(* Encoding satisfies its recursive definition.                             *)
LEMMA EncodingLemma ==
    ASSUME NEW s \in Text
    PROVE  /\ Encoding(s)[0] = [encoded |-> <<>>, pending |-> <<>>]
           /\ \A k \in 0..Len(s) : Encoding(s)[k] \in EncoderStates
           /\ \A k \in 1..Len(s) : Encoding(s)[k] = EncodeUnit(Encoding(s)[k - 1], s[k])
<1> DEFINE n == Len(s)
           base == [encoded |-> <<>>, pending |-> <<>>]
           step == [i \in 1..n |-> [st \in EncoderStates |-> EncodeUnit(st, s[i])]]
           Q(f) == f = [i \in 0..n |-> IF i = 0 THEN base ELSE EncodeUnit(f[i - 1], s[i])]
<1>1. n \in Nat /\ \A i \in 1..n : s[i] \in Units
    BY TextLemma
<1>2. base \in EncoderStates
    BY TextLemma DEF EncoderStates
<1>3. step \in [1..n -> [EncoderStates -> EncoderStates]]
    BY <1>1, EncodeUnitLemma
<1> HIDE DEF base, n
<1>4. PICK f \in [0..n -> EncoderStates] :
            f[0] = base /\ \A i \in 1..n : f[i] = step[i][f[i - 1]]
    <2> DEFINE S == EncoderStates
    <2>1. base \in S
        BY <1>2
    <2>2. step \in [1..n -> [S -> S]]
        BY <1>3
    <2> HIDE DEF step, S, Q
    <2>3. \E f \in [0..n -> S] : f[0] = base /\ \A i \in 1..n : f[i] = step[i][f[i - 1]]
        BY <1>1, <2>1, <2>2, Recursion, SMTT(20)
    <2> QED BY <2>3 DEF S
<1>5. \A i \in 0..n : f[i] = IF i = 0 THEN base ELSE EncodeUnit(f[i - 1], s[i])
    <2> TAKE i \in 0..n
    <2>1. CASE i # 0
        <3>1. i \in 1..n /\ i - 1 \in 0..n
            BY <1>1, <2>1
        <3>2. f[i - 1] \in EncoderStates
            BY <1>4, <3>1
        <3>3. step[i][f[i - 1]] = EncodeUnit(f[i - 1], s[i])
            BY <3>1, <3>2
        <3>4. f[i] = step[i][f[i - 1]]
            <4> HIDE DEF step
            <4> QED BY <1>4, <3>1
        <3> QED BY <2>1, <3>3, <3>4
    <2> QED BY <1>4, <2>1
<1>6. Q(f)
    BY <1>4, <1>5
<1>7. Encoding(s) = CHOOSE g : Q(g)
    BY DEF Encoding, base, n
<1> HIDE DEF Q
<1>8. Q(Encoding(s))
    BY <1>6, <1>7
<1>9. \A i \in 0..n : Encoding(s)[i] = IF i = 0 THEN base ELSE EncodeUnit(Encoding(s)[i - 1], s[i])
    <2> DEFINE h == Encoding(s)
    <2>1. Q(h)
        BY <1>8
    <2> HIDE DEF h
    <2>2. \A i \in 0..n : h[i] = IF i = 0 THEN base ELSE EncodeUnit(h[i - 1], s[i])
        BY <2>1 DEF Q
    <2> QED BY <2>2 DEF h
<1>10. \A i \in 0..n : Encoding(s)[i] \in EncoderStates
    <2> DEFINE h == Encoding(s)
    <2>1. h[0] \in EncoderStates
        BY <1>1, <1>2, <1>9
    <2>2. ASSUME NEW i \in 1..n, h[i - 1] \in EncoderStates PROVE h[i] \in EncoderStates
        <3>1. h[i] = EncodeUnit(h[i - 1], s[i])
            BY <1>1, <1>9
        <3> QED BY <1>1, <2>2, <3>1, EncodeUnitLemma
    <2> HIDE DEF h
    <2>3. \A i \in 0..n : h[i] \in EncoderStates
        BY <1>1, <2>1, <2>2, ValuesStay
    <2> QED BY <2>3 DEF h
<1>11. Encoding(s)[0] = base /\ \A i \in 1..n : Encoding(s)[i] = EncodeUnit(Encoding(s)[i - 1], s[i])
    BY <1>1, <1>9
<1> QED BY <1>10, <1>11 DEF base, n

(* The encoder behind the last unit.                                        *)
State(s) == Encoding(s)[Len(s)]

(* The encoder holds texts.                                                 *)
LEMMA StateLemma ==
    ASSUME NEW s \in Text
    PROVE  State(s) \in EncoderStates /\ State(s).encoded \in Text /\ State(s).pending \in Text
<1>1. Len(s) \in 0..Len(s)
    BY TextLemma
<1>2. State(s) \in EncoderStates
    BY <1>1, EncodingLemma DEF State
<1> QED BY <1>2 DEF EncoderStates

(* The encoder at its start.                                                *)
LEMMA StateEmpty == State(<<>>).encoded = <<>> /\ State(<<>>).pending = <<>>
BY TextLemma, EncodingLemma DEF State

(* The encoder behind one more unit.                                        *)
LEMMA StateStep ==
    ASSUME NEW s \in Text, NEW u \in Units
    PROVE  State(s \o <<u>>) = EncodeUnit(State(s), u)
<1>1. PICK n \in Nat : n = Len(s)
    BY TextLemma
<1>2. PICK t \in Text : t = s \o <<u>> /\ Len(t) = n + 1 /\ t[n + 1] = u /\ \A i \in 1..n : t[i] = s[i]
    <2>1. <<u>> \in Text /\ Len(<<u>>) = 1 /\ <<u>>[1] = u
        BY TextLemma
    <2>2. /\ s \o <<u>> \in Text /\ Len(s \o <<u>>) = Len(s) + 1
          /\ \A i \in 1..Len(s) : (s \o <<u>>)[i] = s[i]
          /\ \A i \in 1..1 : (s \o <<u>>)[Len(s) + i] = <<u>>[i]
        BY <2>1, TextConcat
    <2>3. (s \o <<u>>)[n + 1] = u
        <3>1. 1 \in 1..1
            OBVIOUS
        <3> QED BY <1>1, <2>1, <2>2, <3>1
    <2> QED BY <1>1, <2>2, <2>3
<1> DEFINE f == Encoding(s)
           g == Encoding(t)
<1>3. f[0] = g[0]
    BY EncodingLemma
<1>4. \A i \in 1..n : f[i] = EncodeUnit(f[i - 1], s[i]) /\ g[i] = EncodeUnit(g[i - 1], s[i])
    <2>1. \A i \in 1..n : i \in 1..Len(t)
        BY <1>2
    <2> QED BY <1>1, <1>2, <2>1, EncodingLemma
<1>5. g[n + 1] = EncodeUnit(g[n], u)
    <2>1. n + 1 \in 1..Len(t) /\ (n + 1) - 1 = n
        BY <1>2
    <2>2. g[n + 1] = EncodeUnit(g[(n + 1) - 1], t[n + 1])
        BY <2>1, EncodingLemma
    <2> QED BY <1>2, <2>1, <2>2
<1> HIDE DEF f, g
<1>6. Same(f, g, 0) /\ \A i \in 1..n : Same(f, g, i - 1) => Same(f, g, i)
    BY <1>3, <1>4 DEF Same
<1>7. \A i \in 0..n : Same(f, g, i)
    BY <1>6, RecursionAgrees
<1>8. f[n] = g[n]
    BY <1>7 DEF Same
<1> QED BY <1>1, <1>2, <1>5, <1>8 DEF State, f, g

-----------------------------------------------------------------------------
(* What the encoder has written is read as the name it has seen.            *)

(* Surrogates come in pairs, except for a first half at the end.            *)
Half(s) ==
    \A i \in 1..Len(s) :
        /\ s[i] \in High /\ i < Len(s) => s[i + 1] \in Low
        /\ s[i] \in Low => i > 1 /\ s[i - 1] \in High
EndsHigh(s) == Len(s) > 0 /\ s[Len(s)] \in High

(* Surrogates are units that wait, and none is of both halves.              *)
LEMMA SurrogatesLemma == \A u : ~(u \in High /\ u \in Low) /\ (u \in High \/ u \in Low => u \in Units /\ Waits(u))
<1> TAKE u
<1>1. ~(u \in High /\ u \in Low)
    <2>1. u \in High => u \in Int /\ u <= 56319
        BY DEF High
    <2>2. u \in Low => u \in Int /\ 56320 <= u
        BY DEF Low
    <2>3. ~(u \in Int /\ u <= 56319 /\ 56320 <= u)
        OBVIOUS
    <2> QED BY <2>1, <2>2, <2>3
<1>2. u \in High \/ u \in Low => u \in Int /\ 55296 <= u /\ u <= 57343
    <2>1. u \in High => u \in Int /\ 55296 <= u /\ u <= 56319
        BY DEF High
    <2>2. u \in Low => u \in Int /\ 56320 <= u /\ u <= 57343
        BY DEF Low
    <2> QED BY <2>1, <2>2
<1>3. u \in Int /\ 55296 <= u /\ u <= 57343 => u \in Units /\ Waits(u)
    <2> SUFFICES ASSUME u \in Int, 55296 <= u, u <= 57343 PROVE u \in Units /\ Waits(u)
        OBVIOUS
    <2>1. u \in Units
        BY UnitsLemma
    <2>2. Waits(u)
        BY DEF Waits, IsDirect, Ampersand
    <2> QED BY <2>1, <2>2
<1> QED BY <1>1, <1>2, <1>3

(* Surrogates are paired if they are but for the end, and the end is not a  *)
(* first half.                                                              *)
LEMMA PairedIsHalf ==
    ASSUME NEW s \in Text
    PROVE  Paired(s) <=> Half(s) /\ ~EndsHigh(s)
<1>1. PICK n \in Nat : n = Len(s)
    BY TextLemma
<1>2. ASSUME Paired(s) PROVE Half(s) /\ ~EndsHigh(s)
    BY <1>1, <1>2 DEF Paired, Half, EndsHigh
<1>3. ASSUME Half(s), ~EndsHigh(s) PROVE Paired(s)
    <2> SUFFICES ASSUME NEW i \in 1..n
                 PROVE  /\ s[i] \in High => i < n /\ s[i + 1] \in Low
                        /\ s[i] \in Low => i > 1 /\ s[i - 1] \in High
        BY <1>1 DEF Paired
    <2>1. s[i] \in High => i # n /\ n > 0
        BY <1>1, <1>3 DEF EndsHigh
    <2>2. i # n => i < n
        OBVIOUS
    <2> QED BY <1>1, <1>3, <2>1, <2>2 DEF Half
<1> QED BY <1>2, <1>3

(* A sequence that is longer by one unit.                                   *)
LEMMA OneMore ==
    ASSUME NEW s \in Text, NEW u \in Units
    PROVE  /\ s \o <<u>> \in Text /\ Len(s \o <<u>>) = Len(s) + 1 /\ (s \o <<u>>)[Len(s) + 1] = u
           /\ \A i \in 1..Len(s) : (s \o <<u>>)[i] = s[i]
<1>1. <<u>> \in Text /\ Len(<<u>>) = 1 /\ <<u>>[1] = u
    BY TextLemma
<1>2. /\ s \o <<u>> \in Text /\ Len(s \o <<u>>) = Len(s) + 1
      /\ \A i \in 1..Len(s) : (s \o <<u>>)[i] = s[i]
      /\ \A i \in 1..1 : (s \o <<u>>)[Len(s) + i] = <<u>>[i]
    BY <1>1, TextConcat
<1>3. 1 \in 1..1
    OBVIOUS
<1> QED BY <1>1, <1>2, <1>3

(* There is no surrogate in the empty text.                                 *)
LEMMA HalfEmpty == Half(<<>>) /\ ~EndsHigh(<<>>) /\ Paired(<<>>)
<1>1. Half(<<>>) /\ ~EndsHigh(<<>>)
    BY TextLemma DEF Half, EndsHigh
<1> QED BY <1>1, PairedIsHalf, TextLemma

(* When the pairs stay pairs with one more unit.                            *)
LEMMA HalfStep ==
    ASSUME NEW s \in Text, NEW u \in Units
    PROVE  /\ Half(s \o <<u>>) <=> Half(s) /\ (u \in Low <=> EndsHigh(s))
           /\ EndsHigh(s \o <<u>>) <=> u \in High
<1>1. PICK n \in Nat : n = Len(s)
    BY TextLemma
<1>2. PICK t : t = s \o <<u>> /\ Len(t) = n + 1 /\ t[n + 1] = u /\ \A i \in 1..n : t[i] = s[i]
    <2>1. /\ Len(s \o <<u>>) = Len(s) + 1 /\ (s \o <<u>>)[Len(s) + 1] = u
          /\ \A i \in 1..Len(s) : (s \o <<u>>)[i] = s[i]
        BY OneMore
    <2> QED BY <1>1, <2>1
<1>3. EndsHigh(t) <=> u \in High
    BY <1>2 DEF EndsHigh
<1>4. EndsHigh(s) <=> n > 0 /\ t[n] \in High
    <2>1. n > 0 => t[n] = s[n]
        BY <1>2
    <2> QED BY <1>1, <2>1 DEF EndsHigh
<1>5. ASSUME Half(t) PROVE Half(s) /\ (u \in Low <=> EndsHigh(s))
    <2>1. \A i \in 1 .. n + 1 : /\ t[i] \in High /\ i < n + 1 => t[i + 1] \in Low
                                /\ t[i] \in Low => i > 1 /\ t[i - 1] \in High
        BY <1>2, <1>5 DEF Half
    <2>2. u \in Low => n > 0 /\ t[n] \in High
        <3>1. n + 1 \in 1 .. n + 1 /\ (n + 1) - 1 = n /\ (n + 1 > 1 => n > 0)
            OBVIOUS
        <3> QED BY <1>2, <2>1, <3>1
    <2>3. n > 0 /\ t[n] \in High => u \in Low
        <3>1. n > 0 => n \in 1 .. n + 1 /\ n < n + 1
            OBVIOUS
        <3> QED BY <1>2, <2>1, <3>1
    <2>4. ASSUME NEW i \in 1..n
          PROVE  /\ s[i] \in High /\ i < n => s[i + 1] \in Low
                 /\ s[i] \in Low => i > 1 /\ s[i - 1] \in High
        <3>1. i \in 1 .. n + 1 /\ i < n + 1 /\ (i < n => i + 1 \in 1..n) /\ (i > 1 => i - 1 \in 1..n)
            OBVIOUS
        <3> QED BY <1>2, <2>1, <3>1
    <2>5. Half(s)
        BY <1>1, <2>4 DEF Half
    <2> QED BY <1>4, <2>2, <2>3, <2>5
<1>6. ASSUME Half(s), u \in Low <=> EndsHigh(s) PROVE Half(t)
    <2>1. \A i \in 1..n : /\ s[i] \in High /\ i < n => s[i + 1] \in Low
                          /\ s[i] \in Low => i > 1 /\ s[i - 1] \in High
        BY <1>1, <1>6 DEF Half
    <2>2. ASSUME NEW i \in 1 .. n + 1
          PROVE  /\ t[i] \in High /\ i < n + 1 => t[i + 1] \in Low
                 /\ t[i] \in Low => i > 1 /\ t[i - 1] \in High
        <3>1. CASE i = n + 1
            <4>1. ~(i < n + 1) /\ i - 1 = n /\ (n > 0 => i > 1)
                BY <3>1
            <4> QED BY <1>2, <1>4, <1>6, <3>1, <4>1
        <3>2. CASE i = n
            <4>1. i \in 1..n /\ i > 0 /\ (i > 1 => i - 1 \in 1..n)
                BY <3>2
            <4>2. t[i] \in High => t[i + 1] \in Low
                BY <1>2, <1>4, <1>6, <3>2, <4>1
            <4> QED BY <1>2, <2>1, <4>1, <4>2
        <3>3. CASE i # n /\ i # n + 1
            <4>1. i \in 1..n /\ i < n /\ i + 1 \in 1..n /\ (i > 1 => i - 1 \in 1..n)
                BY <3>3
            <4> QED BY <1>2, <2>1, <4>1
        <3> QED BY <3>1, <3>2, <3>3
    <2> QED BY <1>2, <2>2 DEF Half
<1> QED BY <1>2, <1>3, <1>5, <1>6

(* What is written for a unit that does not wait is read as this unit.      *)
LEMMA ReadsChars ==
    ASSUME NEW u \in Units, ~Waits(u)
    PROVE  ReadsAs(Chars(u), <<u>>)
<1>1. CASE IsDirect(u)
    <2>1. u # Ampersand
        BY <1>1 DEF IsDirect
    <2> QED BY <1>1, <2>1, ReadsUnit DEF Chars
<1>2. CASE ~IsDirect(u)
    <2>1. u = Ampersand /\ Chars(u) = <<Ampersand>> \o <<Hyphen>>
        BY <1>2, CharsLemma DEF Waits, Chars
    <2>2. PICK t \in Text : t = <<>> /\ \A k \in 1..Len(t) : t[k] # Hyphen
        BY TextLemma
    <2>3. ReadsAs(<<Ampersand>> \o t \o <<Hyphen>>, decode_utf16_segment(t))
        BY <2>2, ReadsSegment
    <2>4. decode_utf16_segment(t) = <<Ampersand>>
        BY <2>2 DEF decode_utf16_segment
    <2>5. <<Ampersand>> \o t = <<Ampersand>>
        BY <2>2, CharsLemma, TextLemma
    <2> QED BY <2>1, <2>3, <2>4, <2>5
<1> QED BY <1>1, <1>2

(* What is written for the units that waited is read as these units.        *)
LEMMA ReadsWaiting ==
    ASSUME NEW p \in Text, Paired(p)
    PROVE  ReadsAs(Segment(p), p)
<1>1. CASE p = <<>>
    BY <1>1, ReadsEmpty DEF Segment
<1>2. CASE p # <<>>
    <2> DEFINE b == Bytes(p)
               t == encode_modified_base64(b)
    <2>1. b \in Seq(Octets)
        BY BytesLemma
    <2> HIDE DEF b
    <2>2. t \in Text /\ \A k \in 1..Len(t) : t[k] \in {Alphabet[d] : d \in Digits}
        BY <2>1, DigitsLemma
    <2>3. decode_utf16_segment(t) = p
        BY <1>2, SegmentRoundTrip DEF b
    <2>4. Segment(p) = <<Ampersand>> \o t \o <<Hyphen>>
        BY <1>2 DEF Segment, encode_utf16_segment, b
    <2> HIDE DEF t
    <2>5. \A k \in 1..Len(t) : t[k] # Hyphen
        <3> TAKE k \in 1..Len(t)
        <3>1. PICK d \in Digits : t[k] = Alphabet[d]
            BY <2>2
        <3> QED BY <3>1, AlphabetLemma
    <2> QED BY <2>2, <2>3, <2>4, <2>5, ReadsSegment
<1> QED BY <1>1, <1>2

(* The encoder behind the units of s: those that wait are the end of s, and *)
(* what is written is read as those before.                                 *)
Written(s) ==
    \E a \in Text :
        /\ s = a \o State(s).pending
        /\ ReadsAs(State(s).encoded, a)
        /\ Half(State(s).pending)
        /\ EndsHigh(s) <=> EndsHigh(State(s).pending)

(* One more unit is written or waits.                                       *)
LEMMA WrittenStep ==
    ASSUME NEW s \in Text, NEW u \in Units, Half(s) => Written(s), Half(s \o <<u>>)
    PROVE  Written(s \o <<u>>)
<1>1. Half(s) /\ (u \in Low <=> EndsHigh(s)) /\ (EndsHigh(s \o <<u>>) <=> u \in High)
    BY HalfStep
<1>2. PICK e \in Text, p \in Text : e = State(s).encoded /\ p = State(s).pending
    BY StateLemma
<1>3. PICK a \in Text : s = a \o p /\ ReadsAs(e, a) /\ Half(p) /\ (EndsHigh(s) <=> EndsHigh(p))
    BY <1>1, <1>2 DEF Written
<1>4. State(s) \in EncoderStates /\ State(s \o <<u>>) = EncodeUnit(State(s), u)
    BY StateLemma, StateStep
<1>5. <<u>> \in Text
    BY TextLemma
<1>6. CASE Waits(u)
    <2>1. State(s \o <<u>>).encoded = e /\ State(s \o <<u>>).pending = p \o <<u>>
        BY <1>2, <1>4, <1>6, EncodeUnitLemma
    <2>2. s \o <<u>> = a \o (p \o <<u>>)
        BY <1>3, <1>5, TextAssoc, SMTT(20)
    <2>3. Half(p \o <<u>>) /\ (EndsHigh(p \o <<u>>) <=> u \in High)
        BY <1>1, <1>3, HalfStep
    <2> QED BY <1>1, <1>3, <2>1, <2>2, <2>3 DEF Written
<1>7. CASE ~Waits(u)
    <2>1. State(s \o <<u>>).encoded = (e \o Segment(p)) \o Chars(u) /\ State(s \o <<u>>).pending = <<>>
        BY <1>2, <1>4, <1>7, EncodeUnitLemma, ZenonT(40)
    <2>2. u \notin Low /\ u \notin High
        BY <1>7, SurrogatesLemma
    <2>3. ReadsAs(Segment(p), p)
        BY <1>1, <1>3, <2>2, PairedIsHalf, ReadsWaiting
    <2>4. ReadsAs(e \o Segment(p), s) /\ e \o Segment(p) \in Text
        BY <1>3, <2>3, SegmentText, ReadsConcat, TextConcat
    <2>5. ReadsAs(Chars(u), <<u>>) /\ Chars(u) \in Text
        BY <1>7, ReadsChars, CharsLemma
    <2>6. ReadsAs((e \o Segment(p)) \o Chars(u), s \o <<u>>)
        BY <1>5, <2>4, <2>5, ReadsConcat
    <2>7. PICK t \in Text : t = s \o <<u>> /\ t \o <<>> = t
        BY <1>5, TextConcat, TextLemma
    <2> QED BY <1>1, <2>1, <2>2, <2>6, <2>7, HalfEmpty DEF Written
<1> QED BY <1>6, <1>7

(* The encoder has written what is read as the units it has seen, but for   *)
(* those that wait.                                                         *)
LEMMA WrittenLemma == \A s \in Text : Half(s) => Written(s)
<1> DEFINE P == {s \in Text : Half(s) => Written(s)}
<1>1. <<>> \in P
    <2>1. <<>> = <<>> \o State(<<>>).pending
        BY StateEmpty, TextLemma
    <2>2. Written(<<>>)
        BY <2>1, StateEmpty, ReadsEmpty, HalfEmpty, TextLemma DEF Written
    <2> QED BY <2>2, TextLemma
<1>2. ASSUME NEW s \in Text, NEW u \in Units, s \in P PROVE s \o <<u>> \in P
    BY <1>2, WrittenStep, OneMore
<1> HIDE DEF P
<1>3. \A s \in Text : s \in P
    BY <1>1, <1>2, SeqInduction DEF Text
<1> QED BY <1>3 DEF P

(* A name of any length, with any units but lone surrogates, is what        *)
(* decode_imap_utf7 makes of what encode_imap_utf7 writes for it.           *)
THEOREM NameRoundTrip ==
    ASSUME NEW s, IsText(s)
    PROVE  encode_imap_utf7(s) \in Text /\ decode_imap_utf7(encode_imap_utf7(s)) = s
<1>1. s \in Text /\ Half(s) /\ ~EndsHigh(s)
    BY PairedIsHalf DEF IsText, Text
<1>2. PICK e \in Text, p \in Text : e = State(s).encoded /\ p = State(s).pending
    BY <1>1, StateLemma
<1>3. PICK a \in Text : s = a \o p /\ ReadsAs(e, a) /\ Half(p) /\ ~EndsHigh(p)
    BY <1>1, <1>2, WrittenLemma DEF Written
<1>4. encode_imap_utf7(s) = e \o Segment(p)
    BY <1>2 DEF encode_imap_utf7, Flushed, Segment, State
<1>5. Segment(p) \in Text /\ e \o Segment(p) \in Text
    BY SegmentText, TextConcat
<1>6. ReadsAs(e \o Segment(p), s)
    <2>1. ReadsAs(Segment(p), p)
        BY <1>3, PairedIsHalf, ReadsWaiting
    <2> QED BY <1>3, <1>5, <2>1, ReadsConcat
<1>7. decode_imap_utf7(<<>>) = <<>>
    <2>1. Len(<<>>) + 1 = 1
        BY TextLemma
    <2> QED BY <2>1, TextLemma, ReadingLemma DEF decode_imap_utf7
<1>8. (e \o Segment(p)) \o <<>> = e \o Segment(p) /\ s \o <<>> = s
    BY <1>1, <1>5, TextLemma
<1>9. decode_imap_utf7((e \o Segment(p)) \o <<>>) = s \o decode_imap_utf7(<<>>)
    BY <1>6, TextLemma DEF ReadsAs
<1> QED BY <1>4, <1>5, <1>7, <1>8, <1>9

-----------------------------------------------------------------------------
(* Quoted strings: what quote_string writes is what the server reads.       *)

(* The joining of texts, one after the other.                               *)
Joins(f, seqs) == f[0] = <<>> /\ \A i \in 1..Len(seqs) : f[i] = f[i - 1] \o seqs[i]

(* A value and a step for each number make a function of these values.      *)
Iterates(f, base, step, n) == f[0] = base /\ \A i \in 1..n : f[i] = step[i][f[i - 1]]

LEMMA RecursionIterates ==
    \A S : \A base \in S, n \in Nat : \A step \in [1..n -> [S -> S]] :
        \E f \in [0..n -> S] : Iterates(f, base, step, n)
BY Recursion DEF Iterates

(* FlattenSeq joins the texts of a sequence one after the other.            *)
LEMMA FlattenLemma ==
    ASSUME NEW S, NEW seqs \in Seq(Seq(S))
    PROVE  \E f \in [0..Len(seqs) -> Seq(S)] : Joins(f, seqs) /\ FlattenSeq(seqs) = f[Len(seqs)]
<1>1. PICK n \in Nat : n = Len(seqs)
    BY LenProperties
<1>2. \A i \in 1..n : seqs[i] \in Seq(S)
    BY <1>1, ElementOfSeq
<1> DEFINE step == [i \in 1..n |-> [x \in Seq(S) |-> x \o seqs[i]]]
<1>3. step \in [1..n -> [Seq(S) -> Seq(S)]]
    BY <1>2, ConcatProperties
<1>4. PICK f \in [0..n -> Seq(S)] : f[0] = <<>> /\ \A i \in 1..n : f[i] = step[i][f[i - 1]]
    <2> DEFINE base == <<>>
    <2>1. PICK T : T = Seq(S)
        OBVIOUS
    <2>2. base \in T
        BY <2>1, EmptySeq
    <2>3. step \in [1..n -> [T -> T]]
        BY <1>3, <2>1
    <2> HIDE DEF step, base
    <2>4. \E f \in [0..n -> T] : Iterates(f, base, step, n)
        BY <2>2, <2>3, RecursionIterates, Zenon
    <2> QED BY <2>1, <2>4 DEF base, Iterates
<1>5. \A i \in 1..n : f[i] = f[i - 1] \o seqs[i] /\ f[i - 1] \in Seq(S)
    <2> TAKE i \in 1..n
    <2>1. i - 1 \in 0..n
        OBVIOUS
    <2>2. f[i - 1] \in Seq(S)
        BY <1>4, <2>1
    <2> QED BY <1>4, <2>2
<1>6. Joins(f, seqs)
    BY <1>1, <1>4, <1>5 DEF Joins
<1>7. CASE n = 0
    <2>1. seqs = <<>> /\ Len(seqs) = 0
        BY <1>1, <1>7, EmptySeq
    <2>2. FlattenSeq(seqs) = <<>>
        BY <2>1 DEF FlattenSeq
    <2> QED BY <1>1, <1>4, <1>6, <1>7, <2>2
<1>8. CASE n # 0
    <2> DEFINE Q(g) == g = [i \in 1..n |-> IF i = 1 THEN seqs[i] ELSE g[i - 1] \o seqs[i]]
               h == CHOOSE g : Q(g)
               r == [i \in 1..n |-> f[i]]
    <2>1. FlattenSeq(seqs) = h[n]
        BY <1>1, <1>8 DEF FlattenSeq
    <2>2. Q(r)
        <3>1. ASSUME NEW i \in 1..n PROVE r[i] = IF i = 1 THEN seqs[i] ELSE r[i - 1] \o seqs[i]
            <4>1. CASE i = 1
                <5>1. i - 1 = 0
                    BY <4>1
                <5>2. f[i] = <<>> \o seqs[i]
                    BY <1>4, <1>5, <5>1
                <5>3. <<>> \o seqs[i] = seqs[i]
                    BY <1>2, ConcatEmptySeq
                <5> QED BY <4>1, <5>2, <5>3
            <4>2. CASE i # 1
                <5>1. i - 1 \in 1..n
                    BY <4>2
                <5> QED BY <1>5, <4>2, <5>1
            <4> QED BY <4>1, <4>2
        <3>2. r = [i \in 1..n |-> r[i]]
            OBVIOUS
        <3> HIDE DEF r
        <3> QED BY <3>1, <3>2
    <2> HIDE DEF Q
    <2>3. Q(h)
        BY <2>2
    <2> HIDE DEF h, r
    <2>4. \A i \in 1..n : h[i] = IF i = 1 THEN seqs[i] ELSE h[i - 1] \o seqs[i]
        BY <2>3 DEF Q
    <2>5. \A i \in 1..n : r[i] = IF i = 1 THEN seqs[i] ELSE r[i - 1] \o seqs[i]
        BY <2>2 DEF Q
    <2> DEFINE m == n - 1
               r1 == [i \in 0..m |-> r[i + 1]]
               h1 == [i \in 0..m |-> h[i + 1]]
    <2>6. m \in Nat /\ m + 1 = n
        BY <1>8
    <2>7. r1[0] = h1[0]
        <3>1. 0 \in 0..m /\ 0 + 1 = 1 /\ 1 \in 1..n
            BY <2>6
        <3>2. r[1] = h[1]
            BY <2>4, <2>5, <3>1
        <3> QED BY <3>1, <3>2
    <2>8. ASSUME NEW i \in 1..m, r1[i - 1] = h1[i - 1] PROVE r1[i] = h1[i]
        <3>1. i \in 0..m /\ i - 1 \in 0..m /\ (i - 1) + 1 = i /\ i + 1 \in 1..n /\ i + 1 # 1 /\ (i + 1) - 1 = i
            BY <2>6
        <3>2. r[i] = h[i]
            BY <2>8, <3>1
        <3>3. r[i + 1] = r[i] \o seqs[i + 1] /\ h[i + 1] = h[i] \o seqs[i + 1]
            BY <2>4, <2>5, <3>1
        <3> QED BY <3>1, <3>2, <3>3
    <2> HIDE DEF m, r1, h1
    <2>9. \A i \in 0..m : r1[i] = h1[i]
        <3>1. Same(r1, h1, 0) /\ \A i \in 1..m : Same(r1, h1, i - 1) => Same(r1, h1, i)
            BY <2>7, <2>8 DEF Same
        <3>2. m \in Nat
            BY <2>6
        <3>3. \A i \in 0..m : Same(r1, h1, i)
            BY <3>1, <3>2, RecursionAgrees
        <3> QED BY <3>3 DEF Same
    <2>10. r[n] = h[n]
        <3>1. m \in 0..m
            BY <2>6
        <3> QED BY <2>6, <2>9, <3>1 DEF r1, h1
    <2>11. r[n] = f[n]
        <3>1. n \in 1..n
            BY <1>8
        <3> QED BY <3>1 DEF r
    <2> QED BY <1>1, <1>6, <2>1, <2>10, <2>11
<1> QED BY <1>7, <1>8

(* One more text is joined at the end.                                      *)
LEMMA FlattenStep ==
    ASSUME NEW S, NEW seqs \in Seq(Seq(S)), NEW more \in Seq(Seq(S)), NEW t \in Seq(S),
           Len(more) = Len(seqs) + 1, \A i \in 1..Len(seqs) : more[i] = seqs[i], more[Len(seqs) + 1] = t
    PROVE  FlattenSeq(more) = FlattenSeq(seqs) \o t
<1>1. PICK n \in Nat : n = Len(seqs)
    BY LenProperties
<1>2. PICK f : Joins(f, seqs) /\ FlattenSeq(seqs) = f[n]
    BY <1>1, FlattenLemma
<1>3. PICK g : Joins(g, more) /\ FlattenSeq(more) = g[n + 1]
    BY <1>1, FlattenLemma
<1>4. f[0] = g[0] /\ \A i \in 1..n : f[i - 1] = g[i - 1] => f[i] = g[i]
    <2>1. \A i \in 1..n : i \in 1 .. n + 1
        OBVIOUS
    <2> QED BY <1>1, <1>2, <1>3, <2>1 DEF Joins
<1>5. \A i \in 0..n : f[i] = g[i]
    <2>1. Same(f, g, 0) /\ \A i \in 1..n : Same(f, g, i - 1) => Same(f, g, i)
        BY <1>4 DEF Same
    <2>2. \A i \in 0..n : Same(f, g, i)
        BY <2>1, RecursionAgrees
    <2> QED BY <2>2 DEF Same
<1>6. g[n + 1] = g[n] \o t
    <2>1. n + 1 \in 1..Len(more) /\ (n + 1) - 1 = n
        BY <1>1
    <2> QED BY <1>1, <1>3, <2>1 DEF Joins
<1>7. f[n] = g[n]
    BY <1>5
<1> QED BY <1>2, <1>3, <1>6, <1>7

(* What is written of one character in a quoted string.                     *)
Esc(u) == IF u \in {Quote, Escape} THEN <<Escape, u>> ELSE <<u>>

(* A quote and a backslash get a backslash before them.                     *)
LEMMA EscLemma ==
    ASSUME NEW u \in Units
    PROVE  /\ Esc(u) \in Text
           /\ u \in {Quote, Escape} => Len(Esc(u)) = 2 /\ Esc(u)[1] = Escape /\ Esc(u)[2] = u
           /\ u \notin {Quote, Escape} => Len(Esc(u)) = 1 /\ Esc(u)[1] = u
<1>1. Escape \in Units
    BY UnitsLemma DEF Escape
<1>2. <<Escape, u>> \in Text
    BY <1>1 DEF Text
<1> QED BY <1>2, TextLemma DEF Esc

(* One more character is escaped at the end.                                *)
LEMMA EscapedLemma ==
    ASSUME NEW s \in Text
    PROVE  /\ Escaped(s) \in Text
           /\ \A u \in Units : Escaped(s \o <<u>>) = Escaped(s) \o Esc(u)
<1> DEFINE All(x) == [i \in 1..Len(x) |-> Esc(x[i])]
<1>1. ASSUME NEW x \in Text PROVE Escaped(x) = FlattenSeq(All(x)) /\ All(x) \in Seq(Text) /\ Len(All(x)) = Len(x)
    <2>1. Escaped(x) = FlattenSeq(All(x))
        BY DEF Escaped, Esc
    <2>2. Len(x) \in Nat /\ \A i \in 1..Len(x) : Esc(x[i]) \in Text
        BY TextLemma, EscLemma
    <2> QED BY <2>1, <2>2
<1>2. Escaped(s) \in Text
    <2>1. PICK f \in [0..Len(s) -> Text] : Escaped(s) = f[Len(s)]
        <3> HIDE DEF All
        <3> QED BY <1>1, FlattenLemma DEF Text
    <2>2. Len(s) \in 0..Len(s)
        BY TextLemma
    <2> QED BY <2>1, <2>2
<1>3. ASSUME NEW u \in Units PROVE Escaped(s \o <<u>>) = Escaped(s) \o Esc(u)
    <2>1. PICK n \in Nat : n = Len(s)
        BY TextLemma
    <2>2. PICK t \in Text : t = s \o <<u>> /\ Len(t) = n + 1 /\ t[n + 1] = u /\ \A i \in 1..n : t[i] = s[i]
        <3>1. /\ s \o <<u>> \in Text /\ Len(s \o <<u>>) = Len(s) + 1 /\ (s \o <<u>>)[Len(s) + 1] = u
              /\ \A i \in 1..Len(s) : (s \o <<u>>)[i] = s[i]
            BY OneMore
        <3> QED BY <2>1, <3>1
    <2>3. \A i \in 1..n : All(t)[i] = All(s)[i]
        <3>1. \A i \in 1..n : i \in 1 .. n + 1
            OBVIOUS
        <3> QED BY <2>1, <2>2, <3>1
    <2>4. All(t)[n + 1] = Esc(u)
        <3>1. n + 1 \in 1 .. n + 1
            OBVIOUS
        <3> QED BY <2>2, <3>1
    <2>5. Esc(u) \in Text
        BY EscLemma
    <2> HIDE DEF All
    <2>6. All(s) \in Seq(Text) /\ All(t) \in Seq(Text) /\ Len(All(s)) = n /\ Len(All(t)) = n + 1
        BY <1>1, <2>1, <2>2
    <2>7. FlattenSeq(All(t)) = FlattenSeq(All(s)) \o Esc(u)
        BY <2>3, <2>4, <2>5, <2>6, FlattenStep DEF Text
    <2> QED BY <1>1, <2>2, <2>7
<1> QED BY <1>2, <1>3

(* Nothing to escape.                                                       *)
LEMMA EscapedEmpty == Escaped(<<>>) = <<>>
<1> DEFINE none == [i \in 1..Len(<<>>) |-> IF <<>>[i] \in {Quote, Escape} THEN <<Escape, <<>>[i]>> ELSE <<<<>>[i]>>]
<1>1. none = <<>>
    OBVIOUS
<1>2. Escaped(<<>>) = FlattenSeq(none)
    BY DEF Escaped
<1> HIDE DEF none
<1> QED BY <1>1, <1>2, TextLemma DEF FlattenSeq

(* What the server takes at a place of a quoted string, and how far.        *)
Halts(q, i) == i >= Len(q) \/ q[i] = Quote
UnquoteAt(q, i) == IF Halts(q, i) THEN <<>> ELSE IF q[i] = Escape THEN <<q[i + 1]>> ELSE <<q[i]>>
UnquoteTo(q, i) == IF Halts(q, i) THEN Len(q) + 1 ELSE IF q[i] = Escape THEN i + 2 ELSE i + 1

(* Unquoting satisfies its recursive definition.                            *)
LEMMA UnquotingLemma ==
    ASSUME NEW q \in Text
    PROVE  /\ \A i \in 1 .. Len(q) + 1 : Unquoting(q)[i] \in Text
           /\ Unquoting(q)[Len(q) + 1] = <<>>
           /\ \A i \in 1..Len(q) : Unquoting(q)[i] = UnquoteAt(q, i) \o Unquoting(q)[UnquoteTo(q, i)]
<1> DEFINE part == [i \in 1..Len(q) |-> UnquoteAt(q, i)]
           next == [i \in 1..Len(q) |-> UnquoteTo(q, i)]
           Q(f) == f = [i \in 1 .. Len(q) + 1 |->
                            IF i >= Len(q) \/ q[i] = Quote THEN <<>>
                            ELSE IF q[i] = Escape THEN <<q[i + 1]>> \o f[i + 2]
                            ELSE <<q[i]>> \o f[i + 1]]
           h == Unquoting(q)
<1>1. PICK n \in Nat : n = Len(q)
    BY TextLemma
<1>2. \A i \in 1..n : UnquoteAt(q, i) \in Text /\ UnquoteTo(q, i) \in i + 1 .. n + 1
    <2> TAKE i \in 1..n
    <2>1. q[i] \in Units
        BY <1>1, TextLemma
    <2>2. CASE Halts(q, i)
        <3>1. n + 1 \in i + 1 .. n + 1
            OBVIOUS
        <3> QED BY <1>1, <2>2, <3>1, TextLemma DEF UnquoteAt, UnquoteTo
    <2>3. CASE ~Halts(q, i)
        <3>1. i < n
            BY <1>1, <2>3 DEF Halts
        <3>2. i + 1 \in 1..n /\ i + 1 \in i + 1 .. n + 1 /\ i + 2 \in i + 1 .. n + 1
            BY <3>1
        <3>3. q[i + 1] \in Units
            BY <1>1, <3>2, TextLemma
        <3>4. <<q[i]>> \in Text /\ <<q[i + 1]>> \in Text
            BY <2>1, <3>3, TextLemma
        <3> QED BY <2>3, <3>2, <3>4 DEF UnquoteAt, UnquoteTo
    <2> QED BY <2>2, <2>3
<1>3. part \in [1..n -> Seq(Units)] /\ Advances(next, n)
    BY <1>1, <1>2 DEF Text, Advances
<1>4. PICK f \in [1 .. n + 1 -> Seq(Units)] : IsReading(f, part, next, n)
    <2> HIDE DEF part, next, Q
    <2> QED BY <1>3, ReadingExists
<1>5. f[n + 1] = <<>> /\ \A i \in 1..n : f[i] = UnquoteAt(q, i) \o f[UnquoteTo(q, i)]
    <2>1. f[n + 1] = <<>> /\ \A i \in 1..n : f[i] = part[i] \o f[next[i]]
        <3> HIDE DEF part, next, Q
        <3> QED BY <1>4 DEF IsReading
    <2> QED BY <1>1, <2>1
<1>6. ASSUME NEW i \in 1 .. n + 1
      PROVE  f[i] = IF i >= n \/ q[i] = Quote THEN <<>>
                    ELSE IF q[i] = Escape THEN <<q[i + 1]>> \o f[i + 2] ELSE <<q[i]>> \o f[i + 1]
    <2>1. CASE i = n + 1
        BY <1>5, <2>1
    <2>2. CASE i # n + 1 /\ Halts(q, i)
        <3>1. i \in 1..n
            BY <2>2
        <3>2. f[i] = <<>> \o <<>>
            BY <1>1, <1>5, <2>2, <3>1 DEF UnquoteAt, UnquoteTo
        <3>3. <<>> \o <<>> = <<>>
            BY TextLemma
        <3> QED BY <1>1, <2>2, <3>2, <3>3 DEF Halts
    <2>3. CASE i # n + 1 /\ ~Halts(q, i)
        <3>1. i \in 1..n
            BY <2>3
        <3>2. f[i] = UnquoteAt(q, i) \o f[UnquoteTo(q, i)]
            BY <1>5, <3>1
        <3> QED BY <1>1, <2>3, <3>2 DEF UnquoteAt, UnquoteTo, Halts
    <2> QED BY <2>1, <2>2, <2>3
<1>7. Q(f)
    BY <1>1, <1>4, <1>6
<1>8. h = CHOOSE g : Q(g)
    BY DEF Unquoting
<1> HIDE DEF Q
<1>9. Q(h)
    BY <1>7, <1>8
<1> HIDE DEF h
<1>10. \A i \in 1 .. n + 1 :
        h[i] = IF i >= n \/ q[i] = Quote THEN <<>>
               ELSE IF q[i] = Escape THEN <<q[i + 1]>> \o h[i + 2] ELSE <<q[i]>> \o h[i + 1]
    BY <1>1, <1>9 DEF Q
<1>11. h[n + 1] = <<>>
    <2>1. n + 1 \in 1 .. n + 1 /\ n + 1 >= n
        OBVIOUS
    <2> QED BY <1>10, <2>1
<1>12. ASSUME NEW i \in 1..n PROVE h[i] = UnquoteAt(q, i) \o h[UnquoteTo(q, i)]
    <2>1. i \in 1 .. n + 1
        OBVIOUS
    <2>2. CASE Halts(q, i)
        <3>1. h[i] = <<>>
            BY <1>1, <1>10, <2>1, <2>2 DEF Halts
        <3>2. UnquoteAt(q, i) = <<>> /\ UnquoteTo(q, i) = n + 1
            BY <1>1, <2>2 DEF UnquoteAt, UnquoteTo
        <3>3. <<>> \o <<>> = <<>>
            BY TextLemma
        <3> QED BY <1>11, <3>1, <3>2, <3>3
    <2>3. CASE ~Halts(q, i)
        <3>1. h[i] = IF q[i] = Escape THEN <<q[i + 1]>> \o h[i + 2] ELSE <<q[i]>> \o h[i + 1]
            BY <1>1, <1>10, <2>1, <2>3 DEF Halts
        <3> QED BY <2>3, <3>1 DEF UnquoteAt, UnquoteTo
    <2> QED BY <2>2, <2>3
<1>13. PICK d \in Nat : d = 0
    OBVIOUS
<1>14. \A i \in 1 .. n + 1 : Alike(f, h, i, d)
    <2>1. ASSUME NEW i \in 1..n, Alike(f, h, next[i], d) PROVE Alike(f, h, i, d)
        <3>1. next[i] = UnquoteTo(q, i)
            BY <1>1
        <3>2. UnquoteTo(q, i) \in Nat
            <4>1. UnquoteTo(q, i) \in i + 1 .. n + 1
                BY <1>2
            <4> QED BY <4>1
        <3>3. UnquoteTo(q, i) + d = UnquoteTo(q, i) /\ i + d = i
            BY <1>13, <3>2
        <3>4. f[UnquoteTo(q, i)] = h[UnquoteTo(q, i)]
            BY <2>1, <3>1, <3>3 DEF Alike
        <3>5. f[i] = h[i]
            BY <1>5, <1>12, <3>4
        <3> QED BY <3>3, <3>5 DEF Alike
    <2>2. Alike(f, h, n + 1, d)
        <3>1. n + 1 + d = n + 1
            BY <1>13
        <3> QED BY <1>5, <1>11, <3>1 DEF Alike
    <2> HIDE DEF next, part
    <2> QED BY <1>3, <2>1, <2>2, ReadingAgrees
<1>15. \A i \in 1 .. n + 1 : h[i] \in Text
    <2>1. \A i \in 1 .. n + 1 : i + d = i
        BY <1>13
    <2> QED BY <1>4, <1>14, <2>1 DEF Text, Alike
<1> QED BY <1>1, <1>11, <1>12, <1>15 DEF h

(* A text b behind a first quote and a text a.                              *)
LEMMA InQuotes ==
    ASSUME NEW a \in Text, NEW b \in Text, NEW t \in Text
    PROVE  LET q == <<Quote>> \o (a \o (b \o t)) IN
           /\ q \in Text /\ Len(q) = 1 + (Len(a) + (Len(b) + Len(t)))
           /\ \A j \in 1..Len(b) : q[1 + (Len(a) + j)] = b[j]
<1>1. PICK v \in Text : v = <<Quote>> /\ Len(v) = 1
    <2>1. Quote \in Units
        BY UnitsLemma DEF Quote
    <2> QED BY <2>1, TextLemma
<1>2. PICK bt \in Text : bt = b \o t /\ Len(bt) = Len(b) + Len(t) /\ \A j \in 1..Len(b) : bt[j] = b[j]
    BY TextConcat, ZenonT(40)
<1>3. a \o bt \in Text /\ Len(a \o bt) = Len(a) + Len(bt) /\ \A j \in 1..Len(bt) : (a \o bt)[Len(a) + j] = bt[j]
    BY TextConcat
<1>4. PICK abt \in Text : abt = a \o bt
    BY <1>3
<1>5. v \o abt \in Text /\ Len(v \o abt) = Len(v) + Len(abt) /\ \A j \in 1..Len(abt) : (v \o abt)[Len(v) + j] = abt[j]
    BY TextConcat
<1>6. Len(a) \in Nat /\ Len(b) \in Nat /\ Len(t) \in Nat
    BY TextLemma
<1>7. ASSUME NEW j \in 1..Len(b) PROVE (v \o abt)[1 + (Len(a) + j)] = b[j]
    <2>1. j \in 1..Len(bt) /\ Len(a) + j \in 1..Len(abt)
        BY <1>2, <1>3, <1>4, <1>6
    <2>2. (v \o abt)[1 + (Len(a) + j)] = abt[Len(a) + j]
        BY <1>1, <1>5, <2>1
    <2>3. abt[Len(a) + j] = bt[j]
        BY <1>3, <1>4, <2>1
    <2> QED BY <1>2, <2>2, <2>3
<1> QED BY <1>1, <1>2, <1>3, <1>4, <1>5, <1>7

(* The server takes the characters that were escaped one after the other.   *)
Unquoted(s, t) ==
    LET q == <<Quote>> \o (Escaped(s) \o t)
    IN  Unquoting(q)[2] = s \o Unquoting(q)[2 + Len(Escaped(s))]

(* One more character is read as it was before it was escaped.              *)
LEMMA UnquotedStep ==
    ASSUME NEW s \in Text, NEW u \in Units, NEW t \in Text, t # <<>>,
           Unquoted(s, Esc(u) \o t)
    PROVE  Unquoted(s \o <<u>>, t)
<1>1. \A w \in Text : (s \o <<u>>) \o w = s \o (<<u>> \o w)
    <2>1. <<u>> \in Text
        BY TextLemma
    <2> QED BY <2>1, TextAssoc
<1>2. PICK a \in Text : a = Escaped(s) /\ Escaped(s \o <<u>>) = a \o Esc(u)
    BY EscapedLemma
<1>3. PICK b \in Text : /\ b = Esc(u)
                        /\ u \in {Quote, Escape} => Len(b) = 2 /\ b[1] = Escape /\ b[2] = u
                        /\ u \notin {Quote, Escape} => Len(b) = 1 /\ b[1] = u
    BY EscLemma
<1>4. PICK k \in Nat, m \in Nat : k = Len(a) /\ m = Len(t) /\ m > 0
    BY TextLemma
<1>5. PICK q \in Text : /\ q = <<Quote>> \o (a \o (b \o t)) /\ Len(q) = 1 + (k + (Len(b) + m))
                        /\ \A j \in 1..Len(b) : q[1 + (k + j)] = b[j]
    <2> DEFINE r == <<Quote>> \o (a \o (b \o t))
    <2>1. /\ r \in Text /\ Len(r) = 1 + (Len(a) + (Len(b) + Len(t)))
          /\ \A j \in 1..Len(b) : r[1 + (Len(a) + j)] = b[j]
        BY InQuotes, ZenonT(60)
    <2> HIDE DEF r
    <2>2. Len(r) = 1 + (k + (Len(b) + m)) /\ \A j \in 1..Len(b) : r[1 + (k + j)] = b[j]
        BY <1>4, <2>1
    <2> QED BY <2>1, <2>2 DEF r
<1>6. (a \o b) \o t = a \o (b \o t)
    BY TextAssoc, SMTT(20)
<1>7. Len(a \o b) = k + Len(b)
    BY <1>4, TextConcat
<1> DEFINE U == Unquoting(q)
<1>8. U[2] = s \o U[2 + k]
    BY <1>2, <1>3, <1>4, <1>5 DEF Unquoted
<1>9. U[2 + k] = <<u>> \o U[2 + k + Len(b)] /\ U[2 + k + Len(b)] \in Text
    <2>1. CASE u \in {Quote, Escape}
        <3>1. Len(b) = 2 /\ b[1] = Escape /\ b[2] = u /\ Len(q) = 1 + (k + (2 + m))
            BY <1>3, <1>5, <2>1
        <3>2. 2 + k \in 1..Len(q) /\ ~(2 + k >= Len(q)) /\ 2 + k + 2 \in 1 .. Len(q) + 1
            BY <1>4, <3>1
        <3>3. 1 + (k + 1) = 2 + k /\ 1 + (k + 2) = 2 + k + 1 /\ 1 \in 1..2 /\ 2 \in 1..2
            OBVIOUS
        <3>4. q[2 + k] = Escape /\ q[2 + k + 1] = u
            BY <1>5, <3>1, <3>3
        <3>5. UnquoteAt(q, 2 + k) = <<u>> /\ UnquoteTo(q, 2 + k) = 2 + k + 2
            BY <3>2, <3>4 DEF UnquoteAt, UnquoteTo, Halts, Quote, Escape
        <3> HIDE DEF U
        <3> QED BY <3>1, <3>2, <3>5, UnquotingLemma, ZenonT(60) DEF U
    <2>2. CASE u \notin {Quote, Escape}
        <3>1. Len(b) = 1 /\ b[1] = u /\ Len(q) = 1 + (k + (1 + m))
            BY <1>3, <1>5, <2>2
        <3>2. 2 + k \in 1..Len(q) /\ ~(2 + k >= Len(q)) /\ 2 + k + 1 \in 1 .. Len(q) + 1
            BY <1>4, <3>1
        <3>3. 1 + (k + 1) = 2 + k /\ 1 \in 1..1
            OBVIOUS
        <3>4. q[2 + k] = u
            BY <1>5, <3>1, <3>3
        <3>5. UnquoteAt(q, 2 + k) = <<u>> /\ UnquoteTo(q, 2 + k) = 2 + k + 1
            BY <2>2, <3>2, <3>4 DEF UnquoteAt, UnquoteTo, Halts
        <3> HIDE DEF U
        <3> QED BY <3>1, <3>2, <3>5, UnquotingLemma DEF U
    <2> QED BY <2>1, <2>2
<1>10. U[2] = (s \o <<u>>) \o U[2 + k + Len(b)]
    <2>1. PICK w \in Text : w = U[2 + k + Len(b)]
        BY <1>9
    <2> HIDE DEF U
    <2>2. (s \o <<u>>) \o w = s \o (<<u>> \o w)
        BY <1>1
    <2> QED BY <1>8, <1>9, <2>1, <2>2
<1>11. 2 + (k + Len(b)) = 2 + k + Len(b)
    BY TextLemma
<1> HIDE DEF U
<1> QED BY <1>2, <1>3, <1>5, <1>6, <1>7, <1>10, <1>11, ZenonT(40) DEF Unquoted, U

(* The server reads a quoted string as the text that quote_string was       *)
(* given, with every quote and backslash in it.                             *)
THEOREM QuoteRoundTrip ==
    ASSUME NEW s \in Text
    PROVE  ServerReads(quote_string(s)) = s
<1> DEFINE P == {x \in Text : \A t \in Text : t # <<>> => Unquoted(x, t)}
<1>1. <<>> \in P
    <2> SUFFICES ASSUME NEW t \in Text PROVE Unquoted(<<>>, t)
        BY TextLemma
    <2>1. Escaped(<<>>) = <<>> /\ Len(<<>>) = 0 /\ <<>> \o t = t /\ 2 + 0 = 2
        BY EscapedEmpty, TextLemma
    <2>2. PICK q \in Text : q = <<Quote>> \o t /\ Len(q) >= 1
        <3>1. Quote \in Units
            BY UnitsLemma DEF Quote
        <3>2. <<Quote>> \in Text /\ Len(<<Quote>>) = 1
            BY <3>1, TextLemma
        <3>3. Len(t) \in Nat
            BY TextLemma
        <3>4. <<Quote>> \o t \in Text /\ Len(<<Quote>> \o t) = Len(<<Quote>>) + Len(t)
            BY <3>2, TextConcat
        <3>5. PICK q \in Text : q = <<Quote>> \o t /\ Len(q) = 1 + Len(t)
            BY <3>2, <3>4
        <3>6. Len(q) >= 1
            BY <3>3, <3>5
        <3> QED BY <3>5, <3>6
    <2>3. Unquoting(q)[2] \in Text
        <3>1. 2 \in 1 .. Len(q) + 1
            BY <2>2, TextLemma
        <3> QED BY <3>1, UnquotingLemma
    <2>4. <<>> \o Unquoting(q)[2] = Unquoting(q)[2]
        BY <2>3, TextLemma
    <2> QED BY <2>1, <2>2, <2>4 DEF Unquoted
<1>2. ASSUME NEW x \in Text, NEW u \in Units, x \in P PROVE x \o <<u>> \in P
    <2> SUFFICES ASSUME NEW t \in Text, t # <<>> PROVE Unquoted(x \o <<u>>, t)
        BY OneMore
    <2>1. Esc(u) \in Text /\ Len(Esc(u)) > 0
        BY EscLemma
    <2>2. Esc(u) \o t \in Text /\ Len(Esc(u) \o t) = Len(Esc(u)) + Len(t) /\ Len(t) \in Nat
        BY <2>1, TextConcat, TextLemma
    <2>3. Esc(u) \o t # <<>>
        BY <2>1, <2>2, TextLemma
    <2>4. Unquoted(x, Esc(u) \o t)
        BY <1>2, <2>2, <2>3
    <2> QED BY <2>4, UnquotedStep
<1> HIDE DEF P
<1>3. s \in P
    BY <1>1, <1>2, SeqInduction DEF Text
<1>4. PICK t \in Text : t = <<Quote>> /\ Len(t) = 1 /\ t # <<>>
    <2>1. Quote \in Units
        BY UnitsLemma DEF Quote
    <2> QED BY <2>1, TextLemma
<1>5. PICK a \in Text : a = Escaped(s)
    BY EscapedLemma
<1>6. PICK k \in Nat : k = Len(a)
    BY TextLemma
<1>7. PICK q \in Text : q = t \o (a \o t) /\ Len(q) = k + 2
    <2>1. a \o t \in Text /\ Len(a \o t) = Len(a) + Len(t)
        BY TextConcat
    <2>2. PICK at \in Text : at = a \o t /\ Len(at) = k + 1
        BY <1>4, <1>6, <2>1
    <2>3. t \o at \in Text /\ Len(t \o at) = Len(t) + Len(at)
        BY TextConcat
    <2>4. PICK q \in Text : q = t \o at /\ Len(q) = Len(t) + Len(at)
        BY <2>3
    <2>5. Len(q) = k + 2
        BY <1>4, <2>2, <2>4
    <2> QED BY <2>2, <2>4, <2>5
<1>8. Unquoting(q)[2] = s \o Unquoting(q)[2 + k]
    BY <1>3, <1>4, <1>5, <1>6, <1>7 DEF P, Unquoted
<1>9. Unquoting(q)[2 + k] = <<>>
    <2>1. 2 + k \in 1..Len(q) /\ 2 + k >= Len(q)
        BY <1>7
    <2>2. UnquoteAt(q, 2 + k) = <<>> /\ UnquoteTo(q, 2 + k) = Len(q) + 1
        BY <2>1 DEF UnquoteAt, UnquoteTo, Halts
    <2>3. Unquoting(q)[2 + k] = <<>> \o <<>>
        BY <2>1, <2>2, UnquotingLemma
    <2> QED BY <2>3, TextLemma
<1>10. s \o <<>> = s
    BY TextLemma
<1>11. (t \o a) \o t = t \o (a \o t)
    BY TextAssoc
<1> QED BY <1>4, <1>5, <1>7, <1>8, <1>9, <1>10, <1>11 DEF ServerReads, quote_string

-----------------------------------------------------------------------------
(* The parser of LIST lines: of a quoted line it takes what is behind the   *)
(* last quote of the escaped name.                                          *)

(* What is behind the last c of a tail, its last character aside.           *)
AfterLast(tail, c) ==
    SubSeq(tail, SelectLastInSubSeq(tail, 1, Len(tail) - 1, LAMBDA ch : ch = c) + 1, Len(tail))

(* What is behind the last c of two joined texts, if the first ends with c  *)
(* and the second has none.                                                 *)
LEMMA AfterLastLemma ==
    ASSUME NEW d \in Text, NEW w \in Text, NEW c, d # <<>>, d[Len(d)] = c, w # <<>>,
           \A k \in 1 .. Len(w) - 1 : w[k] # c
    PROVE  AfterLast(d \o w, c) = w
<1>1. PICK p \in Nat, m \in Nat : p = Len(d) /\ m = Len(w) /\ p > 0 /\ m > 0
    BY TextLemma
<1>2. PICK t \in Text : /\ t = d \o w /\ Len(t) = p + m
                        /\ (\A i \in 1..p : t[i] = d[i]) /\ (\A i \in 1..m : t[p + i] = w[i])
    <2>1. /\ d \o w \in Text /\ Len(d \o w) = Len(d) + Len(w)
          /\ \A i \in 1..Len(d) : (d \o w)[i] = d[i]
          /\ \A i \in 1..Len(w) : (d \o w)[Len(d) + i] = w[i]
        BY TextConcat
    <2> QED BY <1>1, <2>1
<1> DEFINE I == {i \in 1 .. Len(t) - 1 : t[i] = c}
<1>3. p \in I
    <2>1. p \in 1..p /\ p \in 1 .. (p + m) - 1
        BY <1>1
    <2> QED BY <1>1, <1>2, <2>1
<1>4. \A i \in I : p >= i
    <2> SUFFICES ASSUME NEW i \in 1 .. (p + m) - 1, t[i] = c, i > p PROVE FALSE
        BY <1>2
    <2>1. i - p \in 1 .. m - 1 /\ i - p \in 1..m /\ p + (i - p) = i
        BY <1>1
    <2>2. t[i] = w[i - p]
        BY <1>2, <2>1
    <2> QED BY <1>1, <2>1, <2>2
<1>5. Max(I) = p
    <2>1. \A x \in I : (\A y \in I : x >= y) => x = p
        <3>1. \A x \in I : x \in Nat
            BY <1>1, <1>2
        <3> HIDE DEF I
        <3> QED BY <1>1, <1>3, <1>4, <3>1
    <2> HIDE DEF I
    <2> QED BY <1>3, <1>4, <2>1 DEF Max
<1>6. SelectLastInSubSeq(t, 1, Len(t) - 1, LAMBDA ch : ch = c) = p
    <2>1. SelectLastInSubSeq(t, 1, Len(t) - 1, LAMBDA ch : ch = c) = IF I # {} THEN Max(I) ELSE 0
        BY DEF SelectLastInSubSeq
    <2> HIDE DEF I
    <2> QED BY <1>3, <1>5, <2>1
<1>7. AfterLast(t, c) = Part(t, p + 1, p + m)
    BY <1>2, <1>6 DEF AfterLast, Part
<1>8. Part(t, p + 1, p + m) = Part(w, 1, m)
    <2>1. PICK i \in Nat \ {0} : i = 1
        OBVIOUS
    <2>2. m <= Len(w)
        BY <1>1
    <2>3. Part(d \o w, Len(d) + i, Len(d) + m) = Part(w, i, m)
        BY <2>2, TextSubConcat
    <2> QED BY <1>1, <1>2, <2>1, <2>3
<1>9. Part(w, 1, m) = w
    BY <1>1, SubSeqFull DEF Part, Text
<1> QED BY <1>2, <1>7, <1>8, <1>9

(* Joining two texts between two others.                                    *)
LEMMA ConcatBetween ==
    \A q, c, b \in Text : (q \o (c \o b)) \o q = (q \o c) \o (b \o q)
<1> TAKE q, c, b \in Text
<1>1. q \o (c \o b) = (q \o c) \o b
    BY TextAssoc
<1>2. q \o c \in Text
    BY TextConcat
<1>3. ((q \o c) \o b) \o q = (q \o c) \o (b \o q)
    BY <1>2, TextAssoc
<1> QED BY <1>1, <1>3

(* b is what is behind the last quote of e.                                 *)
HasTail(e, b) ==
    /\ b \in Text /\ \A k \in 1..Len(b) : b[k] # Quote
    /\ \E c \in Text : e = c \o b /\ (c = <<>> \/ c[Len(c)] = Quote)

(* Text without a character to escape.                                      *)
Unescaped(w) == \A k \in 1..Len(w) : w[k] # Quote /\ w[k] # Escape

(* The characters of a line are units.                                      *)
LEMMA CharacterUnits == Gap \in Units /\ Quote \in Units /\ Escape \in Units
BY UnitsLemma DEF Gap, Quote, Escape

(* The parser takes this as the name.                                       *)
LEMMA ExtractQuoted ==
    ASSUME NEW raw \in Text, NEW b, HasTail(Escaped(raw), b)
    PROVE  extract_raw_list_mailbox([tail |-> <<Gap>> \o quote_string(raw), literal |-> <<>>]) = b
<1>1. PICK g \in Text, q \in Text : g = <<Gap>> /\ q = <<Quote>> /\ Len(g) = 1 /\ Len(q) = 1 /\ q[1] = Quote
    BY CharacterUnits, TextLemma
<1>2. \A x, y \in Text : g \o (x \o y) = (g \o x) \o y
    BY TextAssoc, ZenonT(60)
<1>3. \A x, y \in Text : (q \o (x \o y)) \o q = (q \o x) \o (y \o q)
    BY ConcatBetween
<1>4. PICK c \in Text : Escaped(raw) = c \o b /\ (c = <<>> \/ c[Len(c)] = Quote)
    BY DEF HasTail
<1>5. b \in Text /\ \A k \in 1..Len(b) : b[k] # Quote
    BY DEF HasTail
<1>6. PICK qc \in Text : qc = q \o c /\ qc # <<>> /\ qc[Len(qc)] = Quote
    <2>1. /\ q \o c \in Text /\ Len(q \o c) = Len(q) + Len(c)
          /\ \A i \in 1..Len(q) : (q \o c)[i] = q[i]
          /\ \A i \in 1..Len(c) : (q \o c)[Len(q) + i] = c[i]
        BY TextConcat
    <2>2. PICK k \in Nat : k = Len(c)
        BY TextLemma
    <2>3. PICK qc \in Text : qc = q \o c /\ Len(qc) = 1 + k /\ qc[1] = Quote /\ \A i \in 1..k : qc[1 + i] = c[i]
        <3>1. 1 \in 1..1
            OBVIOUS
        <3> QED BY <1>1, <2>1, <2>2, <3>1
    <2>4. qc # <<>>
        BY <2>3, TextLemma
    <2>5. qc[Len(qc)] = Quote
        <3>1. CASE k = 0
            BY <2>3, <3>1
        <3>2. CASE k # 0
            <4>1. k \in 1..k /\ c # <<>>
                BY <2>2, <3>2, TextLemma
            <4> QED BY <1>4, <2>2, <2>3, <4>1
        <3> QED BY <3>1, <3>2
    <2> QED BY <2>3, <2>4, <2>5
<1>7. PICK d \in Text : d = g \o qc /\ d # <<>> /\ d[Len(d)] = Quote
    <2>1. /\ g \o qc \in Text /\ Len(g \o qc) = Len(g) + Len(qc)
          /\ \A i \in 1..Len(qc) : (g \o qc)[Len(g) + i] = qc[i]
        BY TextConcat
    <2>2. PICK k \in Nat : k = Len(qc) /\ k > 0
        BY <1>6, TextLemma
    <2>3. PICK d \in Text : d = g \o qc /\ Len(d) = 1 + k /\ \A i \in 1..k : d[1 + i] = qc[i]
        BY <1>1, <2>1, <2>2
    <2>4. d # <<>>
        BY <2>3, TextLemma
    <2>5. k \in 1..k
        BY <2>2
    <2> QED BY <1>6, <2>2, <2>3, <2>4, <2>5
<1>8. PICK w \in Text : w = b \o q /\ w # <<>> /\ w[Len(w)] = Quote /\ Len(w) - 1 = Len(b)
                        /\ \A k \in 1..Len(b) : w[k] = b[k]
    <2>1. /\ b \o q \in Text /\ Len(b \o q) = Len(b) + Len(q)
          /\ \A i \in 1..Len(b) : (b \o q)[i] = b[i]
          /\ \A i \in 1..Len(q) : (b \o q)[Len(b) + i] = q[i]
        BY <1>5, TextConcat
    <2>2. PICK k \in Nat : k = Len(b)
        BY <1>5, TextLemma
    <2>3. PICK w \in Text : w = b \o q /\ Len(w) = k + 1 /\ w[k + 1] = Quote /\ \A i \in 1..k : w[i] = b[i]
        <3>1. 1 \in 1..1
            OBVIOUS
        <3> QED BY <1>1, <2>1, <2>2, <3>1
    <2>4. w # <<>>
        BY <2>3, TextLemma
    <2>5. Len(w) - 1 = k /\ Len(w) = k + 1
        BY <2>3
    <2> QED BY <2>2, <2>3, <2>4, <2>5
<1>9. <<Gap>> \o quote_string(raw) = d \o w
    <2>1. quote_string(raw) = (q \o (c \o b)) \o q
        BY <1>1, <1>4 DEF quote_string
    <2>2. (q \o (c \o b)) \o q = (q \o c) \o (b \o q)
        <3>1. c \o b \in Text /\ b \in Text
            BY <1>5, TextConcat
        <3> QED BY <1>3, <3>1
    <2>3. g \o (qc \o w) = (g \o qc) \o w
        BY <1>2
    <2> QED BY <1>1, <1>6, <1>7, <1>8, <2>1, <2>2, <2>3
<1> DEFINE line == [tail |-> <<Gap>> \o quote_string(raw), literal |-> <<>>]
           tail == d \o w
<1>10. line.tail = tail /\ line.literal = <<>>
    BY <1>9
<1>11. tail[Len(tail)] = Quote
    <2>1. d \o w \in Text /\ Len(d \o w) = Len(d) + Len(w)
          /\ \A i \in 1..Len(w) : (d \o w)[Len(d) + i] = w[i]
        BY TextConcat
    <2>2. Len(w) \in 1..Len(w)
        BY <1>8, TextLemma
    <2> QED BY <1>8, <2>1, <2>2
<1> HIDE DEF tail, line
<1>12. extract_raw_list_mailbox(line) = Front(AfterLast(tail, Quote))
    BY <1>10, <1>11 DEF extract_raw_list_mailbox, AfterLast
<1>13. AfterLast(tail, Quote) = w
    <2>1. \A k \in 1 .. Len(w) - 1 : w[k] # Quote
        BY <1>5, <1>8
    <2> QED BY <1>7, <1>8, <2>1, AfterLastLemma, ZenonT(40) DEF tail
<1>14. Front(w) = b
    <2>1. Part(b \o q, 1, Len(b)) = b
        BY <1>5, TextSubFirst
    <2> QED BY <1>8, <2>1 DEF Front, Part
<1> QED BY <1>12, <1>13, <1>14 DEF line

(* A bare word and a literal are taken as they are.                         *)
LEMMA ExtractPlain ==
    ASSUME NEW raw \in Text, raw # <<>>
    PROVE  /\ extract_raw_list_mailbox([tail |-> <<Gap>>, literal |-> raw]) = raw
           /\ IsAtom(raw) =>
                extract_raw_list_mailbox([tail |-> <<Gap>> \o raw, literal |-> <<>>]) = raw
<1>1. extract_raw_list_mailbox([tail |-> <<Gap>>, literal |-> raw]) = raw
    BY DEF extract_raw_list_mailbox
<1>2. ASSUME IsAtom(raw)
      PROVE  extract_raw_list_mailbox([tail |-> <<Gap>> \o raw, literal |-> <<>>]) = raw
    <2>1. PICK g \in Text : g = <<Gap>> /\ Len(g) = 1 /\ g[1] = Gap /\ g # <<>>
        BY CharacterUnits, TextLemma
    <2>2. \A k \in 1..Len(raw) : raw[k] # Gap /\ raw[k] # Quote
        BY <1>2 DEF IsAtom
    <2>3. PICK n \in Nat : n = Len(raw) /\ n > 0
        BY TextLemma
    <2> DEFINE tail == g \o raw
    <2>4. tail[Len(tail)] # Quote
        <3>1. tail \in Text /\ Len(tail) = Len(g) + Len(raw)
              /\ \A i \in 1..Len(raw) : tail[Len(g) + i] = raw[i]
            BY TextConcat
        <3>2. n \in 1..n
            BY <2>3
        <3>3. tail[1 + n] = raw[n]
            BY <2>1, <2>3, <3>1, <3>2
        <3> QED BY <2>1, <2>2, <2>3, <3>1, <3>2, <3>3
    <2>5. AfterLast(tail, Gap) = raw
        <3>1. \A k \in 1 .. Len(raw) - 1 : raw[k] # Gap
            BY <2>2, <2>3
        <3> QED BY <2>1, <3>1, AfterLastLemma, ZenonT(60)
    <2> DEFINE line == [tail |-> <<Gap>> \o raw, literal |-> <<>>]
    <2>6. line.tail = tail /\ line.literal = <<>>
        BY <2>1
    <2> HIDE DEF tail, line
    <2>7. extract_raw_list_mailbox(line) = AfterLast(tail, Gap)
        BY <2>4, <2>6 DEF extract_raw_list_mailbox, AfterLast
    <2> QED BY <2>5, <2>7 DEF line
<1> QED BY <1>1, <1>2

-----------------------------------------------------------------------------
(* What the parser takes of an escaped name: the end of a text, or the      *)
(* encoding of another name.                                                *)

(* Two texts without a character to escape, joined.                         *)
LEMMA UnescapedConcat ==
    ASSUME NEW s \in Text, NEW t \in Text, Unescaped(s), Unescaped(t)
    PROVE  Unescaped(s \o t)
<1>1. PICK n \in Nat, m \in Nat : n = Len(s) /\ m = Len(t)
    BY TextLemma
<1>2. /\ Len(s \o t) = Len(s) + Len(t)
      /\ \A i \in 1..Len(s) : (s \o t)[i] = s[i]
      /\ \A i \in 1..Len(t) : (s \o t)[Len(s) + i] = t[i]
    BY TextConcat
<1>3. ASSUME NEW k \in 1 .. n + m PROVE (s \o t)[k] # Quote /\ (s \o t)[k] # Escape
    <2>1. CASE k <= n
        <3>1. k \in 1..n
            BY <2>1
        <3> QED BY <1>1, <1>2, <3>1 DEF Unescaped
    <2>2. CASE k > n
        <3>1. k - n \in 1..m /\ n + (k - n) = k
            BY <2>2
        <3> QED BY <1>1, <1>2, <3>1 DEF Unescaped
    <2>3. k <= n \/ k > n
        OBVIOUS
    <2> QED BY <2>1, <2>2, <2>3
<1> QED BY <1>1, <1>2, <1>3 DEF Unescaped

(* A text of one such character.                                            *)
LEMMA UnescapedUnit ==
    \A u \in Units : u # Quote /\ u # Escape => Unescaped(<<u>>)
<1> TAKE u \in Units
<1>1. Len(<<u>>) = 1 /\ <<u>>[1] = u
    BY TextLemma
<1>2. \A k \in 1..1 : k = 1
    OBVIOUS
<1> QED BY <1>1, <1>2 DEF Unescaped

(* The empty text has no character to escape.                               *)
LEMMA UnescapedEmpty == Unescaped(<<>>)
BY TextLemma DEF Unescaped

(* A segment has no character to escape.                                    *)
LEMMA UnescapedSegment ==
    ASSUME NEW p \in Text
    PROVE  Unescaped(Segment(p))
<1>1. CASE p = <<>>
    BY <1>1, UnescapedEmpty DEF Segment
<1>2. CASE p # <<>>
    <2> DEFINE b == Bytes(p)
               t == encode_modified_base64(b)
    <2>1. b \in Seq(Octets)
        BY BytesLemma
    <2> HIDE DEF b
    <2>2. t \in Text /\ \A k \in 1..Len(t) : t[k] \in {Alphabet[d] : d \in Digits}
        BY <2>1, DigitsLemma
    <2>3. Segment(p) = (<<Ampersand>> \o t) \o <<Hyphen>>
        BY <1>2 DEF Segment, encode_utf16_segment, b
    <2> HIDE DEF t
    <2>4. \A k \in 1..Len(t) : t[k] # Quote /\ t[k] # Escape
        <3> TAKE k \in 1..Len(t)
        <3>1. PICK d \in Digits : t[k] = Alphabet[d]
            BY <2>2
        <3> QED BY <3>1, AlphabetLemma
    <2>5. Unescaped(t)
        BY <2>4 DEF Unescaped
    <2>6. Unescaped(<<Ampersand>>) /\ Unescaped(<<Hyphen>>)
        <3>1. Ampersand # Quote /\ Ampersand # Escape /\ Hyphen # Quote /\ Hyphen # Escape
            BY DEF Ampersand, Hyphen, Quote, Escape
        <3> QED BY <3>1, CharsLemma, UnescapedUnit
    <2>7. Unescaped(<<Ampersand>> \o t) /\ <<Ampersand>> \o t \in Text
        BY <2>2, <2>5, <2>6, CharsLemma, TextConcat, UnescapedConcat
    <2> QED BY <2>3, <2>6, <2>7, CharsLemma, UnescapedConcat
<1> QED BY <1>1, <1>2

(* Text without a character to escape is escaped as itself.                 *)
LEMMA EscapedPlain ==
    ASSUME NEW e \in Text, NEW w \in Text, Unescaped(w)
    PROVE  Escaped(e \o w) = Escaped(e) \o w
<1> DEFINE P == {s \in Text : Unescaped(s) => Escaped(e \o s) = Escaped(e) \o s}
<1>1. Escaped(e) \in Text
    BY EscapedLemma
<1>2. <<>> \in P
    BY <1>1, TextLemma
<1>3. ASSUME NEW s \in Text, NEW u \in Units, s \in P PROVE s \o <<u>> \in P
    <2>1. s \o <<u>> \in Text /\ <<u>> \in Text
        BY OneMore, TextLemma
    <2>2. ASSUME Unescaped(s \o <<u>>) PROVE Escaped(e \o (s \o <<u>>)) = Escaped(e) \o (s \o <<u>>)
        <3>1. PICK n \in Nat : n = Len(s)
            BY TextLemma
        <3>2. PICK t \in Text : t = s \o <<u>> /\ Len(t) = n + 1 /\ t[n + 1] = u /\ \A i \in 1..n : t[i] = s[i]
            BY <2>1, <3>1, OneMore
        <3>3. u # Quote /\ u # Escape
            <4>1. n + 1 \in 1 .. n + 1
                OBVIOUS
            <4> QED BY <2>2, <3>2, <4>1 DEF Unescaped
        <3>4. Unescaped(s)
            <4>1. \A k \in 1..n : k \in 1 .. n + 1
                OBVIOUS
            <4> QED BY <2>2, <3>1, <3>2, <4>1 DEF Unescaped
        <3>5. Escaped(e \o s) = Escaped(e) \o s
            BY <1>3, <3>4
        <3>6. e \o s \in Text
            BY TextConcat
        <3>7. e \o (s \o <<u>>) = (e \o s) \o <<u>>
            BY <2>1, TextAssoc
        <3>8. Escaped((e \o s) \o <<u>>) = Escaped(e \o s) \o <<u>>
            BY <3>3, <3>6, EscapedLemma DEF Esc
        <3>9. (Escaped(e) \o s) \o <<u>> = Escaped(e) \o (s \o <<u>>)
            BY <1>1, <2>1, TextAssoc, ZenonT(40)
        <3> QED BY <3>5, <3>8, <3>9, <3>7
    <2> QED BY <2>1, <2>2
<1> HIDE DEF P
<1>4. \A s \in Text : s \in P
    BY <1>2, <1>3, SeqInduction DEF Text
<1> QED BY <1>4 DEF P

(* The tail of nothing is empty.                                            *)
LEMMA TailEmpty == HasTail(<<>>, <<>>)
<1>1. <<>> \in Text /\ Len(<<>>) = 0 /\ <<>> = <<>> \o <<>>
    BY TextLemma
<1> QED BY <1>1 DEF HasTail

(* The tail goes on with text without a quote.                              *)
LEMMA TailSame ==
    ASSUME NEW e \in Text, NEW b \in Text, NEW w \in Text, HasTail(e, b),
           \A k \in 1..Len(w) : w[k] # Quote
    PROVE  HasTail(e \o w, b \o w)
<1>1. PICK c \in Text : e = c \o b /\ (c = <<>> \/ c[Len(c)] = Quote)
    BY DEF HasTail
<1>2. e \o w = c \o (b \o w)
    BY <1>1, TextAssoc
<1>3. PICK n \in Nat, m \in Nat : n = Len(b) /\ m = Len(w)
    BY TextLemma
<1>4. PICK t \in Text : /\ t = b \o w /\ Len(t) = n + m
                        /\ (\A i \in 1..n : t[i] = b[i]) /\ (\A i \in 1..m : t[n + i] = w[i])
    <2>1. /\ b \o w \in Text /\ Len(b \o w) = Len(b) + Len(w)
          /\ \A i \in 1..Len(b) : (b \o w)[i] = b[i]
          /\ \A i \in 1..Len(w) : (b \o w)[Len(b) + i] = w[i]
        BY TextConcat
    <2> QED BY <1>3, <2>1
<1>5. \A i \in 1..n : b[i] # Quote
    BY <1>3 DEF HasTail
<1>6. ASSUME NEW k \in 1 .. n + m PROVE t[k] # Quote
    <2>1. CASE k <= n
        <3>1. k \in 1..n
            BY <2>1
        <3> QED BY <1>4, <1>5, <3>1
    <2>2. CASE k > n
        <3>1. k - n \in 1..m /\ n + (k - n) = k
            BY <2>2
        <3>2. t[k] = w[k - n]
            BY <1>4, <3>1
        <3> QED BY <1>3, <3>1, <3>2
    <2> QED BY <2>1, <2>2
<1> QED BY <1>1, <1>2, <1>4, <1>6 DEF HasTail

(* Behind an escaped quote the tail is empty.                               *)
LEMMA TailQuote ==
    ASSUME NEW e \in Text
    PROVE  HasTail(e \o Esc(Quote), <<>>)
<1>1. PICK q \in Text : q = Esc(Quote) /\ Len(q) = 2 /\ q[2] = Quote
    BY CharacterUnits, EscLemma
<1>2. PICK n \in Nat : n = Len(e)
    BY TextLemma
<1>3. PICK c \in Text : c = e \o q /\ Len(c) = n + 2 /\ c[n + 2] = Quote
    <2>1. e \o q \in Text /\ Len(e \o q) = Len(e) + Len(q) /\ \A i \in 1..Len(q) : (e \o q)[Len(e) + i] = q[i]
        BY TextConcat
    <2>2. 2 \in 1..2
        OBVIOUS
    <2> QED BY <1>1, <1>2, <2>1, <2>2
<1>4. <<>> \in Text /\ Len(<<>>) = 0 /\ c = c \o <<>>
    BY TextLemma
<1>5. c[Len(c)] = Quote
    BY <1>3
<1>6. \A k \in 1..Len(<<>>) : <<>>[k] # Quote
    <2>1. \A k \in 1..0 : FALSE
        OBVIOUS
    <2> QED BY <1>4, <2>1
<1>7. \E d \in Text : e \o q = d \o <<>> /\ (d = <<>> \/ d[Len(d)] = Quote)
    BY <1>3, <1>4, <1>5
<1> QED BY <1>1, <1>4, <1>6, <1>7 DEF HasTail

(* How the tail goes on with one more character.                            *)
LEMMA TailStep ==
    ASSUME NEW e \in Text, NEW b \in Text, NEW u \in Units, HasTail(e, b)
    PROVE  /\ u = Quote => HasTail(e \o Esc(u), <<>>)
           /\ u = Escape => HasTail(e \o Esc(u), (b \o <<u>>) \o <<u>>)
           /\ u # Quote /\ u # Escape => HasTail(e \o Esc(u), b \o <<u>>)
<1>1. <<u>> \in Text /\ Len(<<u>>) = 1 /\ <<u>>[1] = u
    BY TextLemma
<1>2. u # Quote => \A k \in 1..Len(<<u>>) : <<u>>[k] # Quote
    <2>1. \A k \in 1..1 : k = 1
        OBVIOUS
    <2> QED BY <1>1, <2>1
<1>3. u # Quote => HasTail(e \o <<u>>, b \o <<u>>) /\ e \o <<u>> \in Text /\ b \o <<u>> \in Text
    BY <1>1, <1>2, TailSame, TextConcat
<1>4. u # Quote => HasTail((e \o <<u>>) \o <<u>>, (b \o <<u>>) \o <<u>>)
    BY <1>1, <1>2, <1>3, TailSame
<1>5. ASSUME u = Escape PROVE e \o Esc(u) = (e \o <<u>>) \o <<u>> /\ u # Quote
    <2>1. Esc(u) = <<u>> \o <<u>>
        BY <1>5 DEF Esc
    <2>2. (e \o <<u>>) \o <<u>> = e \o (<<u>> \o <<u>>)
        BY <1>1, TextAssoc
    <2>3. u # Quote
        BY <1>5 DEF Quote, Escape
    <2> QED BY <2>1, <2>2, <2>3
<1>6. u # Quote /\ u # Escape => Esc(u) = <<u>>
    BY DEF Esc
<1> QED BY <1>3, <1>4, <1>5, <1>6, TailQuote

(* Any raw name: what the parser takes of it is text if the raw name is.    *)
LEMMA ListedRaw ==
    ASSUME NEW raw, IsText(raw)
    PROVE  \E b : IsText(b) /\ HasTail(Escaped(raw), b)
<1> DEFINE Q(s) == \E b \in Text : HasTail(Escaped(s), b) /\ Half(b) /\ (EndsHigh(s) <=> EndsHigh(b))
           P == {s \in Text : Half(s) => Q(s)}
<1>1. <<>> \in P
    BY EscapedEmpty, TailEmpty, HalfEmpty, TextLemma
<1>2. ASSUME NEW s \in Text, NEW u \in Units, s \in P PROVE s \o <<u>> \in P
    <2> SUFFICES ASSUME Half(s \o <<u>>) PROVE Q(s \o <<u>>)
        BY OneMore
    <2>1. Half(s) /\ (u \in Low <=> EndsHigh(s)) /\ (EndsHigh(s \o <<u>>) <=> u \in High)
        BY HalfStep
    <2>2. PICK b \in Text : HasTail(Escaped(s), b) /\ Half(b) /\ (EndsHigh(s) <=> EndsHigh(b))
        BY <1>2, <2>1
    <2>3. PICK e \in Text : e = Escaped(s) /\ Escaped(s \o <<u>>) = e \o Esc(u)
        BY EscapedLemma
    <2>4. b \o <<u>> \in Text /\ Half(b \o <<u>>) /\ (EndsHigh(b \o <<u>>) <=> u \in High)
        BY <2>1, <2>2, HalfStep, OneMore
    <2>5. u = Quote \/ u = Escape => u \notin High /\ u \notin Low
        BY SMTT(20) DEF Quote, Escape, High, Low
    <2>6. CASE u = Quote
        BY <2>1, <2>2, <2>3, <2>5, <2>6, TailStep, HalfEmpty, TextLemma
    <2>7. CASE u = Escape
        <3>1. (b \o <<u>>) \o <<u>> \in Text
            BY <2>4, OneMore
        <3>2. Half((b \o <<u>>) \o <<u>>) /\ ~EndsHigh((b \o <<u>>) \o <<u>>)
            BY <2>4, <2>5, <2>7, HalfStep
        <3>3. HasTail(e \o Esc(u), (b \o <<u>>) \o <<u>>)
            BY <2>2, <2>3, <2>7, TailStep
        <3> QED BY <2>1, <2>3, <2>5, <2>7, <3>1, <3>2, <3>3
    <2>8. CASE u # Quote /\ u # Escape
        <3>1. HasTail(e \o Esc(u), b \o <<u>>)
            BY <2>2, <2>3, <2>8, TailStep
        <3> QED BY <2>1, <2>3, <2>4, <3>1
    <2> QED BY <2>6, <2>7, <2>8
<1>3. \A s \in Text : s \in P
    <2> HIDE DEF P
    <2> QED BY <1>1, <1>2, SeqInduction DEF Text
<1>4. raw \in Text /\ Half(raw) /\ ~EndsHigh(raw)
    BY PairedIsHalf DEF IsText, Text
<1>5. PICK b \in Text : HasTail(Escaped(raw), b) /\ Half(b) /\ ~EndsHigh(b)
    BY <1>3, <1>4
<1>6. IsText(b)
    BY <1>5, PairedIsHalf DEF IsText, Text
<1> QED BY <1>5, <1>6

(* The encoder of a name and of what the parser takes of its raw name.      *)
Follows(s, b) ==
    /\ State(b).pending = State(s).pending
    /\ HasTail(Escaped(State(s).encoded), State(b).encoded)

(* One more unit of the name: a quote empties what the parser takes, a      *)
(* backslash is taken twice, any other unit once.                           *)
LEMMA FollowsStep ==
    ASSUME NEW s \in Text, NEW b \in Text, NEW u \in Units, Follows(s, b)
    PROVE  /\ u = Quote => Follows(s \o <<u>>, <<>>)
           /\ u = Escape => Follows(s \o <<u>>, (b \o <<u>>) \o <<u>>)
           /\ u # Quote /\ u # Escape => Follows(s \o <<u>>, b \o <<u>>)
<1>1. PICK e \in Text, p \in Text : e = State(s).encoded /\ p = State(s).pending
    BY StateLemma
<1>2. PICK f \in Text : f = State(b).encoded /\ p = State(b).pending /\ HasTail(Escaped(e), f)
    BY <1>1, StateLemma DEF Follows
<1>3. State(s) \in EncoderStates /\ State(s \o <<u>>) = EncodeUnit(State(s), u)
    BY StateLemma, StateStep
<1>4. State(b) \in EncoderStates /\ State(b \o <<u>>) = EncodeUnit(State(b), u) /\ b \o <<u>> \in Text
    BY StateLemma, StateStep, OneMore
<1>5. PICK g \in Text : g = Segment(p) /\ Unescaped(g)
    BY SegmentText, UnescapedSegment
<1>6. e \o g \in Text /\ f \o g \in Text
    BY TextConcat
<1>7. HasTail(Escaped(e \o g), f \o g)
    <2>1. Escaped(e \o g) = Escaped(e) \o g /\ Escaped(e) \in Text
        BY <1>5, EscapedPlain, EscapedLemma
    <2>2. \A k \in 1..Len(g) : g[k] # Quote
        BY <1>5 DEF Unescaped
    <2> QED BY <1>2, <2>1, <2>2, TailSame
<1>8. CASE Waits(u)
    <2>1. State(s \o <<u>>).encoded = e /\ State(s \o <<u>>).pending = p \o <<u>>
        BY <1>1, <1>3, <1>8, EncodeUnitLemma
    <2>2. State(b \o <<u>>).encoded = f /\ State(b \o <<u>>).pending = p \o <<u>>
        BY <1>2, <1>4, <1>8, EncodeUnitLemma
    <2>3. u # Quote /\ u # Escape
        BY <1>8 DEF Waits, IsDirect, Quote, Escape, Ampersand
    <2> QED BY <1>2, <2>1, <2>2, <2>3 DEF Follows
<1>9. CASE ~Waits(u)
    <2>1. State(s \o <<u>>).encoded = (e \o g) \o Chars(u) /\ State(s \o <<u>>).pending = <<>>
        BY <1>1, <1>3, <1>5, <1>9, EncodeUnitLemma
    <2>2. State(b \o <<u>>).encoded = (f \o g) \o Chars(u) /\ State(b \o <<u>>).pending = <<>>
        BY <1>2, <1>4, <1>5, <1>9, EncodeUnitLemma
    <2>3. u = Quote \/ u = Escape => Chars(u) = <<u>>
        BY DEF Chars, IsDirect, Quote, Escape, Ampersand
    <2>4. Escaped((e \o g) \o <<u>>) = Escaped(e \o g) \o Esc(u) /\ Escaped(e \o g) \in Text
        BY <1>6, EscapedLemma
    <2>5. CASE u = Quote
        <3>1. HasTail(Escaped(e \o g) \o Esc(u), <<>>)
            BY <1>6, <1>7, <2>4, <2>5, TailStep
        <3>2. State(s \o <<u>>).encoded = (e \o g) \o <<u>>
            BY <2>1, <2>3, <2>5
        <3>3. HasTail(Escaped(State(s \o <<u>>).encoded), <<>>)
            BY <2>4, <3>1, <3>2
        <3>4. u # Escape
            BY <2>5 DEF Quote, Escape
        <3> QED BY <2>1, <2>5, <3>3, <3>4, StateEmpty DEF Follows
    <2>6. CASE u = Escape
        <3>1. HasTail(Escaped(e \o g) \o Esc(u), ((f \o g) \o <<u>>) \o <<u>>)
            BY <1>6, <1>7, <2>4, <2>6, TailStep
        <3>2. PICK h \in Text : h = (f \o g) \o <<u>>
            BY <1>6, OneMore
        <3>3. State((b \o <<u>>) \o <<u>>) = EncodeUnit(State(b \o <<u>>), u) /\ State(b \o <<u>>) \in EncoderStates
            BY <1>4, StateStep, StateLemma
        <3>4. State((b \o <<u>>) \o <<u>>).encoded = (h \o Segment(<<>>)) \o <<u>>
              /\ State((b \o <<u>>) \o <<u>>).pending = <<>>
            <4>1. State(b \o <<u>>).encoded = h /\ State(b \o <<u>>).pending = <<>>
                BY <2>2, <2>3, <2>6, <3>2
            <4>2. PICK st \in EncoderStates : st = State(b \o <<u>>)
                BY <3>3
            <4>3. /\ EncodeUnit(st, u).encoded = (st.encoded \o Segment(st.pending)) \o Chars(u)
                  /\ EncodeUnit(st, u).pending = <<>>
                BY <1>9, EncodeUnitLemma
            <4> QED BY <2>3, <2>6, <3>3, <4>1, <4>2, <4>3
        <3>5. h \o Segment(<<>>) = h
            BY TextLemma DEF Segment
        <3>6. State(s \o <<u>>).encoded = (e \o g) \o <<u>>
            BY <2>1, <2>3, <2>6
        <3>7. State((b \o <<u>>) \o <<u>>).encoded = ((f \o g) \o <<u>>) \o <<u>>
            BY <3>2, <3>4, <3>5
        <3>8. HasTail(Escaped(State(s \o <<u>>).encoded), State((b \o <<u>>) \o <<u>>).encoded)
            BY <2>4, <3>1, <3>6, <3>7
        <3>9. u # Quote
            BY <2>6 DEF Quote, Escape
        <3> QED BY <2>1, <2>6, <3>4, <3>8, <3>9 DEF Follows
    <2>7. CASE u # Quote /\ u # Escape
        <3>1. Unescaped(Chars(u)) /\ Chars(u) \in Text
            <4>1. Unescaped(<<u>>) /\ Unescaped(<<Ampersand>>) /\ Unescaped(<<Hyphen>>)
                BY <2>7, UnescapedUnit, CharsLemma DEF Ampersand, Hyphen, Quote, Escape
            <4> QED BY <4>1, UnescapedConcat, CharsLemma DEF Chars
        <3>2. Escaped((e \o g) \o Chars(u)) = Escaped(e \o g) \o Chars(u)
            BY <1>6, <3>1, EscapedPlain
        <3>3. \A k \in 1..Len(Chars(u)) : Chars(u)[k] # Quote
            BY <3>1 DEF Unescaped
        <3>4. HasTail(Escaped(e \o g) \o Chars(u), (f \o g) \o Chars(u))
            BY <1>6, <1>7, <2>4, <3>1, <3>3, TailSame
        <3> QED BY <2>1, <2>2, <2>7, <3>2, <3>4 DEF Follows
    <2> QED BY <2>5, <2>6, <2>7
<1> QED BY <1>8, <1>9

(* A raw name that was encoded: the parser takes the encoding of a name.    *)
LEMMA ListedEncoded ==
    ASSUME NEW s, IsText(s)
    PROVE  \E b : IsText(b) /\ HasTail(Escaped(encode_imap_utf7(s)), encode_imap_utf7(b))
<1> DEFINE Q(t) == \E b \in Text : Follows(t, b) /\ Half(b) /\ (EndsHigh(t) <=> EndsHigh(b))
           P == {t \in Text : Half(t) => Q(t)}
<1>1. <<>> \in P
    <2>1. Follows(<<>>, <<>>)
        BY StateEmpty, EscapedEmpty, TailEmpty DEF Follows
    <2> QED BY <2>1, HalfEmpty, TextLemma
<1>2. ASSUME NEW t \in Text, NEW u \in Units, t \in P PROVE t \o <<u>> \in P
    <2> SUFFICES ASSUME Half(t \o <<u>>) PROVE Q(t \o <<u>>)
        BY OneMore
    <2>1. Half(t) /\ (u \in Low <=> EndsHigh(t)) /\ (EndsHigh(t \o <<u>>) <=> u \in High)
        BY HalfStep
    <2>2. PICK b \in Text : Follows(t, b) /\ Half(b) /\ (EndsHigh(t) <=> EndsHigh(b))
        BY <1>2, <2>1
    <2>3. b \o <<u>> \in Text /\ Half(b \o <<u>>) /\ (EndsHigh(b \o <<u>>) <=> u \in High)
        BY <2>1, <2>2, HalfStep, OneMore
    <2>4. u = Quote \/ u = Escape => u \notin High /\ u \notin Low
        BY SMTT(20) DEF Quote, Escape, High, Low
    <2>5. CASE u = Quote
        <3>1. Follows(t \o <<u>>, <<>>)
            BY <2>2, <2>5, FollowsStep
        <3> QED BY <2>1, <2>4, <2>5, <3>1, HalfEmpty, TextLemma
    <2>6. CASE u = Escape
        <3>1. (b \o <<u>>) \o <<u>> \in Text
            BY <2>3, OneMore
        <3>2. Half((b \o <<u>>) \o <<u>>) /\ ~EndsHigh((b \o <<u>>) \o <<u>>)
            BY <2>3, <2>4, <2>6, HalfStep
        <3>3. Follows(t \o <<u>>, (b \o <<u>>) \o <<u>>)
            BY <2>2, <2>6, FollowsStep
        <3> QED BY <2>1, <2>4, <2>6, <3>1, <3>2, <3>3
    <2>7. CASE u # Quote /\ u # Escape
        <3>1. Follows(t \o <<u>>, b \o <<u>>)
            BY <2>2, <2>7, FollowsStep
        <3> QED BY <2>1, <2>3, <3>1
    <2> QED BY <2>5, <2>6, <2>7
<1>3. \A t \in Text : t \in P
    <2> HIDE DEF P
    <2> QED BY <1>1, <1>2, SeqInduction DEF Text
<1>4. s \in Text /\ Half(s) /\ ~EndsHigh(s)
    BY PairedIsHalf DEF IsText, Text
<1>5. PICK b \in Text : Follows(s, b) /\ Half(b) /\ ~EndsHigh(b)
    BY <1>3, <1>4
<1>6. IsText(b)
    BY <1>5, PairedIsHalf DEF IsText, Text
<1>7. PICK e \in Text, f \in Text, p \in Text :
          e = State(s).encoded /\ p = State(s).pending /\ f = State(b).encoded /\ p = State(b).pending
    BY <1>4, <1>5, StateLemma DEF Follows
<1>8. encode_imap_utf7(s) = e \o Segment(p) /\ encode_imap_utf7(b) = f \o Segment(p)
    BY <1>7 DEF encode_imap_utf7, Flushed, Segment, State
<1>9. PICK g \in Text : g = Segment(p) /\ Unescaped(g)
    BY SegmentText, UnescapedSegment
<1>10. HasTail(Escaped(e \o g), f \o g)
    <2>1. Escaped(e \o g) = Escaped(e) \o g /\ Escaped(e) \in Text
        BY <1>9, EscapedPlain, EscapedLemma
    <2>2. \A k \in 1..Len(g) : g[k] # Quote
        BY <1>9 DEF Unescaped
    <2>3. HasTail(Escaped(e), f)
        BY <1>5, <1>7 DEF Follows
    <2> QED BY <2>1, <2>2, <2>3, TailSame
<1> QED BY <1>6, <1>8, <1>9, <1>10

(* A raw name without a character to escape is taken as it is.              *)
LEMMA ListedPlain ==
    ASSUME NEW raw \in Text, ~IsEscaped(raw)
    PROVE  HasTail(Escaped(raw), raw)
<1>1. Unescaped(raw)
    BY DEF Unescaped, IsEscaped, ToSet
<1>2. <<>> \in Text /\ <<>> \o raw = raw
    BY TextLemma
<1>3. Escaped(<<>> \o raw) = Escaped(<<>>) \o raw
    BY <1>1, <1>2, EscapedPlain
<1>4. Escaped(raw) = raw
    BY <1>2, <1>3, EscapedEmpty
<1>5. \A k \in 1..Len(raw) : raw[k] # Quote
    BY <1>1 DEF Unescaped
<1> QED BY <1>2, <1>4, <1>5 DEF HasTail

-----------------------------------------------------------------------------
(* What is decoded is a text again, without half surrogates.                *)

(* Two texts with their surrogates paired, joined.                          *)
LEMMA PairedConcat ==
    ASSUME NEW s \in Text, NEW t \in Text, Paired(s), Paired(t)
    PROVE  Paired(s \o t)
<1>1. PICK n \in Nat, m \in Nat : n = Len(s) /\ m = Len(t)
    BY TextLemma
<1>2. PICK x : /\ x = s \o t /\ Len(x) = n + m
               /\ (\A i \in 1..n : x[i] = s[i]) /\ (\A i \in 1..m : x[n + i] = t[i])
    <2>1. /\ s \o t \in Text /\ Len(s \o t) = Len(s) + Len(t)
          /\ \A i \in 1..Len(s) : (s \o t)[i] = s[i]
          /\ \A i \in 1..Len(t) : (s \o t)[Len(s) + i] = t[i]
        BY TextConcat
    <2> QED BY <1>1, <2>1
<1>3. \A i \in 1..n : /\ s[i] \in High => i < n /\ s[i + 1] \in Low
                      /\ s[i] \in Low => i > 1 /\ s[i - 1] \in High
    BY <1>1 DEF Paired
<1>4. \A i \in 1..m : /\ t[i] \in High => i < m /\ t[i + 1] \in Low
                      /\ t[i] \in Low => i > 1 /\ t[i - 1] \in High
    BY <1>1 DEF Paired
<1>5. ASSUME NEW i \in 1 .. n + m
      PROVE  /\ x[i] \in High => i < n + m /\ x[i + 1] \in Low
             /\ x[i] \in Low => i > 1 /\ x[i - 1] \in High
    <2>1. CASE i <= n
        <3>1. i \in 1..n /\ (i < n => i + 1 \in 1..n /\ i < n + m) /\ (i > 1 => i - 1 \in 1..n)
            BY <2>1
        <3> QED BY <1>2, <1>3, <3>1
    <2>2. CASE i > n
        <3>1. PICK j \in 1..m : i = n + j
            <4>1. i - n \in 1..m /\ i = n + (i - n)
                BY <2>2
            <4> QED BY <4>1
        <3>2. (j < m => j + 1 \in 1..m /\ i + 1 = n + (j + 1) /\ i < n + m)
              /\ (j > 1 => j - 1 \in 1..m /\ i - 1 = n + (j - 1) /\ i > 1)
            BY <3>1
        <3> QED BY <1>2, <1>4, <3>1, <3>2
    <2>3. i <= n \/ i > n
        OBVIOUS
    <2> QED BY <2>1, <2>2, <2>3
<1> QED BY <1>2, <1>5 DEF Paired

(* A part of such a text that does not begin or end within a pair.          *)
LEMMA PairedSub ==
    ASSUME NEW s \in Text, Paired(s), NEW i \in Nat \ {0}, NEW j \in Nat, j <= Len(s),
           i <= j => s[i] \notin Low, i <= j => s[j] \notin High
    PROVE  Paired(Part(s, i, j))
<1>1. CASE i > j
    <2>1. Len(Part(s, i, j)) = 0
        BY <1>1, TextSub
    <2>2. \A k \in 1..0 : FALSE
        OBVIOUS
    <2> QED BY <2>1, <2>2 DEF Paired
<1>2. CASE i <= j
    <2>1. PICK n \in Nat : n = Len(s)
        BY TextLemma
    <2>2. PICK x : x = Part(s, i, j) /\ Len(x) = j - i + 1 /\ \A k \in 1 .. j - i + 1 : x[k] = s[i + k - 1]
        <3>1. /\ Len(Part(s, i, j)) = IF i <= j THEN j - i + 1 ELSE 0
              /\ \A k \in 1 .. j - i + 1 : Part(s, i, j)[k] = s[i + k - 1]
            BY TextSub
        <3> QED BY <1>2, <3>1
    <2>3. \A k \in 1..n : /\ s[k] \in High => k < n /\ s[k + 1] \in Low
                          /\ s[k] \in Low => k > 1 /\ s[k - 1] \in High
        BY <2>1 DEF Paired
    <2>4. ASSUME NEW k \in 1 .. j - i + 1
          PROVE  /\ x[k] \in High => k < j - i + 1 /\ x[k + 1] \in Low
                 /\ x[k] \in Low => k > 1 /\ x[k - 1] \in High
        <3>1. PICK d \in 1..n : d = i + k - 1
            BY <2>1
        <3>2. x[k] = s[d]
            BY <2>2, <3>1
        <3>3. d = j \/ (k < j - i + 1 /\ k + 1 \in 1 .. j - i + 1 /\ i + (k + 1) - 1 = d + 1)
            BY <3>1
        <3>4. d = i \/ (k > 1 /\ k - 1 \in 1 .. j - i + 1 /\ i + (k - 1) - 1 = d - 1)
            BY <3>1
        <3>5. x[k] \in High => k < j - i + 1 /\ x[k + 1] \in Low
            BY <1>2, <2>2, <2>3, <3>2, <3>3
        <3>6. x[k] \in Low => k > 1 /\ x[k - 1] \in High
            BY <1>2, <2>2, <2>3, <3>2, <3>4
        <3> QED BY <3>5, <3>6
    <2> QED BY <2>2, <2>4 DEF Paired
<1>3. i > j \/ i <= j
    OBVIOUS
<1> QED BY <1>1, <1>2, <1>3

(* A unit that is no surrogate, and a pair.                                 *)
LEMMA PairedUnits ==
    /\ \A u \in Units : u \notin High /\ u \notin Low => Paired(<<u>>)
    /\ \A h \in High, l \in Low : Paired(<<h>> \o <<l>>) /\ <<h>> \o <<l>> \in Text
<1>1. ASSUME NEW u \in Units, u \notin High, u \notin Low PROVE Paired(<<u>>)
    <2>1. Len(<<u>>) = 1 /\ <<u>>[1] = u /\ \A k \in 1..1 : k = 1
        BY TextLemma
    <2> QED BY <1>1, <2>1 DEF Paired
<1>2. ASSUME NEW h \in High, NEW l \in Low PROVE Paired(<<h>> \o <<l>>) /\ <<h>> \o <<l>> \in Text
    <2>1. h \in Units /\ l \in Units
        BY SurrogatesLemma
    <2>2. PICK s \in Text : s = <<h>>
        BY <2>1, TextLemma
    <2>3. <<>> \in Text /\ <<>> \o <<h>> = <<h>>
        BY <2>2, TextLemma
    <2>4. Half(<<h>>) /\ EndsHigh(<<h>>)
        <3>1. /\ Half(<<>> \o <<h>>) <=> Half(<<>>) /\ (h \in Low <=> EndsHigh(<<>>))
              /\ EndsHigh(<<>> \o <<h>>) <=> h \in High
            BY <2>1, <2>3, HalfStep
        <3> QED BY <2>3, <3>1, HalfEmpty, SurrogatesLemma
    <2>5. Half(s \o <<l>>) /\ ~EndsHigh(s \o <<l>>) /\ s \o <<l>> \in Text
        <3>1. l \notin High
            BY SurrogatesLemma
        <3>2. s \o <<l>> \in Text
            BY <2>1, OneMore
        <3> QED BY <2>1, <2>2, <2>4, <3>1, <3>2, HalfStep
    <2> QED BY <2>2, <2>5, PairedIsHalf
<1> QED BY <1>1, <1>2

(* The decoding does not part the halves of a pair.                         *)
LEMMA DecodeIsText ==
    ASSUME NEW raw, IsText(raw)
    PROVE  decode_imap_utf7(raw) \in Text /\ IsText(decode_imap_utf7(raw))
<1>1. raw \in Text /\ Paired(raw)
    BY DEF IsText, Text
<1>2. PICK n \in Nat : n = Len(raw)
    BY <1>1, TextLemma
<1> DEFINE f == Reading(raw)
           Starts(i) == i = n + 1 \/ raw[i] \notin Low
           C(i) == Starts(i) => Paired(f[i])
           P == {k \in Nat : k <= n => C(n + 1 - k)}
<1>3. /\ \A i \in 1 .. n + 1 : f[i] \in Text
      /\ f[n + 1] = <<>>
      /\ \A i \in 1..n : f[i] = ReadAt(raw, i) \o f[ReadTo(raw, i)]
    BY <1>1, <1>2, ReadingLemma
<1>4. \A i \in 1..n : ReadAt(raw, i) \in Text /\ ReadTo(raw, i) \in i + 1 .. n + 1
    BY <1>1, <1>2, ReadLemma
<1>5. \A i \in 1..n : /\ raw[i] \in Units
                      /\ raw[i] \in High => i + 1 \in 1..n /\ raw[i + 1] \in Low
                      /\ raw[i] \notin High => i + 1 = n + 1 \/ raw[i + 1] \notin Low
    <2> TAKE i \in 1..n
    <2>1. raw[i] \in Units
        BY <1>1, <1>2, TextLemma
    <2>2. raw[i] \in High => i < n /\ raw[i + 1] \in Low
        BY <1>1, <1>2 DEF Paired
    <2>3. i < n => i + 1 \in 1..n
        OBVIOUS
    <2>4. i + 1 \in 1..n => (raw[i + 1] \in Low => raw[(i + 1) - 1] \in High)
        BY <1>1, <1>2 DEF Paired
    <2>5. (i + 1) - 1 = i /\ (i + 1 \in 1..n \/ i + 1 = n + 1)
        OBVIOUS
    <2> QED BY <2>1, <2>2, <2>3, <2>4, <2>5
<1> HIDE DEF f
<1>6. ASSUME NEW i \in 1..n, \A j \in i + 1 .. n + 1 : C(j), Starts(i)
      PROVE  Paired(f[i])
    <2> DEFINE to == ReadTo(raw, i)
    <2>1. raw[i] \notin Low
        BY <1>6
    <2>2. to \in i + 1 .. n + 1 /\ to \in 1 .. n + 1 /\ f[to] \in Text
        BY <1>3, <1>4
    <2>3. ASSUME Paired(ReadAt(raw, i)), Starts(to) PROVE Paired(f[i])
        <3>1. Paired(f[to])
            BY <1>6, <2>2, <2>3
        <3>2. ReadAt(raw, i) \in Text /\ f[i] = ReadAt(raw, i) \o f[to]
            BY <1>3, <1>4
        <3> HIDE DEF to
        <3> QED BY <2>2, <2>3, <3>1, <3>2, PairedConcat
    <2>4. CASE raw[i] # Ampersand /\ raw[i] \notin High
        <3>1. ReadAt(raw, i) = <<raw[i]>> /\ to = i + 1
            BY <2>4 DEF ReadAt, ReadTo
        <3>2. Paired(<<raw[i]>>)
            BY <1>5, <2>1, <2>4, PairedUnits
        <3> QED BY <1>5, <2>3, <2>4, <3>1, <3>2
    <2>5. CASE raw[i] \in High
        <3>1. PICK j \in 1..n : j = i + 1 /\ raw[j] \in Low
            BY <1>5, <2>5
        <3>2. raw[i] # Ampersand /\ raw[j] # Ampersand /\ raw[j] \notin High
            <4>1. Ampersand \notin High /\ Ampersand \notin Low
                BY DEF Ampersand, High, Low
            <4> QED BY <2>5, <3>1, <4>1, SurrogatesLemma
        <3>3. f[i] = <<raw[i]>> \o f[j]
            BY <1>3, <3>1, <3>2 DEF ReadAt, ReadTo
        <3>4. PICK k \in 1 .. n + 1 : k = j + 1 /\ k \in i + 1 .. n + 1
            BY <3>1
        <3>5. f[j] = <<raw[j]>> \o f[k]
            BY <1>3, <3>2, <3>4 DEF ReadAt, ReadTo
        <3>6. Paired(f[k]) /\ f[k] \in Text
            BY <1>3, <1>5, <1>6, <3>2, <3>4
        <3>7. <<raw[i]>> \in Text /\ <<raw[j]>> \in Text
            BY <1>5, TextLemma
        <3>8. f[i] = (<<raw[i]>> \o <<raw[j]>>) \o f[k]
            BY <3>3, <3>5, <3>6, <3>7, TextAssoc, SMTT(20)
        <3>9. Paired(<<raw[i]>> \o <<raw[j]>>) /\ <<raw[i]>> \o <<raw[j]>> \in Text
            BY <2>5, <3>1, PairedUnits
        <3> QED BY <3>6, <3>8, <3>9, PairedConcat
    <2>6. CASE raw[i] = Ampersand /\ EndOf(raw, i) = 0
        <3>1. ReadAt(raw, i) = Part(raw, i, n) /\ to = n + 1
            BY <1>2, <2>6 DEF ReadAt, ReadTo, Part
        <3>2. n \in 1..n /\ raw[n] \notin High
            <4>1. n \in 1..n /\ ~(n + 1 \in 1..n)
                OBVIOUS
            <4> QED BY <1>5, <4>1
        <3>3. Paired(Part(raw, i, n))
            <4>1. i \in Nat \ {0} /\ n <= Len(raw)
                BY <1>2
            <4> QED BY <1>1, <2>1, <3>2, <4>1, PairedSub
        <3> QED BY <2>3, <3>1, <3>3
    <2>7. CASE raw[i] = Ampersand /\ EndOf(raw, i) # 0
        <3>1. PICK e \in i..n : e = EndOf(raw, i) /\ raw[e] = Hyphen
            BY <1>1, <1>2, <2>7, EndOfLemma
        <3>2. Ampersand \notin High /\ Ampersand \notin Low /\ Hyphen \notin High /\ Hyphen \notin Low
              /\ Ampersand # Hyphen
            BY DEF Ampersand, Hyphen, High, Low
        <3>3. PICK a \in Nat \ {0}, b \in Nat : a = i + 1 /\ b = e - 1 /\ b <= n /\ b <= Len(raw)
            <4>1. i + 1 \in Nat \ {0} /\ e - 1 \in Nat /\ e - 1 <= n
                OBVIOUS
            <4> QED BY <1>2, <4>1
        <3>4. ASSUME a <= b PROVE raw[a] \notin Low /\ raw[b] \notin High
            <4>1. a # n + 1 /\ b \in 1..n /\ b + 1 = e
                BY <3>3, <3>4
            <4> QED BY <1>5, <2>7, <3>1, <3>2, <3>3, <4>1
        <3>5. PICK text \in Text : text = Part(raw, a, b) /\ Paired(text)
            <4>1. Paired(Part(raw, a, b))
                BY <1>1, <3>3, <3>4, PairedSub
            <4>2. Part(raw, a, b) \in Text
                BY <1>1, <3>3, TextSub
            <4> QED BY <4>1, <4>2
        <3>6. ReadAt(raw, i) = decode_utf16_segment(text) /\ to = e + 1
            BY <2>7, <3>1, <3>3, <3>5 DEF ReadAt, ReadTo, Part
        <3>7. Paired(decode_utf16_segment(text))
            <4>1. Paired(<<Ampersand>>) /\ Paired(<<Hyphen>>)
                BY <3>2, PairedUnits, CharsLemma
            <4>2. Paired(<<Ampersand>> \o text) /\ <<Ampersand>> \o text \in Text
                BY <3>5, <4>1, PairedConcat, TextConcat, CharsLemma
            <4>3. Paired((<<Ampersand>> \o text) \o <<Hyphen>>)
                BY <4>1, <4>2, PairedConcat, CharsLemma
            <4> QED BY <4>1, <4>3, SegmentLemma
        <3>8. Starts(e + 1)
            <4>1. e \in 1..n
                OBVIOUS
            <4> QED BY <1>5, <3>1, <3>2, <4>1
        <3> QED BY <2>3, <3>6, <3>7, <3>8
    <2> QED BY <2>4, <2>5, <2>6, <2>7
<1>7. C(n + 1)
    BY <1>3, HalfEmpty
<1>8. \A k \in Nat : k \in P
    <2>1. ASSUME NEW k \in Nat, \A m \in Nat : m < k => m \in P PROVE k \in P
        <3> SUFFICES ASSUME k <= n PROVE C(n + 1 - k)
            OBVIOUS
        <3>1. CASE k = 0
            <4>1. n + 1 - k = n + 1
                BY <3>1
            <4> QED BY <1>7, <4>1
        <3>2. CASE k # 0
            <4>1. PICK i \in 1..n : i = n + 1 - k
                BY <3>2
            <4>2. ASSUME NEW j \in i + 1 .. n + 1 PROVE C(j)
                <5>1. PICK m \in Nat : m = n + 1 - j /\ m < k /\ m <= n /\ n + 1 - m = j
                    BY <4>1
                <5>2. m \in P
                    BY <2>1, <5>1
                <5>3. C(n + 1 - m)
                    BY <5>1, <5>2
                <5> HIDE DEF C
                <5> QED BY <5>1, <5>3
            <4>3. C(i)
                BY <1>6, <4>2
            <4> HIDE DEF C
            <4> QED BY <4>1, <4>3
        <3> QED BY <3>1, <3>2
    <2> HIDE DEF P
    <2> QED BY <2>1, StrongInduction
<1>9. CASE n = 0
    <2>1. decode_imap_utf7(raw) = f[n + 1]
        BY <1>9 DEF decode_imap_utf7, f
    <2> QED BY <1>3, <2>1, HalfEmpty, TextLemma DEF IsText, Text
<1>10. CASE n # 0
    <2>1. n \in P /\ n <= n /\ n + 1 - n = 1 /\ 1 \in 1..n /\ 1 \in 1 .. n + 1
        BY <1>8, <1>10
    <2>2. raw[1] \notin Low
        BY <1>1, <1>2, <2>1 DEF Paired
    <2>3. Paired(f[1]) /\ f[1] \in Text
        <3>1. C(n + 1 - n)
            BY <2>1
        <3> QED BY <1>3, <2>1, <2>2, <3>1
    <2> QED BY <2>3 DEF decode_imap_utf7, f, IsText, Text
<1> QED BY <1>9, <1>10

-----------------------------------------------------------------------------
(* Mailboxes, their lines, and the steps of MailboxNames.                   *)

(* The empty name.                                                          *)
LEMMA NameEmpty == encode_imap_utf7(<<>>) = <<>> /\ IsText(<<>>)
<1>1. encode_imap_utf7(<<>>) = State(<<>>).encoded \o Segment(State(<<>>).pending)
    BY DEF encode_imap_utf7, Flushed, Segment, State
<1> QED BY <1>1, StateEmpty, HalfEmpty, TextLemma DEF Segment, IsText, Text

(* The server's mailboxes: the decoding reads the name in the raw name.     *)
LEMMA MailboxesLemma ==
    ASSUME NEW M \in Servers, NEW m \in M
    PROVE  /\ m.raw \in Text /\ m.raw # <<>>
           /\ IsText(m.name) /\ m.name = decode_imap_utf7(m.raw)
           /\ AsEncoded(m) \/ IsText(m.raw)
<1>1. /\ m.raw # <<>>
      /\ \/ IsText(m.name) /\ AsEncoded(m)
         \/ IsText(m.raw) /\ m.name = decode_imap_utf7(m.raw)
    BY ServersAssumption
<1>2. CASE IsText(m.name) /\ AsEncoded(m)
    BY <1>1, <1>2, NameRoundTrip DEF AsEncoded
<1>3. CASE IsText(m.raw) /\ m.name = decode_imap_utf7(m.raw)
    <2>1. m.raw \in Text
        BY <1>3 DEF IsText, Text
    <2> QED BY <1>1, <1>3, <2>1, DecodeIsText
<1> QED BY <1>1, <1>2, <1>3

(* What the parser takes of the line of a mailbox.                          *)
LEMMA LineLemma ==
    ASSUME NEW raw \in Text, raw # <<>>, NEW as \in Styles, NEW x,
           x = extract_raw_list_mailbox(ListLine(raw, as))
    PROVE  /\ ~IsEscaped(raw) => x = raw
           /\ IsText(raw) => IsText(x)
           /\ \A s : IsText(s) /\ raw = encode_imap_utf7(s) => \E b : IsText(b) /\ x = encode_imap_utf7(b)
<1>1. CASE as = "literal" \/ (as = "atom" /\ IsAtom(raw))
    <2>1. x = raw
        <3>1. as # "literal" /\ as = "atom" /\ IsAtom(raw) =>
                  ListLine(raw, as) = [tail |-> <<Gap>> \o raw, literal |-> <<>>]
            BY DEF ListLine
        <3>2. as = "literal" => ListLine(raw, as) = [tail |-> <<Gap>>, literal |-> raw]
            BY DEF ListLine
        <3>3. as = "atom" => as # "literal"
            OBVIOUS
        <3> QED BY <1>1, <3>1, <3>2, <3>3, ExtractPlain
    <2> QED BY <2>1
<1>2. CASE as # "literal" /\ ~(as = "atom" /\ IsAtom(raw))
    <2>1. ListLine(raw, as) = [tail |-> <<Gap>> \o quote_string(raw), literal |-> <<>>]
        BY <1>2 DEF ListLine
    <2>2. \A b : HasTail(Escaped(raw), b) => x = b
        BY <2>1, ExtractQuoted
    <2>3. ~IsEscaped(raw) => x = raw
        BY <2>2, ListedPlain
    <2>4. IsText(raw) => IsText(x)
        BY <2>2, ListedRaw
    <2>5. ASSUME NEW s, IsText(s), raw = encode_imap_utf7(s)
          PROVE  \E b : IsText(b) /\ x = encode_imap_utf7(b)
        <3>1. PICK b : IsText(b) /\ HasTail(Escaped(encode_imap_utf7(s)), encode_imap_utf7(b))
            BY <2>5, ListedEncoded
        <3>2. x = encode_imap_utf7(b)
            BY <2>2, <2>5, <3>1
        <3> QED BY <3>1, <3>2
    <2> QED BY <2>3, <2>4, <2>5
<1> QED BY <1>1, <1>2

(* What a mailbox's line shows: a name, its own if nothing was escaped, and *)
(* the encoding of what is shown if the encoding wrote the raw name.        *)
LEMMA ShownLemma ==
    ASSUME NEW M \in Servers, NEW m \in M, NEW as \in Styles
    PROVE  LET x == extract_raw_list_mailbox(ListLine(m.raw, as)) IN
           /\ x \in Text /\ IsText(decode_imap_utf7(x))
           /\ Shown(ListLine(m.raw, as)) = decode_imap_utf7(x)
           /\ ~IsEscaped(m.raw) => x = m.raw
           /\ AsEncoded(m) => x = encode_imap_utf7(decode_imap_utf7(x))
<1> DEFINE x == extract_raw_list_mailbox(ListLine(m.raw, as))
<1>1. m.raw \in Text /\ m.raw # <<>> /\ IsText(m.name) /\ (AsEncoded(m) \/ IsText(m.raw))
    BY MailboxesLemma
<1>2. Shown(ListLine(m.raw, as)) = decode_imap_utf7(x)
    BY DEF Shown
<1> HIDE DEF x
<1>3. /\ ~IsEscaped(m.raw) => x = m.raw
      /\ IsText(m.raw) => IsText(x)
      /\ IsText(m.name) /\ m.raw = encode_imap_utf7(m.name) => \E b : IsText(b) /\ x = encode_imap_utf7(b)
    <2>1. x = extract_raw_list_mailbox(ListLine(m.raw, as))
        BY DEF x
    <2>2. PICK raw \in Text : raw = m.raw /\ raw # <<>>
        BY <1>1
    <2>3. /\ ~IsEscaped(raw) => x = raw
          /\ IsText(raw) => IsText(x)
          /\ \A s : IsText(s) /\ raw = encode_imap_utf7(s) => \E b : IsText(b) /\ x = encode_imap_utf7(b)
        <3>1. x = extract_raw_list_mailbox(ListLine(raw, as))
            BY <2>1, <2>2
        <3> QED BY <2>2, <3>1, LineLemma, ZenonT(40)
    <2> QED BY <2>2, <2>3
<1>4. ASSUME AsEncoded(m)
      PROVE  x \in Text /\ IsText(decode_imap_utf7(x)) /\ x = encode_imap_utf7(decode_imap_utf7(x))
    <2>1. PICK b : IsText(b) /\ x = encode_imap_utf7(b)
        BY <1>1, <1>3, <1>4 DEF AsEncoded
    <2> QED BY <2>1, NameRoundTrip
<1>5. ASSUME IsText(m.raw) PROVE x \in Text /\ IsText(decode_imap_utf7(x))
    <2>1. IsText(x)
        BY <1>3, <1>5
    <2>2. x \in Text
        BY <2>1 DEF IsText, Text
    <2> QED BY <2>1, <2>2, DecodeIsText
<1>6. /\ x \in Text /\ IsText(decode_imap_utf7(x))
      /\ ~IsEscaped(m.raw) => x = m.raw
      /\ AsEncoded(m) => x = encode_imap_utf7(decode_imap_utf7(x))
    BY <1>1, <1>3, <1>4, <1>5
<1> QED BY <1>2, <1>6 DEF x

(* Lines are of mailboxes of the server, wanted names are names; without a  *)
(* server there is nothing.                                                 *)
NamesInvariant ==
    /\ mailboxes \in Servers \cup {{}}
    /\ mailboxes = {} => wanted = <<>> /\ selected = {}
    /\ style \in Styles
    /\ listed \subseteq {<<m, Shown(ListLine(m.raw, style))>> : m \in mailboxes}
    /\ IsText(wanted)
    /\ NamesSelectThemselves

(* The invariant of MailboxNames holds at first.                            *)
LEMMA NamesInitInvariant == NamesInit => NamesInvariant
BY NameEmpty DEF NamesInit, NamesInvariant, NamesSelectThemselves, Styles

(* A server's mailboxes keep it.                                            *)
LEMMA ServeInvariant == NamesInvariant /\ Serve => NamesInvariant'
<1> SUFFICES ASSUME NamesInvariant, Serve PROVE NamesInvariant'
    OBVIOUS
<1>1. wanted' = <<>> /\ selected' = {} /\ listed' = {} /\ mailboxes' \in Servers /\ style' \in Styles
    BY DEF NamesInvariant, Serve
<1>2. ASSUME NEW m \in mailboxes', m.name = <<>>, AsEncoded(m) PROVE FALSE
    BY <1>1, <1>2, MailboxesLemma, NameEmpty DEF AsEncoded
<1>3. NamesSelectThemselves'
    BY <1>1, <1>2 DEF NamesSelectThemselves
<1> QED BY <1>1, <1>3, NameEmpty DEF NamesInvariant

(* list_mailboxes keeps it.                                                 *)
LEMMA ListInvariant == NamesInvariant /\ ListMailboxes => NamesInvariant'
<1> SUFFICES ASSUME NamesInvariant, ListMailboxes PROVE NamesInvariant'
    OBVIOUS
<1>1. mailboxes \in Servers /\ style \in Styles
    BY DEF NamesInvariant, ListMailboxes
<1>2. /\ UNCHANGED <<mailboxes, style, wanted, selected>>
      /\ listed' = {<<m, Shown(ListLine(m.raw, style))>> : m \in mailboxes}
    BY DEF ListMailboxes
<1>3. ASSUME NEW m \in mailboxes, ~IsEscaped(m.raw) PROVE Shown(ListLine(m.raw, style)) = m.name
    BY <1>1, <1>3, ShownLemma, MailboxesLemma
<1>4. \A x \in listed' : ~IsEscaped(x[1].raw) => x[2] = x[1].name
    BY <1>2, <1>3
<1>5. NamesSelectThemselves'
    BY <1>2, <1>4 DEF NamesInvariant, NamesSelectThemselves
<1> QED BY <1>2, <1>5 DEF NamesInvariant

(* select_mailbox_once keeps it.                                            *)
LEMMA SelectInvariant ==
    ASSUME NEW name \in {m.name : m \in mailboxes} \cup {x[2] : x \in listed}
    PROVE  NamesInvariant /\ SelectMailbox(name) => NamesInvariant'
<1> SUFFICES ASSUME NamesInvariant, SelectMailbox(name) PROVE NamesInvariant'
    OBVIOUS
<1>1. mailboxes \in Servers /\ style \in Styles
    BY DEF NamesInvariant, SelectMailbox
<1>2. IsText(name)
    <2>1. ASSUME NEW m \in mailboxes PROVE IsText(m.name) /\ IsText(Shown(ListLine(m.raw, style)))
        BY <1>1, MailboxesLemma, ShownLemma
    <2> QED BY <2>1 DEF NamesInvariant
<1> DEFINE own     == encode_imap_utf7(name)
           matched == {l \in Answered(own) : Shown(l) = name}
           chosen  == IF matched = {} THEN {own} ELSE {extract_raw_list_mailbox(l) : l \in matched}
<1>3. /\ wanted' = name /\ UNCHANGED <<mailboxes, style, listed>>
      /\ \E raw \in chosen : selected' = {m \in mailboxes : m.raw = ServerReads(quote_string(raw))}
    BY DEF SelectMailbox
<1>4. own \in Text /\ decode_imap_utf7(own) = name
    BY <1>2, NameRoundTrip
<1>5. \A l \in Answered(own) : \E x \in mailboxes :
          l = ListLine(x.raw, style) /\ (x.raw = own \/ HasWildcard(own))
    BY DEF Answered
<1> HIDE DEF own
<1>6. PICK raw \in chosen : selected' = {m \in mailboxes : m.raw = ServerReads(quote_string(raw))}
    BY <1>3
<1>7. CASE matched = {}
    <2>1. raw = own
        BY <1>7
    <2>2. selected' = {m \in mailboxes : m.raw = own}
        BY <1>4, <1>6, <2>1, QuoteRoundTrip
    <2>3. \A m \in selected' : m.name = name
        BY <1>1, <1>4, <2>2, MailboxesLemma
    <2>4. \A m \in mailboxes : m.name = name /\ AsEncoded(m) => m \in selected'
        BY <2>2 DEF AsEncoded, own
    <2>5. NamesSelectThemselves'
        BY <1>3, <2>3, <2>4 DEF NamesInvariant, NamesSelectThemselves
    <2> QED BY <1>1, <1>2, <1>3, <2>5 DEF NamesInvariant
<1>8. CASE matched # {}
    <2>1. PICK l \in Answered(own) : Shown(l) = name /\ raw = extract_raw_list_mailbox(l)
        BY <1>8
    <2>2. PICK x \in mailboxes : l = ListLine(x.raw, style) /\ (x.raw = own \/ HasWildcard(own))
        BY <1>5
    <2>3. /\ raw \in Text /\ decode_imap_utf7(raw) = name
          /\ ~IsEscaped(x.raw) => raw = x.raw
          /\ AsEncoded(x) => raw = own
        BY <1>1, <2>1, <2>2, ShownLemma DEF own
    <2>4. selected' = {m \in mailboxes : m.raw = raw}
        BY <1>6, <2>3, QuoteRoundTrip
    <2>5. \A m \in selected' : m.name = name
        BY <1>1, <2>3, <2>4, MailboxesLemma
    <2>6. ASSUME NEW m \in mailboxes, m.name = name, AsEncoded(m),
                 HasWildcard(m.raw) => \A y \in mailboxes : IsEscaped(y.raw) => AsEncoded(y)
          PROVE  selected' # {}
        <3>1. m.raw = own
            BY <2>6 DEF AsEncoded, own
        <3>2. CASE ~IsEscaped(x.raw)
            BY <2>3, <2>4, <3>2
        <3>3. CASE AsEncoded(x)
            BY <2>3, <2>4, <3>1, <3>3
        <3>4. CASE x.raw = own
            <4>1. m.raw = x.raw /\ l = ListLine(m.raw, style)
                BY <2>2, <3>1, <3>4
            <4>2. raw = own
                BY <1>1, <2>1, <2>6, <4>1, ShownLemma DEF own
            <4> QED BY <2>4, <3>1, <4>2
        <3> QED BY <2>2, <2>6, <3>1, <3>2, <3>3, <3>4
    <2>7. NamesSelectThemselves'
        BY <1>3, <2>5, <2>6 DEF NamesInvariant, NamesSelectThemselves
    <2> QED BY <1>1, <1>2, <1>3, <2>7 DEF NamesInvariant
<1> QED BY <1>7, <1>8

(* A name opens no mailbox of another name, and its own if the server has   *)
(* it as the encoding writes it; list_mailboxes shows a mailbox under its   *)
(* name unless it has a quote or a backslash.                               *)
THEOREM NamesSelectThemselvesHolds == NamesSpec => []NamesSelectThemselves
<1>1. NamesInvariant /\ UNCHANGED name_vars => NamesInvariant'
    BY DEF NamesInvariant, NamesSelectThemselves, name_vars
<1>2. NamesInvariant /\ [NamesNext]_name_vars => NamesInvariant'
    BY <1>1, ServeInvariant, ListInvariant, SelectInvariant DEF NamesNext
<1>3. NamesInvariant => NamesSelectThemselves
    BY DEF NamesInvariant
<1> QED BY <1>2, <1>3, NamesInitInvariant, PTL DEF NamesSpec
=============================================================================
