-------------------------- MODULE MailFormatProofs --------------------------
(***************************************************************************)
(* Proofs about MailFormat for any uploads: what the three encodings of a  *)
(* mail lose (nothing), what the parsers make of its text, and that what   *)
(* upload stores can be restored.                                          *)
(***************************************************************************)
EXTENDS MailFormat, FormatsProofs
HIDE UploadsAssumption

-----------------------------------------------------------------------------
(* Sequences of numbers: joining them, comparing them, their parts.         *)

Str == Seq(Nat)

(* Short sequences, lengths and elements.                                   *)
LEMMA StrLemma ==
    /\ <<>> \in Str /\ Len(<<>>) = 0
    /\ \A x \in Nat : <<x>> \in Str /\ Len(<<x>>) = 1 /\ <<x>>[1] = x
    /\ \A s \in Str : /\ Len(s) \in Nat /\ \A i \in 1..Len(s) : s[i] \in Nat
                      /\ s # <<>> <=> Len(s) > 0
    /\ \A s \in Str : s \o <<>> = s /\ <<>> \o s = s
<1>1. <<>> \in Str /\ Len(<<>>) = 0
    BY EmptySeq DEF Str
<1>2. \A x \in Nat : <<x>> \in Str /\ Len(<<x>>) = 1 /\ <<x>>[1] = x
    <2> TAKE x \in Nat
    <2> QED BY DEF Str
<1>3. ASSUME NEW s \in Str
      PROVE  Len(s) \in Nat /\ \A i \in 1..Len(s) : s[i] \in Nat
    BY ElementOfSeq, LenProperties DEF Str
<1>4. ASSUME NEW s \in Str PROVE s # <<>> <=> Len(s) > 0
    BY EmptySeq DEF Str
<1>5. \A s \in Str : s \o <<>> = s /\ <<>> \o s = s
    BY ConcatEmptySeq DEF Str
<1> QED BY <1>1, <1>2, <1>3, <1>4, <1>5

(* A sequence behind another one.                                           *)
LEMMA StrConcat ==
    ASSUME NEW s \in Str, NEW t \in Str
    PROVE  /\ s \o t \in Str /\ Len(s \o t) = Len(s) + Len(t)
           /\ \A i \in 1..Len(s) : (s \o t)[i] = s[i]
           /\ \A i \in 1..Len(t) : (s \o t)[Len(s) + i] = t[i]
<1>1. /\ s \o t \in Str /\ Len(s \o t) = Len(s) + Len(t)
      /\ \A i \in 1 .. Len(s) + Len(t) : (s \o t)[i] = IF i <= Len(s) THEN s[i] ELSE t[i - Len(s)]
    BY ConcatProperties DEF Str
<1>2. Len(s) \in Nat /\ Len(t) \in Nat
    BY StrLemma
<1>3. ASSUME NEW i \in 1..Len(t) PROVE (s \o t)[Len(s) + i] = t[i]
    <2>1. Len(s) + i \in 1 .. Len(s) + Len(t) /\ ~(Len(s) + i <= Len(s)) /\ Len(s) + i - Len(s) = i
        BY <1>2
    <2> QED BY <1>1, <2>1
<1>4. ASSUME NEW i \in 1..Len(s) PROVE (s \o t)[i] = s[i]
    <2>1. i \in 1 .. Len(s) + Len(t) /\ i <= Len(s)
        BY <1>2
    <2> QED BY <1>1, <2>1
<1> QED BY <1>1, <1>3, <1>4

(* Joining in any grouping.                                                 *)
LEMMA StrAssoc ==
    \A s, t, u \in Str : (s \o t) \o u = s \o (t \o u)
BY ConcatAssociative, SMTT(40) DEF Str

(* Sequences with the same elements.                                        *)
LEMMA StrEqual ==
    ASSUME NEW s \in Str, NEW t \in Str, Len(s) = Len(t), \A i \in 1..Len(s) : s[i] = t[i]
    PROVE  s = t
BY SeqEqual DEF Str

(* A part of a sequence.                                                    *)
LEMMA StrPart ==
    ASSUME NEW s \in Str, NEW i \in Nat \ {0}, NEW j \in Nat, j <= Len(s)
    PROVE  /\ Part(s, i, j) \in Str
           /\ Len(Part(s, i, j)) = IF i <= j THEN j - i + 1 ELSE 0
           /\ \A k \in 1 .. j - i + 1 : Part(s, i, j)[k] = s[i + k - 1]
<1>1. \A k \in i..j : s[k] \in Nat
    <2>1. \A k \in i..j : k \in 1..Len(s)
        BY StrLemma
    <2> QED BY <2>1, StrLemma
<1> QED BY <1>1, SubSeqProperties DEF Str, Part

(* A sequence that is longer by one. *)
LEMMA StrMore ==
    ASSUME NEW s \in Str, NEW u \in Nat
    PROVE  /\ s \o <<u>> \in Str /\ Len(s \o <<u>>) = Len(s) + 1 /\ (s \o <<u>>)[Len(s) + 1] = u
           /\ \A i \in 1..Len(s) : (s \o <<u>>)[i] = s[i]
<1>1. <<u>> \in Str /\ Len(<<u>>) = 1 /\ <<u>>[1] = u
    BY StrLemma
<1>2. /\ s \o <<u>> \in Str /\ Len(s \o <<u>>) = Len(s) + 1
      /\ \A i \in 1..Len(s) : (s \o <<u>>)[i] = s[i]
      /\ \A i \in 1..1 : (s \o <<u>>)[Len(s) + i] = <<u>>[i]
    BY <1>1, StrConcat
<1>3. 1 \in 1..1
    OBVIOUS
<1> QED BY <1>1, <1>2, <1>3

(* Octets and their hexadecimal digits. *)
LEMMA HexLemma ==
    /\ \A n \in 0..15 : HexDigit(n) \in Nat /\ HexValue(HexDigit(n)) = n
    /\ \A n \in 0..15 : LowerHex(n) \in 33..126 /\ LowerHex(n) # Equals /\ HexValue(LowerHex(n)) = n /\ LowerHex(n) # Slash
    /\ \A c \in Int : HexValue(c) \in -1..15
    /\ HexValue(-1) = -1 /\ HexValue(LF) = -1 /\ HexValue(CR) = -1 /\ HexValue(Slash) = -1
    /\ \A c \in Nat : c > 255 => HexValue(c) = -1
BY DEF HexDigit, HexValue, LowerHex, Equals, LF, CR, Slash

(* A byte and its two digits.                                               *)
LEMMA DigitPairs ==
    ASSUME NEW b \in Octet
    PROVE  b \div 16 \in 0..15 /\ b % 16 \in 0..15 /\ 16 * (b \div 16) + (b % 16) = b
<1>1. b \in Nat /\ b <= 255
    BY DEF Octet
<1>2. b \div 16 \in 0..15
    BY <1>1
<1>3. b % 16 \in 0..15
    BY <1>1
<1>4. 16 * (b \div 16) + (b % 16) = b
    <2>1. PICK c \in 0..15 : b % 16 = c
        BY <1>3
    <2>2. b = 16 * (b \div 16) + c
        BY <1>1, <2>1
    <2> QED BY <1>1, <2>1, <2>2
<1> QED BY <1>2, <1>3, <1>4

-----------------------------------------------------------------------------
(* Readings of a text place by place, as the decoder of quoted-printable    *)
(* and std::getline make them: they exist, and are what the functions of    *)
(* the model are.                                                           *)

(* What is read from any place on is a sequence of what is read at the      *)
(* places.                                                                  *)
LEMMA ReadingTyped ==
    ASSUME NEW S, NEW n \in Nat, NEW part \in [1..n -> Seq(S)], NEW next, Advances(next, n),
           NEW h, IsReading(h, part, next, n)
    PROVE  \A i \in 1 .. n + 1 : h[i] \in Seq(S)
<1>1. PICK f \in [1 .. n + 1 -> Seq(S)] : IsReading(f, part, next, n)
    BY ReadingExists
<1>2. PICK d \in Nat : d = 0
    OBVIOUS
<1>3. \A i \in 1 .. n + 1 : Alike(f, h, i, d)
    <2>1. ASSUME NEW i \in 1..n, Alike(f, h, next[i], d) PROVE Alike(f, h, i, d)
        <3>1. next[i] \in Nat
            <4>1. next[i] \in i + 1 .. n + 1
                BY DEF Advances
            <4> QED BY <4>1
        <3>2. next[i] + d = next[i] /\ i + d = i
            BY <1>2, <3>1
        <3>3. f[next[i]] = h[next[i]]
            BY <2>1, <3>2 DEF Alike
        <3>4. f[i] = h[i]
            BY <1>1, <3>3 DEF IsReading
        <3> QED BY <3>2, <3>4 DEF Alike
    <2>2. Alike(f, h, n + 1, d)
        <3>1. n + 1 + d = n + 1
            BY <1>2
        <3> QED BY <1>1, <3>1 DEF Alike, IsReading
    <2> QED BY <2>1, <2>2, ReadingAgrees
<1>4. \A i \in 1 .. n + 1 : i + d = i
    BY <1>2
<1> QED BY <1>1, <1>3, <1>4 DEF Alike

(* The equation by which a reading is defined.                              *)
Rereads(f, part, next, n) ==
    f = [i \in 1 .. n + 1 |-> IF i > n THEN <<>> ELSE part[i] \o f[next[i]]]

(* There is a function that satisfies it.                                   *)
LEMMA ReadingFixed ==
    ASSUME NEW S, NEW n \in Nat, NEW part \in [1..n -> Seq(S)], NEW next, Advances(next, n)
    PROVE  \E f : Rereads(f, part, next, n)
<1>1. PICK f \in [1 .. n + 1 -> Seq(S)] : IsReading(f, part, next, n)
    BY ReadingExists
<1>2. \A i \in 1 .. n + 1 : f[i] = IF i > n THEN <<>> ELSE part[i] \o f[next[i]]
    <2> TAKE i \in 1 .. n + 1
    <2>1. CASE i > n
        BY <1>1, <2>1 DEF IsReading
    <2>2. CASE ~(i > n)
        <3>1. i \in 1..n
            BY <2>2
        <3> QED BY <1>1, <2>2, <3>1 DEF IsReading
    <2> QED BY <2>1, <2>2
<1>3. f = [i \in 1 .. n + 1 |-> IF i > n THEN <<>> ELSE part[i] \o f[next[i]]]
    BY <1>2
<1> QED BY <1>3 DEF Rereads

(* At each place something is read, and reading goes on behind it.          *)
LEMMA PrintableLemma ==
    ASSUME NEW s \in Str, NEW i \in 1..Len(s)
    PROVE  PrintableAt(s, i) \in Str /\ PrintableTo(s, i) \in i + 1 .. Len(s) + 1
<1>1. PICK n \in Nat : n = Len(s)
    BY StrLemma
<1>2. s[i] \in Nat /\ <<s[i]>> \in Str
    BY StrLemma
<1>3. ASSUME NEW j \in Nat \ {0}, Following(s, j) # -1 PROVE j <= n
    BY <1>1, <1>3 DEF Following
<1>4. i + 1 \in Nat \ {0} /\ i + 2 \in Nat \ {0} /\ i <= n
    BY <1>1
<1>5. SoftBreak(s, i) > 0 =>
        \/ SoftBreak(s, i) = 2 /\ i + 1 <= n
        \/ SoftBreak(s, i) = 3 /\ i + 2 <= n
    BY <1>3, <1>4 DEF SoftBreak, LF, CR
<1>6. IsHexPair(s, i) =>
        /\ i + 1 <= n /\ i + 2 <= n
        /\ HexValue(s[i + 1]) \in Nat /\ HexValue(s[i + 2]) \in Nat
    <2> SUFFICES ASSUME IsHexPair(s, i)
                 PROVE  /\ i + 1 <= n /\ i + 2 <= n
                        /\ HexValue(s[i + 1]) \in Nat /\ HexValue(s[i + 2]) \in Nat
        OBVIOUS
    <2>1. HexValue(-1) = -1
        BY HexLemma
    <2>2. HexValue(Following(s, i + 1)) >= 0 /\ HexValue(Following(s, i + 2)) >= 0
        BY DEF IsHexPair
    <2>3. i + 1 <= n /\ i + 2 <= n
        BY <1>3, <1>4, <2>1, <2>2
    <2>4. Following(s, i + 1) = s[i + 1] /\ Following(s, i + 2) = s[i + 2]
        BY <1>1, <2>3 DEF Following
    <2>5. s[i + 1] \in Int /\ s[i + 2] \in Int
        BY <1>1, <1>4, <2>3, StrLemma
    <2>6. HexValue(s[i + 1]) \in -1..15 /\ HexValue(s[i + 2]) \in -1..15
        BY <2>5, HexLemma
    <2> QED BY <2>2, <2>3, <2>4, <2>6, SMTT(40)
<1>7. CASE SoftBreak(s, i) > 0
    <2>1. PrintableAt(s, i) = <<>> /\ PrintableTo(s, i) = i + SoftBreak(s, i)
        BY <1>7 DEF PrintableAt, PrintableTo
    <2> QED BY <1>1, <1>4, <1>5, <1>7, <2>1, StrLemma
<1>8. CASE ~(SoftBreak(s, i) > 0) /\ IsHexPair(s, i)
    <2>1. PrintableAt(s, i) = <<16 * HexValue(s[i + 1]) + HexValue(s[i + 2])>> /\ PrintableTo(s, i) = i + 3
        BY <1>8 DEF PrintableAt, PrintableTo
    <2>2. PICK x \in Nat : x = 16 * HexValue(s[i + 1]) + HexValue(s[i + 2])
        BY <1>6, <1>8
    <2>3. PrintableAt(s, i) \in Str
        BY <2>1, <2>2, StrLemma
    <2> QED BY <1>1, <1>4, <1>6, <1>8, <2>1, <2>3
<1>9. CASE ~(SoftBreak(s, i) > 0) /\ ~IsHexPair(s, i)
    <2>1. PrintableAt(s, i) = <<s[i]>> /\ PrintableTo(s, i) = i + 1
        BY <1>9 DEF PrintableAt, PrintableTo
    <2> QED BY <1>1, <1>2, <1>4, <2>1
<1> QED BY <1>7, <1>8, <1>9

(* The decoder's function is a reading of its text.                         *)
LEMMA UnprintingLemma ==
    ASSUME NEW s \in Str
    PROVE  /\ \A i \in 1 .. Len(s) + 1 : Unprinting(s)[i] \in Str
           /\ Unprinting(s)[Len(s) + 1] = <<>>
           /\ \A i \in 1..Len(s) : Unprinting(s)[i] = PrintableAt(s, i) \o Unprinting(s)[PrintableTo(s, i)]
<1> DEFINE part == [i \in 1..Len(s) |-> PrintableAt(s, i)]
           next == [i \in 1..Len(s) |-> PrintableTo(s, i)]
           Q(f) == f = [i \in 1 .. Len(s) + 1 |->
                            IF i > Len(s) THEN <<>> ELSE PrintableAt(s, i) \o f[PrintableTo(s, i)]]
           h == Unprinting(s)
<1>1. PICK n \in Nat : n = Len(s)
    BY StrLemma
<1>2. part \in [1..n -> Seq(Nat)] /\ Advances(next, n)
    <2>1. \A i \in 1..n : part[i] \in Seq(Nat) /\ next[i] \in i + 1 .. n + 1
        BY <1>1, PrintableLemma DEF Str
    <2>2. DOMAIN part = 1..n /\ part = [i \in 1..n |-> part[i]]
        BY <1>1
    <2> HIDE DEF part, next
    <2> QED BY <2>1, <2>2 DEF Advances
<1>3. PICK f : Q(f)
    <2>1. PICK f : Rereads(f, part, next, n)
        <3> HIDE DEF part, next
        <3> QED BY <1>2, ReadingFixed
    <2>2. \A i \in 1 .. n + 1 : ~(i > n) => part[i] = PrintableAt(s, i) /\ next[i] = PrintableTo(s, i)
        <3> TAKE i \in 1 .. n + 1
        <3> HAVE ~(i > n)
        <3>1. i \in 1..n
            OBVIOUS
        <3> QED BY <1>1, <3>1
    <2> HIDE DEF part, next
    <2>3. \A i \in 1 .. n + 1 : f[i] = IF i > n THEN <<>> ELSE PrintableAt(s, i) \o f[PrintableTo(s, i)]
        BY <2>1, <2>2 DEF Rereads
    <2>4. f = [i \in 1 .. n + 1 |-> f[i]]
        BY <2>1 DEF Rereads
    <2> QED BY <1>1, <2>3, <2>4
<1>4. h = CHOOSE g : Q(g)
    BY DEF Unprinting
<1> HIDE DEF Q
<1>5. Q(h)
    BY <1>3, <1>4
<1> HIDE DEF h
<1>6. \A i \in 1 .. n + 1 : h[i] = IF i > n THEN <<>> ELSE PrintableAt(s, i) \o h[PrintableTo(s, i)]
    BY <1>1, <1>5 DEF Q
<1>7. h[n + 1] = <<>> /\ \A i \in 1..n : h[i] = PrintableAt(s, i) \o h[PrintableTo(s, i)]
    <2>1. n + 1 \in 1 .. n + 1 /\ n + 1 > n /\ \A i \in 1..n : i \in 1 .. n + 1 /\ ~(i > n)
        OBVIOUS
    <2> QED BY <1>6, <2>1
<1>8. IsReading(h, part, next, n)
    <2>1. \A i \in 1..n : part[i] = PrintableAt(s, i) /\ next[i] = PrintableTo(s, i)
        BY <1>1
    <2> HIDE DEF part, next
    <2> QED BY <1>7, <2>1 DEF IsReading
<1> HIDE DEF part, next
<1>9. \A i \in 1 .. n + 1 : h[i] \in Seq(Nat)
    BY <1>2, <1>8, ReadingTyped
<1> QED BY <1>1, <1>7, <1>9 DEF h, Str

-----------------------------------------------------------------------------
(* Texts that decoding leaves alone.                                        *)

(* At this place decoding changes the text: a soft line break, or an        *)
(* escape. A text without such places has no escape.                        *)
Disturbs(s, i) == SoftBreak(s, i) > 0 \/ IsHexPair(s, i)
NoEscape(s) == \A i \in 1..Len(s) : ~Disturbs(s, i)

(* A place that is not disturbed is read as it is; a disturbed one makes    *)
(* the text shorter.                                                        *)
LEMMA DisturbedLemma ==
    ASSUME NEW s \in Str, NEW i \in 1..Len(s)
    PROVE  /\ ~Disturbs(s, i) => PrintableAt(s, i) = <<s[i]>> /\ PrintableTo(s, i) = i + 1
           /\ Disturbs(s, i) => Len(PrintableAt(s, i)) + 1 < PrintableTo(s, i) - i + 1
           /\ Len(PrintableAt(s, i)) <= PrintableTo(s, i) - i
<1>1. i \in Nat /\ s[i] \in Nat /\ Len(<<>>) = 0
    BY StrLemma
<1>2. SoftBreak(s, i) \in {0, 2, 3}
    BY DEF SoftBreak
<1>3. Len(<<s[i]>>) = 1 /\ Len(<<16 * HexValue(s[i + 1]) + HexValue(s[i + 2])>>) = 1
    OBVIOUS
<1>4. CASE SoftBreak(s, i) > 0
    BY <1>1, <1>2, <1>4 DEF Disturbs, PrintableAt, PrintableTo
<1>5. CASE ~(SoftBreak(s, i) > 0) /\ IsHexPair(s, i)
    BY <1>1, <1>3, <1>5 DEF Disturbs, PrintableAt, PrintableTo
<1>6. CASE ~(SoftBreak(s, i) > 0) /\ ~IsHexPair(s, i)
    BY <1>1, <1>3, <1>6 DEF Disturbs, PrintableAt, PrintableTo
<1> QED BY <1>4, <1>5, <1>6

(* The end of a text from each of its places on.                            *)
LEMMA PartLemma ==
    ASSUME NEW s \in Str
    PROVE  /\ Part(s, 1, Len(s)) = s
           /\ \A i \in 1 .. Len(s) + 1 : Part(s, i, Len(s)) \in Str /\ Len(Part(s, i, Len(s))) = Len(s) + 1 - i
           /\ Part(s, Len(s) + 1, Len(s)) = <<>>
           /\ \A i \in 1..Len(s) : Part(s, i, Len(s)) = <<s[i]>> \o Part(s, i + 1, Len(s))
<1>1. PICK n \in Nat : n = Len(s)
    BY StrLemma
<1>2. ASSUME NEW i \in 1 .. n + 1
      PROVE  /\ Part(s, i, n) \in Str /\ Len(Part(s, i, n)) = n + 1 - i
             /\ \A k \in 1 .. n + 1 - i : Part(s, i, n)[k] = s[i + k - 1]
    <2>1. i \in Nat \ {0} /\ n <= Len(s) /\ n - i + 1 = n + 1 - i /\ (i <= n \/ n + 1 - i = 0)
        BY <1>1
    <2>2. /\ Part(s, i, n) \in Str /\ Len(Part(s, i, n)) = IF i <= n THEN n - i + 1 ELSE 0
          /\ \A k \in 1 .. n - i + 1 : Part(s, i, n)[k] = s[i + k - 1]
        BY <2>1, StrPart
    <2> QED BY <2>1, <2>2
<1>3. Part(s, 1, n) = s
    <2>1. 1 \in 1 .. n + 1 /\ n + 1 - 1 = n /\ \A k \in 1..n : 1 + k - 1 = k
        OBVIOUS
    <2>2. /\ Part(s, 1, n) \in Str /\ Len(Part(s, 1, n)) = n
          /\ \A k \in 1..n : Part(s, 1, n)[k] = s[k]
        BY <1>2, <2>1
    <2> QED BY <1>1, <2>2, StrEqual
<1>4. Part(s, n + 1, n) = <<>>
    <2>1. n + 1 \in 1 .. n + 1 /\ n + 1 - (n + 1) = 0
        OBVIOUS
    <2>2. Part(s, n + 1, n) \in Str /\ Len(Part(s, n + 1, n)) = 0
        BY <1>2, <2>1
    <2> QED BY <2>2, StrLemma
<1>5. ASSUME NEW i \in 1..n PROVE Part(s, i, n) = <<s[i]>> \o Part(s, i + 1, n)
    <2>1. i \in 1 .. n + 1 /\ i + 1 \in 1 .. n + 1 /\ n + 1 - (i + 1) = n - i /\ n + 1 - i = 1 + (n - i)
        OBVIOUS
    <2>2. PICK a \in Str : a = Part(s, i, n) /\ Len(a) = 1 + (n - i) /\ \A k \in 1 .. 1 + (n - i) : a[k] = s[i + k - 1]
        BY <1>2, <2>1
    <2>3. PICK b \in Str : b = Part(s, i + 1, n) /\ Len(b) = n - i /\ \A k \in 1 .. n - i : b[k] = s[i + 1 + k - 1]
        BY <1>2, <2>1
    <2>4. PICK c \in Str : c = <<s[i]>> /\ Len(c) = 1 /\ c[1] = s[i]
        BY <1>1, StrLemma
    <2>5. /\ c \o b \in Str /\ Len(c \o b) = Len(c) + Len(b)
          /\ \A k \in 1..Len(c) : (c \o b)[k] = c[k]
          /\ \A k \in 1..Len(b) : (c \o b)[Len(c) + k] = b[k]
        BY StrConcat
    <2>6. PICK cb \in Str : /\ cb = c \o b /\ Len(cb) = 1 + (n - i) /\ cb[1] = c[1]
                            /\ \A k \in 1 .. n - i : cb[1 + k] = b[k]
        <3>1. 1 \in 1..Len(c)
            BY <2>4
        <3>2. PICK cb \in Str : /\ cb = c \o b /\ Len(cb) = Len(c) + Len(b) /\ cb[1] = c[1]
                               /\ \A k \in 1..Len(b) : cb[Len(c) + k] = b[k]
            BY <2>5, <3>1
        <3>3. Len(cb) = 1 + (n - i) /\ \A k \in 1 .. n - i : cb[1 + k] = b[k]
            BY <2>3, <2>4, <3>2
        <3> QED BY <3>2, <3>3
    <2>7. ASSUME NEW k \in 1 .. 1 + (n - i) PROVE a[k] = cb[k]
        <3>1. CASE k = 1
            <4>1. i + k - 1 = i
                BY <3>1
            <4> QED BY <2>2, <2>4, <2>6, <3>1, <4>1
        <3>2. CASE k # 1
            <4>1. k - 1 \in 1 .. n - i /\ 1 + (k - 1) = k /\ i + 1 + (k - 1) - 1 = i + k - 1
                BY <3>2
            <4>2. cb[1 + (k - 1)] = b[k - 1] /\ b[k - 1] = s[i + 1 + (k - 1) - 1]
                BY <2>3, <2>6, <4>1
            <4> QED BY <2>2, <4>1, <4>2
        <3> QED BY <3>1, <3>2
    <2>8. a = cb
        BY <2>2, <2>6, <2>7, StrEqual
    <2> QED BY <2>2, <2>3, <2>4, <2>6, <2>8
<1> QED BY <1>1, <1>2, <1>3, <1>4, <1>5

(* A text without escapes is decoded as it is. *)
LEMMA DecodesItself ==
    ASSUME NEW s \in Str, NoEscape(s)
    PROVE  decode_quoted_printable(s) = s
<1>1. PICK n \in Nat : n = Len(s)
    BY StrLemma
<1>2. PICK d \in Nat : d = 0
    OBVIOUS
<1> DEFINE f == [i \in 1 .. n + 1 |-> Part(s, i, n)]
           next == [i \in 1..n |-> i + 1]
           h == Unprinting(s)
<1>3. Advances(next, n)
    BY DEF Advances
<1>4. h[n + 1] = <<>> /\ \A i \in 1..n : h[i] = <<s[i]>> \o h[i + 1]
    <2>1. \A i \in 1..n : PrintableAt(s, i) = <<s[i]>> /\ PrintableTo(s, i) = i + 1
        BY <1>1, DisturbedLemma DEF NoEscape
    <2> QED BY <1>1, <2>1, UnprintingLemma
<1>5. f[n + 1] = <<>> /\ f[1] = s /\ \A i \in 1..n : f[i] = <<s[i]>> \o f[i + 1]
    <2>1. n + 1 \in 1 .. n + 1 /\ 1 \in 1 .. n + 1 /\ \A i \in 1..n : i \in 1 .. n + 1 /\ i + 1 \in 1 .. n + 1
        OBVIOUS
    <2>2. \A i \in 1 .. n + 1 : f[i] = Part(s, i, n)
        OBVIOUS
    <2> HIDE DEF f
    <2> QED BY <1>1, <2>1, <2>2, PartLemma
<1> HIDE DEF f, h
<1>6. \A i \in 1 .. n + 1 : Alike(f, h, i, d)
    <2>1. ASSUME NEW i \in 1..n, Alike(f, h, next[i], d) PROVE Alike(f, h, i, d)
        <3>1. next[i] = i + 1 /\ i + 1 + d = i + 1 /\ i + d = i
            BY <1>2
        <3>2. f[i + 1] = h[i + 1]
            BY <2>1, <3>1 DEF Alike
        <3>3. f[i] = h[i]
            BY <1>4, <1>5, <3>2
        <3> QED BY <3>1, <3>3 DEF Alike
    <2>2. Alike(f, h, n + 1, d)
        <3>1. n + 1 + d = n + 1
            BY <1>2
        <3> QED BY <1>4, <1>5, <3>1 DEF Alike
    <2> HIDE DEF next
    <2> QED BY <1>3, <2>1, <2>2, ReadingAgrees
<1>7. f[1] = h[1]
    <2>1. 1 \in 1 .. n + 1 /\ 1 + d = 1
        BY <1>2
    <2> QED BY <1>6, <2>1 DEF Alike
<1> QED BY <1>5, <1>7 DEF h, decode_quoted_printable

(* A text that is decoded as it is has no escapes. *)
LEMMA DecodedItself ==
    ASSUME NEW s \in Str, decode_quoted_printable(s) = s
    PROVE  NoEscape(s)
<1>1. PICK n \in Nat : n = Len(s)
    BY StrLemma
<1> DEFINE h == Unprinting(s)
           Good(i) == /\ Len(h[i]) <= n + 1 - i
                      /\ Len(h[i]) = n + 1 - i => \A k \in i..n : ~Disturbs(s, k)
           Q == {m \in Nat : m <= n => Good(n + 1 - m)}
<1>2. \A i \in 1 .. n + 1 : h[i] \in Str /\ Len(h[i]) \in Nat
    BY <1>1, UnprintingLemma, StrLemma
<1>3. h[n + 1] = <<>> /\ \A i \in 1..n : h[i] = PrintableAt(s, i) \o h[PrintableTo(s, i)]
    BY <1>1, UnprintingLemma
<1> HIDE DEF h
<1>4. Good(n + 1)
    <2>1. Len(h[n + 1]) = 0 /\ n + 1 - (n + 1) = 0
        BY <1>3, StrLemma
    <2>2. \A k \in n + 1 .. n : FALSE
        OBVIOUS
    <2> QED BY <2>1, <2>2
<1>5. ASSUME NEW i \in 1..n, \A j \in i + 1 .. n + 1 : Good(j) PROVE Good(i)
    <2>1. PICK j \in i + 1 .. n + 1 : j = PrintableTo(s, i)
        BY <1>1, PrintableLemma
    <2>2. PICK p \in Str : p = PrintableAt(s, i)
        BY <1>1, PrintableLemma
    <2>3. /\ ~Disturbs(s, i) => j = i + 1
          /\ Disturbs(s, i) => Len(p) + 1 < j - i + 1
          /\ Len(p) <= j - i
        BY <1>1, <2>1, <2>2, DisturbedLemma
    <2>4. j \in 1 .. n + 1 /\ h[j] \in Str /\ Len(h[j]) \in Nat /\ Len(p) \in Nat
        BY <1>2, <2>1, StrLemma
    <2>5. Len(h[i]) = Len(p) + Len(h[j])
        <3>1. PICK w \in Str : w = h[j]
            BY <2>4
        <3>2. Len(p \o w) = Len(p) + Len(w)
            BY StrConcat
        <3> QED BY <1>3, <2>1, <2>2, <3>1, <3>2
    <2>6. Len(h[j]) <= n + 1 - j /\ (Len(h[j]) = n + 1 - j => \A k \in j..n : ~Disturbs(s, k))
        BY <1>5
    <2>7. Len(h[i]) <= n + 1 - i
        BY <2>3, <2>4, <2>5, <2>6
    <2>8. ASSUME Len(h[i]) = n + 1 - i PROVE \A k \in i..n : ~Disturbs(s, k)
        <3>1. ~Disturbs(s, i) /\ Len(h[j]) = n + 1 - j
            BY <2>3, <2>4, <2>5, <2>6, <2>8
        <3>2. \A k \in i..n : k = i \/ k \in j..n
            BY <2>3, <3>1
        <3> QED BY <2>6, <3>1, <3>2
    <2> QED BY <2>7, <2>8
<1> HIDE DEF Good
<1>6. ASSUME NEW m \in Nat, \A k \in Nat : k < m => k \in Q PROVE m \in Q
    <2> SUFFICES ASSUME m <= n PROVE Good(n + 1 - m)
        OBVIOUS
    <2>1. CASE m = 0
        <3>1. n + 1 - m = n + 1
            BY <2>1
        <3> QED BY <1>4, <3>1
    <2>2. CASE m # 0
        <3>1. n + 1 - m \in 1..n
            BY <2>2
        <3>2. ASSUME NEW j \in (n + 1 - m) + 1 .. n + 1 PROVE Good(j)
            <4>1. n + 1 - j \in Nat /\ n + 1 - j < m /\ n + 1 - j <= n /\ n + 1 - (n + 1 - j) = j
                OBVIOUS
            <4> QED BY <1>6, <4>1
        <3> QED BY <1>5, <3>1, <3>2
    <2> QED BY <2>1, <2>2
<1> HIDE DEF Q
<1>7. n \in Q
    <2>1. \A m \in Nat : m \in Q
        BY <1>6, StrongInduction
    <2> QED BY <2>1
<1>8. Good(1)
    <2>1. n + 1 - n = 1
        OBVIOUS
    <2> QED BY <1>7, <2>1 DEF Q
<1>9. Len(h[1]) = n /\ n + 1 - 1 = n
    BY <1>1 DEF decode_quoted_printable, h
<1> QED BY <1>1, <1>8, <1>9 DEF Good, NoEscape

-----------------------------------------------------------------------------
(* Quoted-printable: a text is encoded byte by byte, and each byte is read  *)
(* again.                                                                   *)

(* What is encoded of a byte, or of a word's symbol.                        *)
Enc(u) == IF Direct(u) THEN <<u>> ELSE <<Equals, HexDigit(u \div 16), HexDigit(u % 16)>>

(* A byte that is not written as it is becomes = and two digits that give   *)
(* the byte.                                                                *)
LEMMA EncLemma ==
    ASSUME NEW u \in Nat
    PROVE  /\ Enc(u) \in Str
           /\ Direct(u) => Len(Enc(u)) = 1 /\ Enc(u)[1] = u /\ u # Equals
           /\ ~Direct(u) => /\ Len(Enc(u)) = 3 /\ Enc(u)[1] = Equals
                            /\ Enc(u)[2] \notin {LF, CR} /\ HexValue(Enc(u)[2]) \in 0..15 /\ HexValue(Enc(u)[3]) \in 0..15
                            /\ 16 * HexValue(Enc(u)[2]) + HexValue(Enc(u)[3]) = u
<1>1. CASE Direct(u)
    <2>1. u # Equals
        BY <1>1 DEF Direct, Equals, Space, TAB, CR, LF
    <2>2. Enc(u) = <<u>>
        BY <1>1 DEF Enc
    <2> QED BY <1>1, <2>1, <2>2, StrLemma
<1>2. CASE ~Direct(u)
    <2>1. u \in Octet
        BY <1>2 DEF Direct, Octet
    <2>2. PICK a \in 0..15, b \in 0..15 : a = u \div 16 /\ b = u % 16 /\ 16 * a + b = u
        BY <2>1, DigitPairs
    <2>3. PICK x \in Nat, y \in Nat : /\ x = HexDigit(a) /\ y = HexDigit(b)
                                      /\ HexValue(x) = a /\ HexValue(y) = b
        BY HexLemma
    <2>4. x \notin {LF, CR}
        <3>1. HexValue(LF) = -1 /\ HexValue(CR) = -1
            BY HexLemma
        <3> QED BY <2>3, <3>1
    <2>5. Enc(u) = <<Equals, x, y>>
        BY <1>2, <2>2, <2>3 DEF Enc
    <2>6. Equals \in Nat
        BY DEF Equals
    <2>7. <<Equals, x, y>> \in Str /\ Len(<<Equals, x, y>>) = 3
          /\ <<Equals, x, y>>[1] = Equals /\ <<Equals, x, y>>[2] = x /\ <<Equals, x, y>>[3] = y
        BY <2>6 DEF Str
    <2> HIDE DEF Enc
    <2>8. Enc(u) \in Str /\ Len(Enc(u)) = 3 /\ Enc(u)[1] = Equals /\ Enc(u)[2] = x /\ Enc(u)[3] = y
        BY <2>5, <2>7
    <2>9. HexValue(Enc(u)[2]) = a /\ HexValue(Enc(u)[3]) = b
        BY <2>3, <2>8
    <2> QED BY <1>2, <2>2, <2>4, <2>8, <2>9
<1> QED BY <1>1, <1>2

(* A text that is longer by a byte is encoded by that much more.            *)
LEMMA EncodedLemma ==
    ASSUME NEW s \in Str
    PROVE  /\ encode_quoted_printable(s) \in Str
           /\ \A u \in Nat : encode_quoted_printable(s \o <<u>>) = encode_quoted_printable(s) \o Enc(u)
<1> DEFINE All(x) == [i \in 1..Len(x) |-> Enc(x[i])]
           E(x) == encode_quoted_printable(x)
<1>1. ASSUME NEW x \in Str PROVE E(x) = FlattenSeq(All(x)) /\ All(x) \in Seq(Seq(Nat)) /\ Len(All(x)) = Len(x)
    <2>1. E(x) = FlattenSeq(All(x))
        BY DEF encode_quoted_printable, Enc
    <2>2. Len(x) \in Nat /\ \A i \in 1..Len(x) : Enc(x[i]) \in Seq(Nat)
        BY StrLemma, EncLemma DEF Str
    <2> QED BY <2>1, <2>2
<1>2. E(s) \in Str
    <2>1. PICK f \in [0..Len(s) -> Seq(Nat)] : E(s) = f[Len(s)]
        <3> HIDE DEF All, E
        <3> QED BY <1>1, FlattenLemma
    <2>2. Len(s) \in 0..Len(s)
        BY StrLemma
    <2> QED BY <2>1, <2>2 DEF Str
<1>3. ASSUME NEW u \in Nat PROVE E(s \o <<u>>) = E(s) \o Enc(u)
    <2>1. PICK n \in Nat : n = Len(s)
        BY StrLemma
    <2>2. PICK t \in Str : t = s \o <<u>> /\ Len(t) = n + 1 /\ t[n + 1] = u /\ \A i \in 1..n : t[i] = s[i]
        <3>1. /\ s \o <<u>> \in Str /\ Len(s \o <<u>>) = Len(s) + 1 /\ (s \o <<u>>)[Len(s) + 1] = u
              /\ \A i \in 1..Len(s) : (s \o <<u>>)[i] = s[i]
            BY StrMore
        <3> QED BY <2>1, <3>1
    <2>3. \A i \in 1..n : All(t)[i] = All(s)[i]
        <3>1. \A i \in 1..n : i \in 1 .. n + 1
            OBVIOUS
        <3> QED BY <2>1, <2>2, <3>1
    <2>4. All(t)[n + 1] = Enc(u)
        <3>1. n + 1 \in 1 .. n + 1
            OBVIOUS
        <3> QED BY <2>2, <3>1
    <2>5. Enc(u) \in Seq(Nat)
        BY EncLemma DEF Str
    <2> HIDE DEF All, E
    <2>6. All(s) \in Seq(Seq(Nat)) /\ All(t) \in Seq(Seq(Nat)) /\ Len(All(s)) = n /\ Len(All(t)) = n + 1
        BY <1>1, <2>1, <2>2
    <2>7. FlattenSeq(All(t)) = FlattenSeq(All(s)) \o Enc(u)
        BY <2>3, <2>4, <2>5, <2>6, FlattenStep
    <2> QED BY <1>1, <2>2, <2>7
<1> QED BY <1>2, <1>3

(* Nothing is encoded as nothing.                                           *)
LEMMA EncodedEmpty == encode_quoted_printable(<<>>) = <<>>
<1> DEFINE none == [i \in 1..Len(<<>>) |->
                        IF Direct(<<>>[i]) THEN <<<<>>[i]>>
                        ELSE <<Equals, HexDigit(<<>>[i] \div 16), HexDigit(<<>>[i] % 16)>>]
<1>1. none = <<>>
    OBVIOUS
<1>2. encode_quoted_printable(<<>>) = FlattenSeq(none)
    BY DEF encode_quoted_printable
<1> HIDE DEF none
<1> QED BY <1>1, <1>2, StrLemma DEF FlattenSeq

(* What is encoded of a byte is read as the byte. *)
LEMMA EncRead ==
    ASSUME NEW q \in Str, NEW i \in 1..Len(q), NEW u \in Nat, i + Len(Enc(u)) - 1 <= Len(q),
           \A j \in 1..Len(Enc(u)) : q[i + j - 1] = Enc(u)[j]
    PROVE  Unprinting(q)[i] = <<u>> \o Unprinting(q)[i + Len(Enc(u))]
<1>1. PICK b \in Str : /\ b = Enc(u)
                       /\ Direct(u) => Len(b) = 1 /\ b[1] = u /\ u # Equals
                       /\ ~Direct(u) => /\ Len(b) = 3 /\ b[1] = Equals
                                        /\ b[2] \notin {LF, CR} /\ HexValue(b[2]) \in 0..15 /\ HexValue(b[3]) \in 0..15
                                        /\ 16 * HexValue(b[2]) + HexValue(b[3]) = u
    BY EncLemma
<1>2. i \in Nat /\ Len(q) \in Nat /\ i + Len(b) - 1 <= Len(q) /\ \A j \in 1..Len(b) : q[i + j - 1] = b[j]
    BY <1>1, StrLemma
<1>3. PrintableAt(q, i) = <<u>> /\ PrintableTo(q, i) = i + Len(b)
    <2>1. CASE Direct(u)
        <3>1. 1 \in 1..1 /\ i + 1 - 1 = i
            BY <1>2
        <3>2. q[i] = u /\ q[i] # Equals /\ Len(b) = 1
            BY <1>1, <1>2, <2>1, <3>1
        <3>3. SoftBreak(q, i) = 0 /\ ~IsHexPair(q, i)
            BY <3>2 DEF SoftBreak, IsHexPair
        <3> QED BY <3>2, <3>3 DEF PrintableAt, PrintableTo
    <2>2. CASE ~Direct(u)
        <3>1. 1 \in 1..3 /\ 2 \in 1..3 /\ 3 \in 1..3 /\ i + 1 - 1 = i /\ i + 2 - 1 = i + 1 /\ i + 3 - 1 = i + 2
            BY <1>2
        <3>2. Len(b) = 3 /\ b[1] = Equals /\ b[2] \notin {LF, CR} /\ HexValue(b[2]) \in 0..15 /\ HexValue(b[3]) \in 0..15
              /\ 16 * HexValue(b[2]) + HexValue(b[3]) = u
            BY <1>1, <2>2
        <3>3. q[i] = Equals /\ q[i + 1] = b[2] /\ q[i + 2] = b[3] /\ i + 2 <= Len(q)
            BY <1>2, <3>1, <3>2
        <3>4. i + 1 <= Len(q)
            BY <1>2, <3>3
        <3>5. Following(q, i + 1) = b[2] /\ Following(q, i + 2) = b[3]
            BY <3>3, <3>4 DEF Following
        <3>6. SoftBreak(q, i) = 0
            BY <3>2, <3>3, <3>5 DEF SoftBreak
        <3>7. IsHexPair(q, i)
            <4>1. \A h \in 0..15 : h >= 0
                OBVIOUS
            <4>2. HexValue(b[2]) >= 0 /\ HexValue(b[3]) >= 0
                BY <3>2, <4>1, Zenon
            <4> QED BY <3>3, <3>5, <4>2 DEF IsHexPair
        <3> QED BY <3>2, <3>3, <3>6, <3>7 DEF PrintableAt, PrintableTo
    <2> QED BY <2>1, <2>2
<1> QED BY <1>1, <1>3, UnprintingLemma

(* However the text goes on behind it, the encoding of s is read as s.      *)
Printed(s, t) ==
    LET q == encode_quoted_printable(s) \o t
    IN  Unprinting(q)[1] = s \o Unprinting(q)[1 + Len(encode_quoted_printable(s))]

(* One byte more is read as well.                                           *)
LEMMA PrintedStep ==
    ASSUME NEW s \in Str, NEW u \in Nat, NEW t \in Str, Printed(s, Enc(u) \o t)
    PROVE  Printed(s \o <<u>>, t)
<1>1. \A w \in Str : (s \o <<u>>) \o w = s \o (<<u>> \o w)
    <2>1. <<u>> \in Str
        BY StrLemma
    <2> QED BY <2>1, StrAssoc
<1>2. PICK a \in Str : a = encode_quoted_printable(s) /\ encode_quoted_printable(s \o <<u>>) = a \o Enc(u)
    BY EncodedLemma
<1>3. PICK b \in Str : b = Enc(u) /\ Len(b) >= 1
    BY EncLemma
<1>4. PICK k \in Nat, m \in Nat, n \in Nat : k = Len(a) /\ m = Len(t) /\ n = Len(b) /\ n >= 1
    BY <1>3, StrLemma
<1>5. PICK bt \in Str : bt = b \o t /\ Len(bt) = n + m /\ \A j \in 1..n : bt[j] = b[j]
    <2>1. b \o t \in Str /\ Len(b \o t) = Len(b) + Len(t) /\ \A j \in 1..Len(b) : (b \o t)[j] = b[j]
        BY StrConcat
    <2> QED BY <1>4, <2>1
<1>6. PICK q \in Str : q = a \o bt /\ Len(q) = k + (n + m) /\ \A j \in 1 .. n + m : q[k + j] = bt[j]
    <2>1. a \o bt \in Str /\ Len(a \o bt) = Len(a) + Len(bt) /\ \A j \in 1..Len(bt) : (a \o bt)[Len(a) + j] = bt[j]
        BY StrConcat
    <2>2. PICK q \in Str : q = a \o bt /\ Len(q) = Len(a) + Len(bt) /\ \A j \in 1..Len(bt) : q[Len(a) + j] = bt[j]
        BY <2>1
    <2>3. Len(q) = k + (n + m) /\ \A j \in 1 .. n + m : q[k + j] = bt[j]
        BY <1>4, <1>5, <2>2
    <2> QED BY <2>2, <2>3
<1>7. (a \o b) \o t = q
    <2>1. (a \o b) \o t = a \o (b \o t)
        BY StrAssoc, SMTT(40)
    <2> QED BY <1>5, <1>6, <2>1
<1>8. Len(a \o b) = k + n
    <2>1. Len(a \o b) = Len(a) + Len(b)
        BY StrConcat
    <2> QED BY <1>4, <2>1
<1> DEFINE U == Unprinting(q)
<1>9. U[1] = s \o U[1 + k]
    BY <1>2, <1>3, <1>4, <1>5, <1>6 DEF Printed
<1>10. U[1 + k] = <<u>> \o U[1 + k + n]
    <2>1. 1 + k \in 1..Len(q) /\ 1 + k + n - 1 <= Len(q)
        BY <1>4, <1>6
    <2>2. \A j \in 1..n : q[1 + k + j - 1] = b[j]
        <3> TAKE j \in 1..n
        <3>1. 1 + k + j - 1 = k + j /\ j \in 1 .. n + m
            OBVIOUS
        <3> QED BY <1>5, <1>6, <3>1
    <2>3. PICK i \in 1..Len(q) : i = 1 + k
        BY <2>1
    <2>4. i + Len(Enc(u)) - 1 <= Len(q) /\ \A j \in 1..Len(Enc(u)) : q[i + j - 1] = Enc(u)[j]
        BY <1>3, <1>4, <2>1, <2>2, <2>3
    <2>5. Unprinting(q)[i] = <<u>> \o Unprinting(q)[i + Len(Enc(u))]
        BY <2>4, EncRead
    <2> QED BY <1>3, <1>4, <2>3, <2>5
<1>11. U[1 + k + n] \in Str
    <2>1. 1 + k + n \in 1 .. Len(q) + 1
        BY <1>6
    <2> QED BY <2>1, UnprintingLemma
<1>12. U[1] = (s \o <<u>>) \o U[1 + k + n]
    <2>1. PICK w \in Str : w = U[1 + k + n]
        BY <1>11
    <2> HIDE DEF U
    <2>2. (s \o <<u>>) \o w = s \o (<<u>> \o w)
        BY <1>1
    <2> QED BY <1>9, <1>10, <2>1, <2>2
<1>13. 1 + (k + n) = 1 + k + n
    OBVIOUS
<1> HIDE DEF U
<1> QED BY <1>2, <1>3, <1>7, <1>8, <1>12, <1>13, ZenonT(40) DEF Printed, U

(* Quoted-printable loses nothing: decode_quoted_printable of               *)
(* encode_quoted_printable is the text, whatever the text is.               *)
THEOREM PrintableRoundTrip ==
    ASSUME NEW s \in Str
    PROVE  decode_quoted_printable(encode_quoted_printable(s)) = s
<1> DEFINE P == {x \in Str : \A t \in Str : Printed(x, t)}
<1>1. <<>> \in P
    <2> SUFFICES ASSUME NEW t \in Str PROVE Printed(<<>>, t)
        BY StrLemma
    <2>1. encode_quoted_printable(<<>>) = <<>> /\ Len(<<>>) = 0 /\ <<>> \o t = t /\ 1 + 0 = 1
        BY EncodedEmpty, StrLemma
    <2>2. Unprinting(t)[1] \in Str
        <3>1. 1 \in 1 .. Len(t) + 1
            BY StrLemma
        <3> QED BY <3>1, UnprintingLemma
    <2>3. <<>> \o Unprinting(t)[1] = Unprinting(t)[1]
        BY <2>2, StrLemma
    <2> QED BY <2>1, <2>3 DEF Printed
<1>2. ASSUME NEW x \in Str, NEW u \in Nat, x \in P PROVE x \o <<u>> \in P
    <2> SUFFICES ASSUME NEW t \in Str PROVE Printed(x \o <<u>>, t)
        BY StrMore
    <2>1. Enc(u) \in Str
        BY EncLemma
    <2>2. Enc(u) \o t \in Str
        BY <2>1, StrConcat
    <2>3. Printed(x, Enc(u) \o t)
        BY <1>2, <2>2
    <2> QED BY <2>3, PrintedStep
<1> HIDE DEF P
<1>3. s \in P
    BY <1>1, <1>2, SeqInduction DEF Str
<1>4. PICK q \in Str : q = encode_quoted_printable(s)
    BY EncodedLemma
<1>5. q \o <<>> = q /\ <<>> \in Str
    BY StrLemma
<1>6. Unprinting(q)[1] = s \o Unprinting(q)[1 + Len(q)]
    BY <1>3, <1>4, <1>5 DEF P, Printed
<1>7. Unprinting(q)[1 + Len(q)] = <<>>
    <2>1. 1 + Len(q) = Len(q) + 1
        BY StrLemma
    <2> QED BY <2>1, UnprintingLemma
<1>8. s \o <<>> = s
    BY StrLemma
<1> QED BY <1>4, <1>6, <1>7, <1>8 DEF decode_quoted_printable

-----------------------------------------------------------------------------
(* Encryption: XOR bit by bit.                                              *)

(* Sums of bits are undone by adding a bit again, and higher bits do not    *)
(* count.                                                                   *)
LEMMA ParityLemma ==
    /\ \A x, y \in Nat : (x + y) % 2 \in {0, 1} /\ (((x + y) % 2) + y) % 2 = x % 2
    /\ \A x, y, z \in Nat : (x + 2 * z + y) % 2 = (x + y) % 2
<1>1. ASSUME NEW x \in Nat, NEW y \in Nat PROVE (x + y) % 2 \in {0, 1} /\ (((x + y) % 2) + y) % 2 = x % 2
    <2>1. PICK r \in {0, 1}, q \in Nat : x + y = 2 * q + r /\ (x + y) % 2 = r
        <3>1. (x + y) % 2 \in {0, 1} /\ (x + y) \div 2 \in Nat /\ x + y = 2 * ((x + y) \div 2) + ((x + y) % 2)
            OBVIOUS
        <3> QED BY <3>1
    <2>2. (r + y) % 2 = x % 2
        <3>1. r = 0 \/ r = 1
            OBVIOUS
        <3> QED BY <2>1, <3>1
    <2> QED BY <2>1, <2>2
<1>2. ASSUME NEW x \in Nat, NEW y \in Nat, NEW z \in Nat PROVE (x + 2 * z + y) % 2 = (x + y) % 2
    OBVIOUS
<1> QED BY <1>1, <1>2

(* A bit of a XOR.                                                          *)
XorBit(a, b, p) == (a \div p + b \div p) % 2

(* The bits of a XOR, and what they make together.                          *)
LEMMA XorBits ==
    ASSUME NEW a \in Octet, NEW b \in Octet
    PROVE  /\ \A p \in {1, 2, 4, 8, 16, 32, 64, 128} : /\ XorBit(a, b, p) \in {0, 1}
                                                       /\ (XorBit(a, b, p) + b \div p) % 2 = (a \div p) % 2
           /\ Xor(a, b) = XorBit(a, b, 1) * 1 + XorBit(a, b, 2) * 2 + XorBit(a, b, 4) * 4 + XorBit(a, b, 8) * 8
                          + XorBit(a, b, 16) * 16 + XorBit(a, b, 32) * 32 + XorBit(a, b, 64) * 64 + XorBit(a, b, 128) * 128
<1>1. a \in Nat /\ b \in Nat
    BY DEF Octet
<1>2. ASSUME NEW p \in {1, 2, 4, 8, 16, 32, 64, 128}
      PROVE  /\ XorBit(a, b, p) \in {0, 1}
             /\ (XorBit(a, b, p) + b \div p) % 2 = (a \div p) % 2
    <2>1. a \div p \in Nat /\ b \div p \in Nat
        BY <1>1
    <2>2. PICK x \in Nat, y \in Nat : x = a \div p /\ y = b \div p
        BY <2>1
    <2> QED BY <2>2, ParityLemma DEF XorBit
<1> QED BY <1>2 DEF Xor, XorBit

(* The bits of a number made of eight bits.                                 *)
LEMMA BitsLemma ==
    ASSUME NEW x1 \in {0, 1}, NEW x2 \in {0, 1}, NEW x3 \in {0, 1}, NEW x4 \in {0, 1},
           NEW x5 \in {0, 1}, NEW x6 \in {0, 1}, NEW x7 \in {0, 1}, NEW x8 \in {0, 1}
    PROVE  LET c == x1 * 1 + x2 * 2 + x3 * 4 + x4 * 8 + x5 * 16 + x6 * 32 + x7 * 64 + x8 * 128 IN
           /\ c \in Octet
           /\ c \div 1 = x1 + 2 * (x2 + 2 * x3 + 4 * x4 + 8 * x5 + 16 * x6 + 32 * x7 + 64 * x8)
           /\ c \div 2 = x2 + 2 * (x3 + 2 * x4 + 4 * x5 + 8 * x6 + 16 * x7 + 32 * x8)
           /\ c \div 4 = x3 + 2 * (x4 + 2 * x5 + 4 * x6 + 8 * x7 + 16 * x8)
           /\ c \div 8 = x4 + 2 * (x5 + 2 * x6 + 4 * x7 + 8 * x8)
           /\ c \div 16 = x5 + 2 * (x6 + 2 * x7 + 4 * x8)
           /\ c \div 32 = x6 + 2 * (x7 + 2 * x8)
           /\ c \div 64 = x7 + 2 * x8
           /\ c \div 128 = x8
<1> DEFINE c == x1 * 1 + x2 * 2 + x3 * 4 + x4 * 8 + x5 * 16 + x6 * 32 + x7 * 64 + x8 * 128
<1>1. c \in Octet
    BY DEF Octet
<1>2. c \div 1 = x1 + 2 * (x2 + 2 * x3 + 4 * x4 + 8 * x5 + 16 * x6 + 32 * x7 + 64 * x8)
    OBVIOUS
<1>3. c \div 2 = x2 + 2 * (x3 + 2 * x4 + 4 * x5 + 8 * x6 + 16 * x7 + 32 * x8)
    OBVIOUS
<1>4. c \div 4 = x3 + 2 * (x4 + 2 * x5 + 4 * x6 + 8 * x7 + 16 * x8)
    OBVIOUS
<1>5. c \div 8 = x4 + 2 * (x5 + 2 * x6 + 4 * x7 + 8 * x8)
    OBVIOUS
<1>6. c \div 16 = x5 + 2 * (x6 + 2 * x7 + 4 * x8)
    OBVIOUS
<1>7. c \div 32 = x6 + 2 * (x7 + 2 * x8)
    OBVIOUS
<1>8. c \div 64 = x7 + 2 * x8
    OBVIOUS
<1>9. c \div 128 = x8
    OBVIOUS
<1> QED BY <1>1, <1>2, <1>3, <1>4, <1>5, <1>6, <1>7, <1>8, <1>9

(* A byte is the sum of its bits.                                           *)
LEMMA OctetBits ==
    ASSUME NEW a \in Octet
    PROVE  a = ((a \div 1) % 2) * 1 + ((a \div 2) % 2) * 2 + ((a \div 4) % 2) * 4 + ((a \div 8) % 2) * 8
               + ((a \div 16) % 2) * 16 + ((a \div 32) % 2) * 32 + ((a \div 64) % 2) * 64 + ((a \div 128) % 2) * 128
<1>1. a \in Nat /\ a <= 255
    BY DEF Octet
<1>2. a \div 1 = a /\ a \div 2 = (a \div 1) \div 2 /\ a \div 4 = (a \div 2) \div 2 /\ a \div 8 = (a \div 4) \div 2
      /\ a \div 16 = (a \div 8) \div 2 /\ a \div 32 = (a \div 16) \div 2 /\ a \div 64 = (a \div 32) \div 2
      /\ a \div 128 = (a \div 64) \div 2 /\ a \div 128 \in {0, 1}
    BY <1>1
<1>3. \A x \in Nat : x \div 2 \in Nat /\ x = 2 * (x \div 2) + (x % 2)
    OBVIOUS
<1>4. /\ a = 2 * (a \div 2) + ((a \div 1) % 2) /\ a \div 2 = 2 * (a \div 4) + ((a \div 2) % 2)
      /\ a \div 4 = 2 * (a \div 8) + ((a \div 4) % 2) /\ a \div 8 = 2 * (a \div 16) + ((a \div 8) % 2)
      /\ a \div 16 = 2 * (a \div 32) + ((a \div 16) % 2) /\ a \div 32 = 2 * (a \div 64) + ((a \div 32) % 2)
      /\ a \div 64 = 2 * (a \div 128) + ((a \div 64) % 2) /\ a \div 128 = (a \div 128) % 2
    BY <1>1, <1>2, <1>3
<1> QED BY <1>1, <1>4

(* XOR with the same byte twice changes nothing.                            *)
LEMMA XorTwice ==
    ASSUME NEW a \in Octet, NEW b \in Octet
    PROVE  Xor(a, b) \in Octet /\ Xor(Xor(a, b), b) = a
<1> DEFINE x(p) == XorBit(a, b, p)
           c == Xor(a, b)
<1>1. /\ x(1) \in {0, 1} /\ x(2) \in {0, 1} /\ x(4) \in {0, 1} /\ x(8) \in {0, 1}
      /\ x(16) \in {0, 1} /\ x(32) \in {0, 1} /\ x(64) \in {0, 1} /\ x(128) \in {0, 1}
    BY XorBits
<1>2. c = x(1) * 1 + x(2) * 2 + x(4) * 4 + x(8) * 8 + x(16) * 16 + x(32) * 32 + x(64) * 64 + x(128) * 128
    BY XorBits
<1>3. \A p \in {1, 2, 4, 8, 16, 32, 64, 128} : (x(p) + b \div p) % 2 = (a \div p) % 2
    BY XorBits
<1> HIDE DEF x, c
<1>4. c \in Octet /\ \A p \in {1, 2, 4, 8, 16, 32, 64, 128} : \E z \in Nat : c \div p = x(p) + 2 * z
    <2>1. PICK x1 \in {0, 1}, x2 \in {0, 1}, x3 \in {0, 1}, x4 \in {0, 1},
               x5 \in {0, 1}, x6 \in {0, 1}, x7 \in {0, 1}, x8 \in {0, 1} :
            x1 = x(1) /\ x2 = x(2) /\ x3 = x(4) /\ x4 = x(8) /\ x5 = x(16) /\ x6 = x(32) /\ x7 = x(64) /\ x8 = x(128)
        BY <1>1
    <2>2. c = x1 * 1 + x2 * 2 + x3 * 4 + x4 * 8 + x5 * 16 + x6 * 32 + x7 * 64 + x8 * 128
        BY <1>2, <2>1
    <2>3. /\ c \in Octet
          /\ c \div 1 = x1 + 2 * (x2 + 2 * x3 + 4 * x4 + 8 * x5 + 16 * x6 + 32 * x7 + 64 * x8)
          /\ c \div 2 = x2 + 2 * (x3 + 2 * x4 + 4 * x5 + 8 * x6 + 16 * x7 + 32 * x8)
          /\ c \div 4 = x3 + 2 * (x4 + 2 * x5 + 4 * x6 + 8 * x7 + 16 * x8)
          /\ c \div 8 = x4 + 2 * (x5 + 2 * x6 + 4 * x7 + 8 * x8)
          /\ c \div 16 = x5 + 2 * (x6 + 2 * x7 + 4 * x8)
          /\ c \div 32 = x6 + 2 * (x7 + 2 * x8)
          /\ c \div 64 = x7 + 2 * x8
          /\ c \div 128 = x8 + 2 * 0
        <3>1. x8 + 2 * 0 = x8
            OBVIOUS
        <3> QED BY <2>2, <3>1, BitsLemma
    <2>4. /\ x2 + 2 * x3 + 4 * x4 + 8 * x5 + 16 * x6 + 32 * x7 + 64 * x8 \in Nat
          /\ x3 + 2 * x4 + 4 * x5 + 8 * x6 + 16 * x7 + 32 * x8 \in Nat
          /\ x4 + 2 * x5 + 4 * x6 + 8 * x7 + 16 * x8 \in Nat
          /\ x5 + 2 * x6 + 4 * x7 + 8 * x8 \in Nat
          /\ x6 + 2 * x7 + 4 * x8 \in Nat /\ x7 + 2 * x8 \in Nat /\ x8 \in Nat /\ 0 \in Nat
        OBVIOUS
    <2>5. ASSUME NEW p \in {1, 2, 4, 8, 16, 32, 64, 128} PROVE \E z \in Nat : c \div p = x(p) + 2 * z
        <3>1. CASE p = 1
            BY <2>1, <2>3, <2>4, <3>1, SMTT(40)
        <3>2. CASE p = 2
            BY <2>1, <2>3, <2>4, <3>2, ZenonT(20)
        <3>3. CASE p = 4
            BY <2>1, <2>3, <2>4, <3>3, ZenonT(20)
        <3>4. CASE p = 8
            BY <2>1, <2>3, <2>4, <3>4, ZenonT(20)
        <3>5. CASE p = 16
            BY <2>1, <2>3, <2>4, <3>5, ZenonT(20)
        <3>6. CASE p = 32
            BY <2>1, <2>3, <2>4, <3>6, ZenonT(20)
        <3>7. CASE p = 64
            BY <2>1, <2>3, <2>4, <3>7, SMTT(40)
        <3>8. CASE p = 128
            BY <2>1, <2>3, <2>4, <3>8, ZenonT(20)
        <3> QED BY <3>1, <3>2, <3>3, <3>4, <3>5, <3>6, <3>7, <3>8
    <2> QED BY <2>3, <2>5
<1>5. ASSUME NEW p \in {1, 2, 4, 8, 16, 32, 64, 128}
      PROVE  XorBit(c, b, p) = (a \div p) % 2
    <2>1. b \div p \in Nat /\ x(p) \in Nat
        <3>1. b \in Nat
            BY DEF Octet
        <3> QED BY <1>1, <3>1
    <2>2. PICK z \in Nat : c \div p = x(p) + 2 * z
        BY <1>4
    <2>3. (x(p) + 2 * z + b \div p) % 2 = (x(p) + b \div p) % 2
        BY <2>1, ParityLemma
    <2> QED BY <1>3, <2>2, <2>3 DEF XorBit
<1>6. Xor(c, b) = XorBit(c, b, 1) * 1 + XorBit(c, b, 2) * 2 + XorBit(c, b, 4) * 4 + XorBit(c, b, 8) * 8
                  + XorBit(c, b, 16) * 16 + XorBit(c, b, 32) * 32 + XorBit(c, b, 64) * 64 + XorBit(c, b, 128) * 128
    BY <1>4, XorBits
<1>7. Xor(c, b) = a
    BY <1>5, <1>6, OctetBits
<1> QED BY <1>4, <1>7 DEF c

(* A byte masked twice with the key's byte is as it was.                    *)
LEMMA MaskedLemma ==
    ASSUME NEW a \in Octet, NEW i \in Nat \ {0}
    PROVE  Masked(a, i) \in Octet /\ Masked(Masked(a, i), i) = a
<1>1. Len(XorKey) = 12 /\ \A k \in 1..12 : XorKey[k] \in Octet
    BY DEF XorKey, Octet
<1>2. ((i - 1) % 12) + 1 \in 1..12
    OBVIOUS
<1>3. PICK b \in Octet : b = XorKey[((i - 1) % Len(XorKey)) + 1]
    BY <1>1, <1>2
<1> QED BY <1>3, XorTwice DEF Masked

(* An encrypted text is twice as long and has nothing but hexadecimal       *)
(* digits, the two of each masked byte.                                     *)
LEMMA EncryptedLemma ==
    ASSUME NEW s \in Seq(Octet)
    PROVE  /\ encrypt_string(s) \in Str /\ Len(encrypt_string(s)) = 2 * Len(s)
           /\ \A k \in 1 .. 2 * Len(s) : encrypt_string(s)[k] \in {LowerHex(n) : n \in 0..15}
           /\ \A i \in 1..Len(s) : /\ encrypt_string(s)[2 * i - 1] = LowerHex(Masked(s[i], i) \div 16)
                                   /\ encrypt_string(s)[2 * i] = LowerHex(Masked(s[i], i) % 16)
<1> DEFINE e == encrypt_string(s)
           v(k) == LET i == (k + 1) \div 2
                   IN  LowerHex(IF k % 2 = 1 THEN Masked(s[i], i) \div 16 ELSE Masked(s[i], i) % 16)
<1>1. PICK n \in Nat : n = Len(s)
    BY LenProperties
<1>2. e = [k \in 1 .. 2 * n |-> v(k)]
    BY <1>1 DEF encrypt_string
<1>3. ASSUME NEW i \in 1..n PROVE /\ Masked(s[i], i) \div 16 \in 0..15 /\ Masked(s[i], i) % 16 \in 0..15
    <2>1. s[i] \in Octet
        BY <1>1, ElementOfSeq
    <2>2. Masked(s[i], i) \in Octet
        BY <2>1, MaskedLemma
    <2> QED BY <2>2, DigitPairs
<1>4. ASSUME NEW k \in 1 .. 2 * n PROVE v(k) \in {LowerHex(m) : m \in 0..15}
    <2>1. PICK i \in 1..n : i = (k + 1) \div 2
        OBVIOUS
    <2>2. PICK m \in 0..15 : m = IF k % 2 = 1 THEN Masked(s[i], i) \div 16 ELSE Masked(s[i], i) % 16
        BY <1>3
    <2>3. v(k) = LowerHex(m)
        BY <2>1, <2>2
    <2> HIDE DEF v
    <2> QED BY <2>3
<1>5. \A m \in 0..15 : LowerHex(m) \in Nat
    <2> TAKE m \in 0..15
    <2>1. PICK x \in 33..126 : x = LowerHex(m)
        BY HexLemma
    <2>2. x \in Nat
        OBVIOUS
    <2> QED BY <2>1, <2>2
<1>6. \A i \in 1..n : /\ 2 * i - 1 \in 1 .. 2 * n /\ 2 * i \in 1 .. 2 * n
                      /\ (2 * i - 1 + 1) \div 2 = i /\ (2 * i - 1) % 2 = 1
                      /\ (2 * i + 1) \div 2 = i /\ (2 * i) % 2 # 1
    OBVIOUS
<1>7. \A i \in 1..n : e[2 * i - 1] = LowerHex(Masked(s[i], i) \div 16) /\ e[2 * i] = LowerHex(Masked(s[i], i) % 16)
    <2> TAKE i \in 1..n
    <2>1. e[2 * i - 1] = v(2 * i - 1) /\ e[2 * i] = v(2 * i)
        BY <1>2, <1>6
    <2> QED BY <1>6, <2>1
<1> HIDE DEF v
<1>8. \A k \in 1 .. 2 * n : e[k] \in {LowerHex(m) : m \in 0..15} /\ e[k] \in Nat
    BY <1>2, <1>4, <1>5
<1>9. e \in Str /\ Len(e) = 2 * n
    <2>1. 2 * n \in Nat
        OBVIOUS
    <2> HIDE DEF e
    <2>2. \A k \in 1 .. 2 * n : v(k) \in Nat
        BY <1>2, <1>8
    <2> QED BY <1>2, <2>1, <2>2 DEF Str
<1> QED BY <1>1, <1>7, <1>8, <1>9

(* Encryption loses nothing: decrypt_string of encrypt_string is the text,  *)
(* for any bytes and any length.                                            *)
THEOREM EncryptionRoundTrip ==
    ASSUME NEW s \in Seq(Octet)
    PROVE  decrypt_string(encrypt_string(s)) = s
<1> DEFINE e == encrypt_string(s)
<1>1. PICK n \in Nat : n = Len(s)
    BY LenProperties
<1>2. /\ e \in Str /\ Len(e) = 2 * n
      /\ \A k \in 1 .. 2 * n : e[k] \in {LowerHex(m) : m \in 0..15}
      /\ \A i \in 1..n : e[2 * i - 1] = LowerHex(Masked(s[i], i) \div 16) /\ e[2 * i] = LowerHex(Masked(s[i], i) % 16)
    BY <1>1, EncryptedLemma
<1> HIDE DEF e
<1>3. (2 * n) % 2 = 0 /\ (2 * n) \div 2 = n
    OBVIOUS
<1>4. \A k \in 1 .. 2 * n : ~(HexValue(e[k]) < 0)
    <2> TAKE k \in 1 .. 2 * n
    <2>1. PICK m \in 0..15 : e[k] = LowerHex(m)
        BY <1>2
    <2>2. HexValue(e[k]) = m
        BY <2>1, HexLemma
    <2> QED BY <2>2
<1>5. decrypt_string(e) = [i \in 1..n |-> Masked(16 * HexValue(e[2 * i - 1]) + HexValue(e[2 * i]), i)]
    BY <1>2, <1>3, <1>4 DEF decrypt_string
<1>6. ASSUME NEW i \in 1..n PROVE Masked(16 * HexValue(e[2 * i - 1]) + HexValue(e[2 * i]), i) = s[i]
    <2>1. s[i] \in Octet
        BY <1>1, ElementOfSeq
    <2>2. PICK m \in Octet : m = Masked(s[i], i) /\ Masked(m, i) = s[i]
        BY <2>1, MaskedLemma
    <2>3. PICK h \in 0..15, l \in 0..15 : h = m \div 16 /\ l = m % 16 /\ 16 * h + l = m
        BY <2>2, DigitPairs, ZenonT(60)
    <2>4. HexValue(e[2 * i - 1]) = h /\ HexValue(e[2 * i]) = l
        BY <1>2, <2>2, <2>3, HexLemma
    <2> QED BY <2>2, <2>3, <2>4
<1>7. s = [i \in 1..n |-> s[i]]
    BY <1>1
<1> QED BY <1>5, <1>6, <1>7 DEF e

-----------------------------------------------------------------------------
(* Base64: three bytes in four digits.                                      *)

(* One, two or three numbers, joined.                                       *)
LEMMA JoinedLemma ==
    ASSUME NEW a \in Nat, NEW b \in Nat, NEW c \in Nat
    PROVE  /\ <<a>> \o <<>> \o <<>> = <<a>>
           /\ <<a>> \o <<b>> \o <<>> \in Str /\ Len(<<a>> \o <<b>> \o <<>>) = 2
           /\ (<<a>> \o <<b>> \o <<>>)[1] = a /\ (<<a>> \o <<b>> \o <<>>)[2] = b
           /\ <<a>> \o <<b>> \o <<c>> \in Str /\ Len(<<a>> \o <<b>> \o <<c>>) = 3
           /\ (<<a>> \o <<b>> \o <<c>>)[1] = a /\ (<<a>> \o <<b>> \o <<c>>)[2] = b /\ (<<a>> \o <<b>> \o <<c>>)[3] = c
<1>1. PICK p \in Str : p = <<a>> /\ Len(p) = 1 /\ p[1] = a
    BY StrLemma
<1>2. 1 \in 1..1 /\ 1 \in 1..2 /\ 2 \in 1..2 /\ 1 + 1 = 2 /\ 2 + 1 = 3
    OBVIOUS
<1>3. p \o <<>> = p
    BY StrLemma
<1>4. PICK q \in Str : q = <<a>> \o <<b>> /\ Len(q) = 2 /\ q[1] = a /\ q[2] = b
    <2>1. /\ p \o <<b>> \in Str /\ Len(p \o <<b>>) = Len(p) + 1 /\ (p \o <<b>>)[Len(p) + 1] = b
          /\ \A i \in 1..Len(p) : (p \o <<b>>)[i] = p[i]
        BY StrMore
    <2> QED BY <1>1, <1>2, <2>1
<1>5. q \o <<>> = q
    BY StrLemma
<1>6. PICK r \in Str : r = <<a>> \o <<b>> \o <<c>> /\ Len(r) = 3 /\ r[1] = a /\ r[2] = b /\ r[3] = c
    <2>1. /\ q \o <<c>> \in Str /\ Len(q \o <<c>>) = Len(q) + 1 /\ (q \o <<c>>)[Len(q) + 1] = c
          /\ \A i \in 1..Len(q) : (q \o <<c>>)[i] = q[i]
        BY StrMore
    <2> QED BY <1>2, <1>4, <2>1, ZenonT(60)
<1> QED BY <1>1, <1>3, <1>4, <1>5, <1>6

(* A beginning of a sequence and the part behind it.                        *)
LEMMA PartsJoin ==
    ASSUME NEW s \in Str, NEW i \in Nat, NEW j \in Nat, i <= j, j <= Len(s)
    PROVE  Part(s, 1, i) \o Part(s, i + 1, j) = Part(s, 1, j)
<1>1. PICK n \in Nat : n = Len(s)
    BY StrLemma
<1>2. ASSUME NEW m \in Nat, m <= n
      PROVE  Part(s, 1, m) \in Str /\ Len(Part(s, 1, m)) = m /\ \A k \in 1..m : Part(s, 1, m)[k] = s[k]
    <2>1. 1 \in Nat \ {0} /\ m - 1 + 1 = m /\ (1 <= m \/ m = 0) /\ \A k \in 1..m : 1 + k - 1 = k
        OBVIOUS
    <2>2. /\ Part(s, 1, m) \in Str /\ Len(Part(s, 1, m)) = IF 1 <= m THEN m - 1 + 1 ELSE 0
          /\ \A k \in 1 .. m - 1 + 1 : Part(s, 1, m)[k] = s[1 + k - 1]
        BY <1>1, <1>2, <2>1, StrPart, SMTT(40)
    <2> QED BY <2>1, <2>2
<1>3. PICK a \in Str : a = Part(s, 1, i) /\ Len(a) = i /\ \A k \in 1..i : a[k] = s[k]
    BY <1>1, <1>2
<1>4. PICK c \in Str : c = Part(s, 1, j) /\ Len(c) = j /\ \A k \in 1..j : c[k] = s[k]
    BY <1>1, <1>2
<1>5. PICK b \in Str : b = Part(s, i + 1, j) /\ Len(b) = j - i /\ \A k \in 1 .. j - i : b[k] = s[i + k]
    <2>1. PICK m \in Nat \ {0} : m = i + 1
        OBVIOUS
    <2>2. /\ Part(s, m, j) \in Str /\ Len(Part(s, m, j)) = IF m <= j THEN j - m + 1 ELSE 0
          /\ \A k \in 1 .. j - m + 1 : Part(s, m, j)[k] = s[m + k - 1]
        BY StrPart
    <2>3. j - m + 1 = j - i /\ (m <= j \/ j - i = 0) /\ \A k \in 1 .. j - i : m + k - 1 = i + k
        BY <2>1
    <2>4. Part(s, m, j) \in Str /\ Len(Part(s, m, j)) = j - i /\ \A k \in 1 .. j - i : Part(s, m, j)[k] = s[i + k]
        BY <2>2, <2>3
    <2> QED BY <2>1, <2>4
<1>6. PICK ab \in Str : ab = a \o b /\ Len(ab) = i + (j - i) /\ (\A k \in 1..i : ab[k] = a[k]) /\ \A k \in 1 .. j - i : ab[i + k] = b[k]
    <2>1. /\ a \o b \in Str /\ Len(a \o b) = Len(a) + Len(b)
          /\ \A k \in 1..Len(a) : (a \o b)[k] = a[k]
          /\ \A k \in 1..Len(b) : (a \o b)[Len(a) + k] = b[k]
        BY StrConcat
    <2>2. PICK ab \in Str : /\ ab = a \o b /\ Len(ab) = Len(a) + Len(b)
                            /\ \A k \in 1..Len(a) : ab[k] = a[k]
                            /\ \A k \in 1..Len(b) : ab[Len(a) + k] = b[k]
        BY <2>1
    <2>3. Len(ab) = i + (j - i) /\ (\A k \in 1..i : ab[k] = a[k]) /\ \A k \in 1 .. j - i : ab[i + k] = b[k]
        BY <1>3, <1>5, <2>2
    <2> QED BY <2>2, <2>3
<1>7. \A k \in 1..j : ab[k] = c[k]
    <2> TAKE k \in 1..j
    <2>1. CASE k <= i
        BY <1>3, <1>4, <1>6, <2>1
    <2>2. CASE ~(k <= i)
        <3>1. k - i \in 1 .. j - i /\ i + (k - i) = k
            BY <2>2
        <3>2. ab[i + (k - i)] = b[k - i] /\ b[k - i] = s[i + (k - i)]
            BY <1>5, <1>6, <3>1
        <3> QED BY <1>4, <3>1, <3>2
    <2> QED BY <2>1, <2>2
<1>8. i + (j - i) = j
    OBVIOUS
<1>9. ab = c
    BY <1>4, <1>6, <1>7, <1>8, StrEqual
<1> QED BY <1>3, <1>4, <1>5, <1>6, <1>9

(* The four digits of three bytes are digits and give the bytes back.       *)
LEMMA QuartetLemma ==
    ASSUME NEW a \in Octet, NEW b \in Octet, NEW c \in Octet
    PROVE  /\ a \div 4 \in 0..63 /\ (a % 4) * 16 + b \div 16 \in 0..63
           /\ (b % 16) * 4 + c \div 64 \in 0..63 /\ c % 64 \in 0..63
           /\ (a \div 4) * 4 + ((a % 4) * 16 + b \div 16) \div 16 = a
           /\ (((a % 4) * 16 + b \div 16) % 16) * 16 + ((b % 16) * 4 + c \div 64) \div 4 = b
           /\ (((b % 16) * 4 + c \div 64) % 4) * 64 + (c % 64) = c
<1>1. a \in 0..255 /\ b \in 0..255 /\ c \in 0..255
    BY DEF Octet
<1>2. PICK a1 \in 0..63, a2 \in 0..3 : a1 = a \div 4 /\ a2 = a % 4 /\ a = 4 * a1 + a2
    <2>1. a \div 4 \in 0..63 /\ a % 4 \in 0..3 /\ a = 4 * (a \div 4) + (a % 4)
        BY <1>1
    <2> QED BY <2>1
<1>3. PICK b1 \in 0..15, b2 \in 0..15 : b1 = b \div 16 /\ b2 = b % 16 /\ b = 16 * b1 + b2
    <2>1. b \div 16 \in 0..15 /\ b % 16 \in 0..15 /\ b = 16 * (b \div 16) + (b % 16)
        BY <1>1
    <2> QED BY <2>1
<1>4. PICK c1 \in 0..3, c2 \in 0..63 : c1 = c \div 64 /\ c2 = c % 64 /\ c = 64 * c1 + c2
    <2>1. c \div 64 \in 0..3 /\ c % 64 \in 0..63 /\ c = 64 * (c \div 64) + (c % 64)
        BY <1>1
    <2> QED BY <2>1
<1>5. /\ a2 * 16 + b1 \in 0..63 /\ b2 * 4 + c1 \in 0..63
      /\ (a2 * 16 + b1) \div 16 = a2 /\ (a2 * 16 + b1) % 16 = b1
      /\ (b2 * 4 + c1) \div 4 = b2 /\ (b2 * 4 + c1) % 4 = c1
    OBVIOUS
<1>6. a1 * 4 + a2 = a /\ b1 * 16 + b2 = b /\ c1 * 64 + c2 = c
    BY <1>2, <1>3, <1>4
<1> QED BY <1>2, <1>3, <1>4, <1>5, <1>6

(* The digits of the bytes from the i-th on, and the bytes read from them. *)
ByteOr0(s, i) == IF i <= Len(s) THEN s[i] ELSE 0
Quartet(s, i) ==
    <<ByteOr0(s, i) \div 4,
      (ByteOr0(s, i) % 4) * 16 + ByteOr0(s, i + 1) \div 16,
      IF i + 1 <= Len(s) THEN (ByteOr0(s, i + 1) % 16) * 4 + ByteOr0(s, i + 2) \div 64 ELSE Pad,
      IF i + 2 <= Len(s) THEN ByteOr0(s, i + 2) % 64 ELSE Pad>>

(* The digits of up to three bytes are read as these bytes.                 *)
LEMMA QuartetRead ==
    ASSUME NEW s \in Seq(Octet), NEW i \in 1..Len(s), NEW t, NEW k \in Nat,
           t[k] = Quartet(s, i)[1], t[k + 1] = Quartet(s, i)[2], t[k + 2] = Quartet(s, i)[3], t[k + 3] = Quartet(s, i)[4]
    PROVE  BytesAt(t, k) = Part(s, i, IF i + 2 <= Len(s) THEN i + 2 ELSE Len(s))
<1>1. PICK n \in Nat : n = Len(s)
    BY LenProperties
<1>2. \A j \in Nat \ {0} : ByteOr0(s, j) \in Octet
    <2> TAKE j \in Nat \ {0}
    <2>1. CASE j <= n
        BY <1>1, <2>1, ElementOfSeq DEF ByteOr0
    <2>2. CASE ~(j <= n)
        BY <1>1, <2>2 DEF ByteOr0, Octet
    <2> QED BY <2>1, <2>2
<1>3. PICK a \in Octet, b \in Octet, c \in Octet : a = ByteOr0(s, i) /\ b = ByteOr0(s, i + 1) /\ c = ByteOr0(s, i + 2)
    BY <1>2
<1>4. PICK w \in 0..63, x \in 0..63, y \in 0..63, z \in 0..63 :
        /\ w = a \div 4 /\ x = (a % 4) * 16 + b \div 16 /\ y = (b % 16) * 4 + c \div 64 /\ z = c % 64
        /\ w * 4 + x \div 16 = a /\ (x % 16) * 16 + y \div 4 = b /\ (y % 4) * 64 + z = c
    <2>1. /\ a \div 4 \in 0..63 /\ (a % 4) * 16 + b \div 16 \in 0..63
          /\ (b % 16) * 4 + c \div 64 \in 0..63 /\ c % 64 \in 0..63
          /\ (a \div 4) * 4 + ((a % 4) * 16 + b \div 16) \div 16 = a
          /\ (((a % 4) * 16 + b \div 16) % 16) * 16 + ((b % 16) * 4 + c \div 64) \div 4 = b
          /\ (((b % 16) * 4 + c \div 64) % 4) * 64 + (c % 64) = c
        BY QuartetLemma
    <2> USE <2>1
    <2> WITNESS a \div 4 \in 0..63, (a % 4) * 16 + b \div 16 \in 0..63,
                (b % 16) * 4 + c \div 64 \in 0..63, c % 64 \in 0..63
    <2> QED BY Zenon
<1>5. Quartet(s, i) = <<w, x, IF i + 1 <= n THEN y ELSE Pad, IF i + 2 <= n THEN z ELSE Pad>>
    BY <1>1, <1>3, <1>4 DEF Quartet
<1>6. t[k] = w /\ t[k + 1] = x /\ t[k + 2] = (IF i + 1 <= n THEN y ELSE Pad) /\ t[k + 3] = (IF i + 2 <= n THEN z ELSE Pad)
    BY <1>5
<1>7. w # Pad /\ x # Pad /\ y # Pad /\ z # Pad
    BY DEF Pad
<1>8. i \in Nat \ {0} /\ i <= n /\ a = s[i]
    BY <1>1, <1>3 DEF ByteOr0
<1>9. s \in Str /\ a \in Nat /\ b \in Nat /\ c \in Nat
    <2>1. \A x1 \in Octet : x1 \in Nat
        BY DEF Octet
    <2>2. \A m \in 1..n : s[m] \in Octet
        BY <1>1, ElementOfSeq
    <2>3. \A m \in 1..n : s[m] \in Nat
        BY <2>1, <2>2
    <2> QED BY <1>1, <2>1, <2>3, SMTT(40) DEF Str
<1>10. ASSUME NEW j \in Nat, i <= j, j <= n
      PROVE  /\ Part(s, i, j) \in Str /\ Len(Part(s, i, j)) = j - i + 1
             /\ \A m \in 1 .. j - i + 1 : Part(s, i, j)[m] = s[i + m - 1]
    BY <1>1, <1>8, <1>9, <1>10, StrPart
<1>11. CASE i + 2 <= n
    <2>1. b = s[i + 1] /\ c = s[i + 2] /\ i + 1 <= n
        BY <1>1, <1>3, <1>8, <1>11 DEF ByteOr0
    <2>2. BytesAt(t, k) = <<a>> \o <<b>> \o <<c>>
        BY <1>4, <1>6, <1>7, <1>11, <2>1 DEF BytesAt
    <2>3. PICK r \in Str : r = BytesAt(t, k) /\ Len(r) = 3 /\ r[1] = a /\ r[2] = b /\ r[3] = c
        <3>1. <<a>> \o <<b>> \o <<c>> \in Str /\ Len(<<a>> \o <<b>> \o <<c>>) = 3
              /\ (<<a>> \o <<b>> \o <<c>>)[1] = a /\ (<<a>> \o <<b>> \o <<c>>)[2] = b /\ (<<a>> \o <<b>> \o <<c>>)[3] = c
            BY <1>9, JoinedLemma
        <3> QED BY <2>2, <3>1
    <2>4. i + 2 \in Nat /\ i <= i + 2 /\ i + 2 - i + 1 = 3 /\ i + 1 - 1 = i /\ i + 2 - 1 = i + 1 /\ i + 3 - 1 = i + 2
          /\ 1 \in 1..3 /\ 2 \in 1..3 /\ 3 \in 1..3
        BY <1>8
    <2>5. PICK p \in Str : p = Part(s, i, i + 2) /\ Len(p) = 3 /\ p[1] = s[i] /\ p[2] = s[i + 1] /\ p[3] = s[i + 2]
        <3>1. PICK j \in Nat : j = i + 2 /\ i <= j /\ j <= n /\ j - i + 1 = 3
            BY <1>8, <1>11, <2>4
        <3>2. /\ Part(s, i, j) \in Str /\ Len(Part(s, i, j)) = 3
              /\ \A m \in 1..3 : Part(s, i, j)[m] = s[i + m - 1]
            BY <1>10, <3>1
        <3> QED BY <2>4, <3>1, <3>2
    <2>6. \A m \in 1..3 : m = 1 \/ m = 2 \/ m = 3
        OBVIOUS
    <2>7. r = p
        <3>1. r[1] = p[1] /\ r[2] = p[2] /\ r[3] = p[3]
            BY <1>8, <2>1, <2>3, <2>5
        <3>2. Len(r) = Len(p) /\ \A m \in 1..Len(r) : r[m] = p[m]
            BY <2>3, <2>5, <2>6, <3>1
        <3> QED BY <3>2, StrEqual
    <2> QED BY <1>1, <1>11, <2>3, <2>5, <2>7
<1>12. CASE ~(i + 2 <= n) /\ i + 1 <= n
    <2>1. b = s[i + 1] /\ n = i + 1
        BY <1>1, <1>3, <1>8, <1>12 DEF ByteOr0
    <2>2. BytesAt(t, k) = <<a>> \o <<b>> \o <<>>
        BY <1>4, <1>6, <1>7, <1>12, <2>1 DEF BytesAt
    <2>3. PICK r \in Str : r = BytesAt(t, k) /\ Len(r) = 2 /\ r[1] = a /\ r[2] = b
        <3>1. <<a>> \o <<b>> \o <<>> \in Str /\ Len(<<a>> \o <<b>> \o <<>>) = 2
              /\ (<<a>> \o <<b>> \o <<>>)[1] = a /\ (<<a>> \o <<b>> \o <<>>)[2] = b
            BY <1>9, JoinedLemma
        <3> QED BY <2>2, <3>1
    <2>4. i + 1 \in Nat /\ i <= i + 1 /\ i + 1 - i + 1 = 2 /\ i + 1 - 1 = i /\ i + 2 - 1 = i + 1
          /\ 1 \in 1..2 /\ 2 \in 1..2
        BY <1>8
    <2>5. PICK p \in Str : p = Part(s, i, i + 1) /\ Len(p) = 2 /\ p[1] = s[i] /\ p[2] = s[i + 1]
        <3>1. PICK j \in Nat : j = i + 1 /\ i <= j /\ j <= n /\ j - i + 1 = 2
            BY <1>8, <1>12, <2>4
        <3>2. /\ Part(s, i, j) \in Str /\ Len(Part(s, i, j)) = 2
              /\ \A m \in 1..2 : Part(s, i, j)[m] = s[i + m - 1]
            BY <1>10, <3>1
        <3> QED BY <2>4, <3>1, <3>2
    <2>6. \A m \in 1..2 : m = 1 \/ m = 2
        OBVIOUS
    <2>7. r = p
        <3>1. r[1] = p[1] /\ r[2] = p[2]
            BY <1>8, <2>1, <2>3, <2>5
        <3>2. Len(r) = Len(p) /\ \A m \in 1..Len(r) : r[m] = p[m]
            BY <2>3, <2>5, <2>6, <3>1
        <3> QED BY <3>2, StrEqual
    <2> QED BY <1>1, <1>12, <2>1, <2>3, <2>5, <2>7
<1>13. CASE ~(i + 1 <= n)
    <2>1. n = i /\ ~(i + 2 <= n)
        BY <1>8, <1>13
    <2>2. BytesAt(t, k) = <<a>> \o <<>> \o <<>>
        BY <1>4, <1>6, <1>7, <1>13, <2>1 DEF BytesAt
    <2>3. PICK r \in Str : r = BytesAt(t, k) /\ Len(r) = 1 /\ r[1] = a
        BY <1>9, <2>2, JoinedLemma, StrLemma
    <2>4. i \in Nat /\ i <= i /\ i - i + 1 = 1 /\ i + 1 - 1 = i /\ 1 \in 1..1
        BY <1>8
    <2>5. PICK p \in Str : p = Part(s, i, i) /\ Len(p) = 1 /\ p[1] = s[i]
        <3>1. PICK j \in Nat : j = i /\ i <= j /\ j <= n /\ j - i + 1 = 1
            BY <1>8, <1>13, <2>4
        <3>2. /\ Part(s, i, j) \in Str /\ Len(Part(s, i, j)) = 1
              /\ \A m \in 1..1 : Part(s, i, j)[m] = s[i + m - 1]
            BY <1>10, <3>1
        <3> QED BY <2>4, <3>1, <3>2
    <2>6. \A m \in 1..1 : m = 1
        OBVIOUS
    <2>7. r = p
        <3>1. r[1] = p[1]
            BY <1>8, <2>3, <2>5
        <3>2. Len(r) = Len(p) /\ \A m \in 1..Len(r) : r[m] = p[m]
            BY <2>3, <2>5, <2>6, <3>1
        <3> QED BY <3>2, StrEqual
    <2> QED BY <1>1, <1>13, <2>1, <2>3, <2>5, <2>7
<1> QED BY <1>11, <1>12, <1>13

(* Base64 of a payload loses nothing: base64_decode of base64_encode is the *)
(* payload, whatever its bytes and its length.                              *)
THEOREM PayloadRoundTrip ==
    ASSUME NEW s \in Seq(Octet)
    PROVE  base64_decode(base64_encode(s)) = s
<1>1. PICK n \in Nat : n = Len(s)
    BY LenProperties
<1>2. PICK G \in Nat : G = (n + 2) \div 3
    OBVIOUS
<1>3. s \in Str
    <2>1. \A i \in 1..n : s[i] \in Octet
        BY <1>1, ElementOfSeq
    <2>2. \A i \in 1..n : s[i] \in Nat
        <3>1. \A x \in Octet : x \in Nat
            BY DEF Octet
        <3> QED BY <2>1, <3>1
    <2> QED BY <1>1, <2>2 DEF Str
<1> DEFINE t == base64_encode(s)
           v(k) == Quartet(s, 3 * ((k - 1) \div 4) + 1)[((k - 1) % 4) + 1]
           M(g) == IF 3 * g <= n THEN 3 * g ELSE n
           groups == [g \in 1..G |-> BytesAt(t, 4 * g - 3)]
<1>4. t = [k \in 1 .. 4 * G |-> v(k)]
    BY <1>1, <1>2 DEF base64_encode, Quartet, ByteOr0
<1>5. ASSUME NEW g \in 1..G
      PROVE  /\ 3 * g - 2 \in 1..n
             /\ t[4 * g - 3] = Quartet(s, 3 * g - 2)[1] /\ t[4 * g - 3 + 1] = Quartet(s, 3 * g - 2)[2]
             /\ t[4 * g - 3 + 2] = Quartet(s, 3 * g - 2)[3] /\ t[4 * g - 3 + 3] = Quartet(s, 3 * g - 2)[4]
    <2>1. 3 * g - 2 \in 1..n
        BY <1>2
    <2>2. ASSUME NEW d \in 0..3 PROVE t[4 * g - 3 + d] = Quartet(s, 3 * g - 2)[d + 1]
        <3>1. PICK k \in 1 .. 4 * G : k = 4 * g - 3 + d
            OBVIOUS
        <3>2. (k - 1) \div 4 = g - 1 /\ (k - 1) % 4 = d
            BY <3>1
        <3>3. 3 * (g - 1) + 1 = 3 * g - 2
            OBVIOUS
        <3>4. v(k) = Quartet(s, 3 * g - 2)[d + 1]
            BY <3>2, <3>3
        <3> HIDE DEF t, v
        <3> QED BY <1>4, <3>1, <3>4
    <2>3. t[4 * g - 3 + 0] = Quartet(s, 3 * g - 2)[0 + 1] /\ 4 * g - 3 + 0 = 4 * g - 3 /\ 0 + 1 = 1
        BY <2>2
    <2>4. t[4 * g - 3 + 1] = Quartet(s, 3 * g - 2)[1 + 1] /\ 1 + 1 = 2
        BY <2>2
    <2>5. t[4 * g - 3 + 2] = Quartet(s, 3 * g - 2)[2 + 1] /\ 2 + 1 = 3
        BY <2>2
    <2>6. t[4 * g - 3 + 3] = Quartet(s, 3 * g - 2)[3 + 1] /\ 3 + 1 = 4
        BY <2>2
    <2> HIDE DEF t
    <2> QED BY <2>1, <2>3, <2>4, <2>5, <2>6
<1>6. Len(t) = 4 * G /\ (4 * G) \div 4 = G
    <2>1. 4 * G \in Nat /\ (4 * G) \div 4 = G
        OBVIOUS
    <2> HIDE DEF t, v
    <2> QED BY <1>4, <2>1
<1>7. base64_decode(t) = FlattenSeq(groups)
    <2>1. base64_decode(t) = FlattenSeq([g \in 1 .. Len(t) \div 4 |-> BytesAt(t, 4 * g - 3)])
        BY DEF base64_decode
    <2> HIDE DEF t
    <2> QED BY <1>6, <2>1
<1> HIDE DEF t, v
<1>8. ASSUME NEW g \in 1..G PROVE groups[g] = Part(s, 3 * (g - 1) + 1, M(g))
    <2>1. PICK i \in 1..n : i = 3 * g - 2
        BY <1>5
    <2>2. PICK k \in Nat : k = 4 * g - 3
        OBVIOUS
    <2>3. BytesAt(t, k) = Part(s, i, IF i + 2 <= Len(s) THEN i + 2 ELSE Len(s))
        BY <1>1, <1>5, <2>1, <2>2, QuartetRead
    <2>4. i + 2 = 3 * g /\ i = 3 * (g - 1) + 1
        BY <2>1
    <2> QED BY <1>1, <2>2, <2>3, <2>4
<1>9. ASSUME NEW g \in 1..G PROVE M(g - 1) = 3 * (g - 1) /\ M(g - 1) \in Nat /\ M(g) \in Nat /\ M(g - 1) <= M(g) /\ M(g) <= n
    BY <1>2
<1>10. groups \in Seq(Seq(Nat)) /\ Len(groups) = G
    <2>1. \A g \in 1..G : groups[g] \in Seq(Nat)
        <3> TAKE g \in 1..G
        <3>1. PICK i \in Nat \ {0}, j \in Nat : i = 3 * (g - 1) + 1 /\ j = M(g) /\ j <= n
            BY <1>9
        <3>2. Part(s, i, j) \in Str
            BY <1>1, <1>3, <3>1, StrPart
        <3> QED BY <1>8, <3>1, <3>2 DEF Str
    <2> QED BY <2>1
<1> HIDE DEF groups
<1>11. PICK f \in [0..G -> Seq(Nat)] : Joins(f, groups) /\ FlattenSeq(groups) = f[G]
    BY <1>10, FlattenLemma
<1> DEFINE Q == {g \in Nat : g <= G => f[g] = Part(s, 1, M(g))}
<1>12. 0 \in Q
    <2>1. M(0) = 0 /\ 1 \in Nat \ {0} /\ 0 \in Nat /\ 0 <= Len(s)
        BY <1>1
    <2>2. PICK z \in Nat, o \in Nat \ {0} : z = 0 /\ o = 1 /\ z <= Len(s)
        BY <2>1
    <2>3. Part(s, o, z) \in Str /\ Len(Part(s, o, z)) = IF o <= z THEN z - o + 1 ELSE 0
        BY <1>3, <2>2, StrPart
    <2>4. Len(Part(s, o, z)) = 0
        BY <2>2, <2>3
    <2>5. Part(s, 1, 0) = <<>>
        BY <2>2, <2>3, <2>4, StrLemma
    <2> QED BY <1>11, <2>1, <2>5 DEF Joins
<1>13. ASSUME NEW g \in Nat, g \in Q PROVE g + 1 \in Q
    <2> SUFFICES ASSUME g + 1 <= G PROVE f[g + 1] = Part(s, 1, M(g + 1))
        OBVIOUS
    <2>1. PICK h \in 1..G : h = g + 1 /\ h - 1 = g
        OBVIOUS
    <2>2. f[g] = Part(s, 1, M(g))
        BY <1>13, <2>1
    <2>3. f[h] = f[h - 1] \o groups[h]
        BY <1>10, <1>11 DEF Joins
    <2>4. PICK i \in Nat, j \in Nat : i = M(g) /\ i = 3 * (h - 1) /\ j = M(h) /\ i <= j /\ j <= n
        BY <1>9, <2>1
    <2>5. groups[h] = Part(s, i + 1, j)
        BY <1>8, <2>4
    <2>6. Part(s, 1, i) \o Part(s, i + 1, j) = Part(s, 1, j)
        BY <1>1, <1>3, <2>4, PartsJoin
    <2> HIDE DEF M
    <2> QED BY <2>1, <2>2, <2>3, <2>4, <2>5, <2>6
<1>14. M(G) = n
    BY <1>2
<1> HIDE DEF Q, M
<1>15. G \in Q
    BY <1>12, <1>13, Induction
<1>16. f[G] = Part(s, 1, n)
    BY <1>14, <1>15 DEF Q
<1>17. Part(s, 1, n) = s
    BY <1>1, <1>3, PartLemma
<1> QED BY <1>7, <1>11, <1>16, <1>17 DEF t

-----------------------------------------------------------------------------
(* Least and greatest places, and the ends of a trimmed text.               *)

(* Min is the least element, if there is one.                               *)
LEMMA LeastIs ==
    ASSUME NEW S, S \subseteq Nat, NEW x \in S, \A y \in S : x <= y
    PROVE  Min(S) = x
<1>1. \A z \in S : (\A y \in S : z <= y) => z = x
    OBVIOUS
<1> QED BY <1>1 DEF Min

(* Max is the greatest element, if there is one.                            *)
LEMMA GreatestIs ==
    ASSUME NEW S, S \subseteq Nat, NEW x \in S, \A y \in S : y <= x
    PROVE  Max(S) = x
<1>1. \A z \in S : (\A y \in S : z >= y) => z = x
    OBVIOUS
<1>2. \A y \in S : x >= y
    OBVIOUS
<1> QED BY <1>1, <1>2 DEF Max

(* Numbers have a least element.                                            *)
LEMMA Least ==
    ASSUME NEW S, S \subseteq Nat, S # {}
    PROVE  \E x \in S : \A y \in S : x <= y
<1> SUFFICES ASSUME \A x \in S : \E y \in S : y < x PROVE FALSE
    OBVIOUS
<1> DEFINE P == Nat \ S
<1>1. ASSUME NEW n \in Nat, \A m \in Nat : m < n => m \in P PROVE n \in P
    BY <1>1
<1> HIDE DEF P
<1>2. \A n \in Nat : n \in P
    BY <1>1, StrongInduction
<1> QED BY <1>2 DEF P

(* Numbers up to a bound have a greatest element.                           *)
LEMMA Greatest ==
    ASSUME NEW n \in Nat, NEW S, S \subseteq 0..n, S # {}
    PROVE  \E x \in S : \A y \in S : y <= x
<1> DEFINE T == {n - x : x \in S}
<1>1. T \subseteq Nat /\ T # {}
    <2>1. \A x \in S : n - x \in Nat
        OBVIOUS
    <2>2. PICK x \in S : TRUE
        OBVIOUS
    <2>3. n - x \in T
        BY <2>2
    <2>4. \A y \in T : \E z \in S : y = n - z
        OBVIOUS
    <2> HIDE DEF T
    <2> QED BY <2>1, <2>3, <2>4
<1> HIDE DEF T
<1>2. PICK m \in T : \A y \in T : m <= y
    BY <1>1, Least
<1>3. PICK x \in S : m = n - x
    BY DEF T
<1>4. \A y \in S : n - x <= n - y
    BY <1>2, <1>3 DEF T
<1>5. \A y \in S : y \in Int /\ x \in Int
    OBVIOUS
<1> QED BY <1>4, <1>5

(* A trimmed text is the part between two characters that are not blank, if *)
(* all others are.                                                          *)
LEMMA TrimIs ==
    ASSUME NEW s \in Str, NEW i \in 1..Len(s), NEW j \in i..Len(s), s[i] \notin Blank, s[j] \notin Blank,
           \A k \in 1..Len(s) : k < i \/ k > j => s[k] \in Blank
    PROVE  Trim(s) = Part(s, i, j)
<1> DEFINE kept == {k \in 1..Len(s) : s[k] \notin Blank}
<1>1. PICK n \in Nat : n = Len(s)
    BY StrLemma
<1>2. kept \subseteq Nat /\ i \in kept /\ j \in kept
    BY <1>1
<1>3. \A k \in kept : i <= k /\ k <= j
    BY <1>1
<1>4. Trim(s) = IF kept = {} THEN <<>> ELSE SubSeq(s, Min(kept), Max(kept))
    BY DEF Trim
<1> HIDE DEF kept
<1>5. Min(kept) = i /\ Max(kept) = j
    BY <1>2, <1>3, LeastIs, GreatestIs
<1> QED BY <1>2, <1>4, <1>5 DEF Part

(* A text without blanks at its ends is not changed.                        *)
LEMMA TrimEnds ==
    ASSUME NEW s \in Str, s # <<>>, s[1] \notin Blank, s[Len(s)] \notin Blank
    PROVE  Trim(s) = s
<1>1. 1 \in 1..Len(s) /\ Len(s) \in 1..Len(s) /\ Len(s) \in Nat
    BY StrLemma
<1>2. \A k \in 1..Len(s) : ~(k < 1) /\ ~(k > Len(s))
    BY <1>1
<1>3. Trim(s) = Part(s, 1, Len(s))
    BY <1>1, <1>2, TrimIs
<1> QED BY <1>3, PartLemma

(* A text that trimming does not change has no blanks at its ends.          *)
LEMMA TrimmedEnds ==
    ASSUME NEW s \in Str, s # <<>>, Trim(s) = s
    PROVE  s[1] \notin Blank /\ s[Len(s)] \notin Blank
<1> DEFINE kept == {k \in 1..Len(s) : s[k] \notin Blank}
<1>1. PICK n \in Nat : n = Len(s) /\ n > 0
    BY StrLemma
<1>2. kept # {} /\ s = SubSeq(s, Min(kept), Max(kept))
    BY DEF Trim
<1>3. kept \subseteq 1..n /\ \A k \in kept : s[k] \notin Blank
    BY <1>1
<1> HIDE DEF kept
<1>4. kept \subseteq Nat /\ kept \subseteq 0..n
    BY <1>3
<1>5. PICK i \in kept : \A y \in kept : i <= y
    BY <1>2, <1>4, Least
<1>6. PICK j \in kept : \A y \in kept : y <= j
    BY <1>2, <1>4, Greatest
<1>7. Min(kept) = i /\ Max(kept) = j
    BY <1>4, <1>5, <1>6, LeastIs, GreatestIs
<1>8. i \in Nat \ {0} /\ j \in Nat /\ i <= j /\ j <= n
    BY <1>3, <1>5
<1>9. Len(Part(s, i, j)) = j - i + 1
    BY <1>1, <1>8, StrPart
<1>10. n = j - i + 1
    BY <1>1, <1>2, <1>7, <1>9 DEF Part
<1>11. i = 1 /\ j = n
    BY <1>8, <1>10
<1> QED BY <1>1, <1>3, <1>5, <1>6, <1>11

(* A text that ends with no blank loses only blanks at its beginning. *)
LEMMA TrimFront ==
    ASSUME NEW s \in Str, s # <<>>, s[Len(s)] \notin Blank
    PROVE  \E i \in 1..Len(s) : Trim(s) = Part(s, i, Len(s)) /\ s[i] \notin Blank
<1> DEFINE kept == {k \in 1..Len(s) : s[k] \notin Blank}
<1>1. PICK n \in Nat : n = Len(s) /\ n > 0
    BY StrLemma
<1>2. kept \subseteq Nat /\ n \in kept /\ kept \subseteq 1..n
    BY <1>1
<1>3. \A k \in kept : s[k] \notin Blank
    OBVIOUS
<1>4. \A k \in 1..n : k \notin kept => s[k] \in Blank
    BY <1>1
<1> HIDE DEF kept
<1>5. PICK i \in kept : \A y \in kept : i <= y
    BY <1>2, Least
<1>6. i \in 1..n /\ n \in i..n /\ s[i] \notin Blank
    BY <1>2, <1>3, <1>5
<1>7. \A k \in 1..n : k < i \/ k > n => s[k] \in Blank
    <2> TAKE k \in 1..n
    <2> HAVE k < i \/ k > n
    <2>1. k \notin kept
        BY <1>2, <1>5
    <2> QED BY <1>4, <2>1
<1>8. Trim(s) = Part(s, i, n)
    BY <1>1, <1>6, <1>7, TrimIs
<1> QED BY <1>1, <1>6, <1>8

-----------------------------------------------------------------------------
(* Pieces of a text between delimiters.                                     *)

(* A delimiter is found behind the place where the search begins, or none   *)
(* is.                                                                      *)
LEMMA EndInLemma ==
    ASSUME NEW s \in Str, NEW d, NEW i \in 1..Len(s)
    PROVE  EndIn(s, d, i) = 0 \/ EndIn(s, d, i) \in i..Len(s)
<1> DEFINE I == {j \in i..Len(s) : s[j] = d}
<1>1. EndIn(s, d, i) = IF I # {} THEN Min(I) ELSE 0
    BY DEF EndIn, SelectInSubSeq
<1>2. CASE I # {}
    <2>1. I \subseteq Nat
        BY StrLemma
    <2>2. PICK x \in I : \A y \in I : x <= y
        <3> HIDE DEF I
        <3> QED BY <1>2, <2>1, Least
    <2>3. Min(I) = x
        <3> HIDE DEF I
        <3> QED BY <2>1, <2>2, LeastIs
    <2> QED BY <1>1, <1>2, <2>2, <2>3
<1> QED BY <1>1, <1>2

(* The first delimiter is found, and none where there is none.              *)
LEMMA EndInIs ==
    ASSUME NEW s \in Str, NEW d, NEW i \in 1..Len(s)
    PROVE  /\ (\A k \in i..Len(s) : s[k] # d) => EndIn(s, d, i) = 0
           /\ \A e \in i..Len(s) : s[e] = d /\ (\A k \in i .. e - 1 : s[k] # d) => EndIn(s, d, i) = e
<1> DEFINE I == {j \in i..Len(s) : s[j] = d}
<1>1. EndIn(s, d, i) = IF I # {} THEN Min(I) ELSE 0
    BY DEF EndIn, SelectInSubSeq
<1>2. ASSUME NEW e \in i..Len(s), s[e] = d, \A k \in i .. e - 1 : s[k] # d PROVE EndIn(s, d, i) = e
    <2>1. I \subseteq Nat /\ e \in I /\ Len(s) \in Nat /\ i \in Nat
        BY <1>2, StrLemma
    <2>2. \A y \in I : e <= y
        BY <1>2, <2>1
    <2> HIDE DEF I
    <2>3. Min(I) = e
        BY <2>1, <2>2, LeastIs
    <2> QED BY <1>1, <2>1, <2>3
<1>3. ASSUME \A k \in i..Len(s) : s[k] # d PROVE EndIn(s, d, i) = 0
    <2>1. I = {}
        BY <1>3
    <2> QED BY <1>1, <2>1
<1> QED BY <1>2, <1>3

(* A piece is a text, and the next one begins behind it.                    *)
LEMMA PieceLemma ==
    ASSUME NEW s \in Str, NEW d, NEW i \in 1..Len(s)
    PROVE  PieceAt(s, d, i) \in Str /\ PieceTo(s, d, i) \in i + 1 .. Len(s) + 1
<1>1. PICK n \in Nat : n = Len(s) /\ i \in 1..n
    BY StrLemma
<1>2. PICK e : e = EndIn(s, d, i)
    OBVIOUS
<1>3. e = 0 \/ e \in i..n
    BY <1>1, <1>2, EndInLemma
<1>4. PieceTo(s, d, i) \in i + 1 .. n + 1
    BY <1>1, <1>2, <1>3 DEF PieceTo
<1>5. PICK m \in Nat, k \in Nat \ {0} : m = (IF e = 0 THEN n ELSE e - 1) /\ m <= n /\ k = i
    BY <1>1, <1>3
<1>6. Part(s, k, m) \in Str
    BY <1>1, <1>5, StrPart
<1>7. PieceAt(s, d, i) = Part(s, k, m)
    BY <1>1, <1>2, <1>5 DEF PieceAt, Part
<1> QED BY <1>1, <1>4, <1>6, <1>7

(* The function of getline's loop: the pieces from each place on.           *)
LEMMA PiecesLemma ==
    ASSUME NEW s \in Str, NEW d
    PROVE  /\ \A i \in 1 .. Len(s) + 1 : Pieces(s, d)[i] \in Seq(Str)
           /\ Pieces(s, d)[Len(s) + 1] = <<>>
           /\ \A i \in 1..Len(s) : Pieces(s, d)[i] = <<PieceAt(s, d, i)>> \o Pieces(s, d)[PieceTo(s, d, i)]
<1> DEFINE part == [i \in 1..Len(s) |-> <<PieceAt(s, d, i)>>]
           next == [i \in 1..Len(s) |-> PieceTo(s, d, i)]
           Q(f) == f = [i \in 1 .. Len(s) + 1 |->
                            IF i > Len(s) THEN <<>> ELSE <<PieceAt(s, d, i)>> \o f[PieceTo(s, d, i)]]
           h == Pieces(s, d)
<1>1. PICK n \in Nat : n = Len(s)
    BY StrLemma
<1>2. part \in [1..n -> Seq(Str)] /\ Advances(next, n)
    <2>1. \A i \in 1..n : part[i] \in Seq(Str) /\ next[i] \in i + 1 .. n + 1
        <3> TAKE i \in 1..n
        <3>1. PICK x \in Str : x = PieceAt(s, d, i)
            BY <1>1, PieceLemma
        <3>2. <<x>> \in Seq(Str)
            OBVIOUS
        <3>3. part[i] = <<x>> /\ next[i] = PieceTo(s, d, i)
            BY <1>1, <3>1
        <3> HIDE DEF part, next
        <3> QED BY <1>1, <3>2, <3>3, PieceLemma
    <2>2. DOMAIN part = 1..n /\ part = [i \in 1..n |-> part[i]]
        BY <1>1
    <2> HIDE DEF part, next
    <2> QED BY <2>1, <2>2 DEF Advances
<1>3. PICK f : Q(f)
    <2>1. PICK f : Rereads(f, part, next, n)
        <3> HIDE DEF part, next
        <3> QED BY <1>2, ReadingFixed
    <2>2. \A i \in 1 .. n + 1 : ~(i > n) => part[i] = <<PieceAt(s, d, i)>> /\ next[i] = PieceTo(s, d, i)
        <3> TAKE i \in 1 .. n + 1
        <3> HAVE ~(i > n)
        <3>1. i \in 1..n
            OBVIOUS
        <3> QED BY <1>1, <3>1
    <2> HIDE DEF part, next
    <2>3. \A i \in 1 .. n + 1 : f[i] = IF i > n THEN <<>> ELSE <<PieceAt(s, d, i)>> \o f[PieceTo(s, d, i)]
        BY <2>1, <2>2 DEF Rereads
    <2>4. f = [i \in 1 .. n + 1 |-> f[i]]
        BY <2>1 DEF Rereads
    <2> QED BY <1>1, <2>3, <2>4
<1>4. h = CHOOSE g : Q(g)
    BY DEF Pieces
<1> HIDE DEF Q
<1>5. Q(h)
    BY <1>3, <1>4
<1> HIDE DEF h
<1>6. \A i \in 1 .. n + 1 : h[i] = IF i > n THEN <<>> ELSE <<PieceAt(s, d, i)>> \o h[PieceTo(s, d, i)]
    BY <1>1, <1>5 DEF Q
<1>7. h[n + 1] = <<>> /\ \A i \in 1..n : h[i] = <<PieceAt(s, d, i)>> \o h[PieceTo(s, d, i)]
    <2>1. n + 1 \in 1 .. n + 1 /\ n + 1 > n /\ \A i \in 1..n : i \in 1 .. n + 1 /\ ~(i > n)
        OBVIOUS
    <2> QED BY <1>6, <2>1
<1>8. IsReading(h, part, next, n)
    <2>1. \A i \in 1..n : part[i] = <<PieceAt(s, d, i)>> /\ next[i] = PieceTo(s, d, i)
        BY <1>1
    <2> HIDE DEF part, next
    <2> QED BY <1>7, <2>1 DEF IsReading
<1> HIDE DEF part, next
<1>9. \A i \in 1 .. n + 1 : h[i] \in Seq(Str)
    BY <1>2, <1>8, ReadingTyped
<1> QED BY <1>1, <1>7, <1>9 DEF h

(* A piece up to a delimiter, and the last one. *)
LEMMA PieceIs ==
    ASSUME NEW s \in Str, NEW d, NEW i \in 1..Len(s)
    PROVE  /\ (\A k \in i..Len(s) : s[k] # d) => Pieces(s, d)[i] = <<Part(s, i, Len(s))>>
           /\ \A e \in i..Len(s) : s[e] = d /\ (\A k \in i .. e - 1 : s[k] # d) =>
                Pieces(s, d)[i] = <<Part(s, i, e - 1)>> \o Pieces(s, d)[e + 1]
<1>1. ASSUME \A k \in i..Len(s) : s[k] # d PROVE Pieces(s, d)[i] = <<Part(s, i, Len(s))>>
    <2>1. EndIn(s, d, i) = 0
        BY <1>1, EndInIs
    <2>2. PieceAt(s, d, i) = Part(s, i, Len(s)) /\ PieceTo(s, d, i) = Len(s) + 1
        BY <2>1 DEF PieceAt, PieceTo, Part
    <2>3. PICK x \in Str : x = Part(s, i, Len(s))
        BY <2>2, PieceLemma
    <2>4. /\ Pieces(s, d)[i] = <<PieceAt(s, d, i)>> \o Pieces(s, d)[PieceTo(s, d, i)]
          /\ Pieces(s, d)[Len(s) + 1] = <<>>
        BY PiecesLemma
    <2>5. <<x>> \o <<>> = <<x>>
        OBVIOUS
    <2>6. Pieces(s, d)[i] = <<x>> \o <<>>
        BY <2>2, <2>3, <2>4
    <2> QED BY <2>3, <2>5, <2>6
<1>2. ASSUME NEW e \in i..Len(s), s[e] = d, \A k \in i .. e - 1 : s[k] # d
      PROVE  Pieces(s, d)[i] = <<Part(s, i, e - 1)>> \o Pieces(s, d)[e + 1]
    <2>1. EndIn(s, d, i) = e /\ e # 0
        BY <1>2, EndInIs
    <2>2. PieceAt(s, d, i) = Part(s, i, e - 1) /\ PieceTo(s, d, i) = e + 1
        BY <2>1 DEF PieceAt, PieceTo, Part
    <2> QED BY <2>2, PiecesLemma
<1> QED BY <1>1, <1>2

(* A part of what stands behind another text.                               *)
LEMMA PartBehind ==
    ASSUME NEW p \in Str, NEW t \in Str, NEW i \in 1..Len(t), NEW j \in Nat, j <= Len(t)
    PROVE  Part(p \o t, Len(p) + i, Len(p) + j) = Part(t, i, j)
<1>1. PICK m \in Nat, n \in Nat : m = Len(p) /\ n = Len(t)
    BY StrLemma
<1>2. PICK s \in Str : s = p \o t
    BY StrConcat
<1>3. Len(s) = m + n /\ \A k \in 1..n : s[m + k] = t[k]
    <2>1. Len(p \o t) = Len(p) + Len(t) /\ \A k \in 1..Len(t) : (p \o t)[Len(p) + k] = t[k]
        BY StrConcat
    <2> QED BY <1>1, <1>2, <2>1
<1>4. i \in Nat \ {0} /\ i \in 1..n /\ j <= n /\ m + i \in Nat \ {0} /\ m + j \in Nat /\ m + j <= m + n
    BY <1>1
<1>5. PICK a : a = Part(t, i, j)
    OBVIOUS
<1>6. a \in Str /\ Len(a) = (IF i <= j THEN j - i + 1 ELSE 0) /\ \A k \in 1 .. j - i + 1 : a[k] = t[i + k - 1]
    BY <1>1, <1>4, <1>5, StrPart, SMTT(40)
<1>7. PICK b : b = Part(s, m + i, m + j)
    OBVIOUS
<1>8. /\ b \in Str
      /\ Len(b) = IF m + i <= m + j THEN (m + j) - (m + i) + 1 ELSE 0
      /\ \A k \in 1 .. (m + j) - (m + i) + 1 : b[k] = s[(m + i) + k - 1]
    <2>1. PICK x \in Nat \ {0}, y \in Nat : x = m + i /\ y = m + j
        BY <1>4
    <2>2. y <= Len(s)
        BY <1>3, <1>4, <2>1
    <2>3. /\ Part(s, x, y) \in Str /\ Len(Part(s, x, y)) = IF x <= y THEN y - x + 1 ELSE 0
          /\ \A k \in 1 .. y - x + 1 : Part(s, x, y)[k] = s[x + k - 1]
        BY <2>2, StrPart
    <2> QED BY <1>7, <2>1, <2>3
<1>9. Len(b) = Len(a) /\ Len(a) = (IF i <= j THEN j - i + 1 ELSE 0)
    BY <1>4, <1>6, <1>8
<1>10. \A k \in 1..Len(b) : b[k] = a[k]
    <2> TAKE k \in 1..Len(b)
    <2>1. k \in 1 .. j - i + 1 /\ k \in 1 .. (m + j) - (m + i) + 1 /\ (m + i) + k - 1 = m + (i + k - 1)
        BY <1>4, <1>9
    <2>2. i + k - 1 \in 1..n
        BY <1>4, <2>1
    <2>3. s[(m + i) + k - 1] = t[i + k - 1]
        BY <1>3, <2>1, <2>2
    <2> QED BY <1>6, <1>8, <2>1, <2>3
<1>11. b = a
    BY <1>6, <1>8, <1>9, <1>10, StrEqual
<1> QED BY <1>1, <1>2, <1>5, <1>7, <1>11

(* A place is before an end or in the last piece. *)
LEMMA EndOrNone ==
    ASSUME NEW s \in Str, NEW d, NEW i \in 1..Len(s)
    PROVE  \/ \A k \in i..Len(s) : s[k] # d
           \/ \E e \in i..Len(s) : s[e] = d /\ \A k \in i .. e - 1 : s[k] # d
<1> DEFINE I == {k \in i..Len(s) : s[k] = d}
<1>1. PICK n \in Nat : n = Len(s) /\ i \in 1..n
    BY StrLemma
<1>2. SUFFICES ASSUME I # {} PROVE \E e \in i..Len(s) : s[e] = d /\ \A k \in i .. e - 1 : s[k] # d
    OBVIOUS
<1>3. I \subseteq Nat
    BY <1>1
<1>4. PICK e \in I : \A y \in I : e <= y
    <2> HIDE DEF I
    <2> QED BY <1>2, <1>3, Least
<1>5. ASSUME NEW k \in i .. e - 1 PROVE s[k] # d
    <2>1. e \in i..n /\ k \in i..n /\ k < e
        BY <1>1, <1>4
    <2> QED BY <1>1, <1>4, <2>1
<1> QED BY <1>4, <1>5

(* The pieces of the end of a text are the text's own from there on. *)
LEMMA PiecesTail ==
    ASSUME NEW p \in Str, NEW t \in Str, NEW d
    PROVE  Pieces(p \o t, d)[Len(p) + 1] = Split(t, d)
<1>1. PICK m \in Nat, n \in Nat : m = Len(p) /\ n = Len(t)
    BY StrLemma
<1>2. PICK s \in Str : s = p \o t
    BY StrConcat
<1>3. Len(s) = m + n /\ \A k \in 1..n : s[m + k] = t[k]
    <2>1. Len(p \o t) = Len(p) + Len(t) /\ \A k \in 1..Len(t) : (p \o t)[Len(p) + k] = t[k]
        BY StrConcat
    <2> QED BY <1>1, <1>2, <2>1
<1> DEFINE f == Pieces(t, d)
           g == Pieces(s, d)
           next == [i \in 1..n |-> PieceTo(t, d, i)]
<1>4. Advances(next, n)
    BY <1>1, PieceLemma DEF Advances
<1>5. Alike(f, g, n + 1, m)
    <2>1. f[n + 1] = <<>>
        BY <1>1, PiecesLemma
    <2>2. g[(m + n) + 1] = <<>>
        BY <1>3, PiecesLemma
    <2>3. (m + n) + 1 = n + 1 + m
        OBVIOUS
    <2> HIDE DEF f, g
    <2> QED BY <2>1, <2>2, <2>3 DEF Alike
<1>6. ASSUME NEW i \in 1..n, Alike(f, g, next[i], m) PROVE Alike(f, g, i, m)
    <2>1. i \in 1..Len(t) /\ m + i \in 1..Len(s) /\ i + m = m + i
        BY <1>1, <1>3
    <2>2. CASE \A k \in i..n : t[k] # d
        <3>1. f[i] = <<Part(t, i, n)>>
            BY <1>1, <2>1, <2>2, PieceIs
        <3>2. \A k \in m + i .. m + n : s[k] # d
            <4> TAKE k \in m + i .. m + n
            <4>1. k - m \in i..n /\ k - m \in 1..n /\ m + (k - m) = k
                OBVIOUS
            <4> QED BY <1>3, <2>2, <4>1
        <3>3. g[m + i] = <<Part(s, m + i, m + n)>>
            <4>1. PICK x \in 1..Len(s) : x = m + i
                BY <2>1
            <4>2. \A k \in x..Len(s) : s[k] # d
                BY <1>3, <3>2, <4>1
            <4>3. g[x] = <<Part(s, x, Len(s))>>
                BY <4>2, PieceIs
            <4> QED BY <1>3, <4>1, <4>3
        <3>4. Part(s, m + i, m + n) = Part(t, i, n)
            <4>1. n \in Nat /\ n <= Len(t)
                BY <1>1
            <4> QED BY <1>1, <1>2, <2>1, <4>1, PartBehind, ZenonT(60)
        <3> HIDE DEF f, g
        <3> QED BY <2>1, <3>1, <3>3, <3>4 DEF Alike
    <2>3. CASE \E e \in i..n : t[e] = d /\ \A k \in i .. e - 1 : t[k] # d
        <3>1. PICK e \in i..n : t[e] = d /\ \A k \in i .. e - 1 : t[k] # d
            BY <2>3
        <3>2. e \in 1..n /\ e \in i..Len(t) /\ e - 1 \in Nat /\ e - 1 <= Len(t)
            BY <1>1
        <3>3. f[i] = <<Part(t, i, e - 1)>> \o f[e + 1]
            BY <1>1, <2>1, <3>1, <3>2, PieceIs
        <3>4. \A k \in m + i .. (m + e) - 1 : s[k] # d
            <4> TAKE k \in m + i .. (m + e) - 1
            <4>1. k - m \in i .. e - 1 /\ k - m \in 1..n /\ m + (k - m) = k
                BY <3>2
            <4> QED BY <1>3, <3>1, <4>1
        <3>5. m + e \in m + i .. Len(s) /\ s[m + e] = d
            BY <1>3, <3>1, <3>2
        <3>6. g[m + i] = <<Part(s, m + i, (m + e) - 1)>> \o g[(m + e) + 1]
            BY <2>1, <3>4, <3>5, PieceIs
        <3>7. Part(s, m + i, m + (e - 1)) = Part(t, i, e - 1)
            BY <1>1, <1>2, <2>1, <3>2, PartBehind
        <3>8. next[i] = e + 1
            <4>1. EndIn(t, d, i) = e /\ e # 0
                BY <2>1, <3>1, <3>2, EndInIs
            <4> QED BY <4>1 DEF PieceTo
        <3>9. (m + e) - 1 = m + (e - 1) /\ (m + e) + 1 = e + 1 + m
            OBVIOUS
        <3> HIDE DEF f, g, next
        <3> QED BY <1>6, <2>1, <3>3, <3>6, <3>7, <3>8, <3>9 DEF Alike
    <2>4. (\A k \in i..n : t[k] # d) \/ (\E e \in i..n : t[e] = d /\ \A k \in i .. e - 1 : t[k] # d)
        <3>1. \/ \A k \in i..Len(t) : t[k] # d
              \/ \E e \in i..Len(t) : t[e] = d /\ \A k \in i .. e - 1 : t[k] # d
            BY <2>1, EndOrNone, ZenonT(60)
        <3> QED BY <1>1, <3>1
    <2> QED BY <2>2, <2>3, <2>4
<1> HIDE DEF f, g, next
<1>7. Alike(f, g, 1, m)
    <2>1. \A i \in 1 .. n + 1 : Alike(f, g, i, m)
        BY <1>4, <1>5, <1>6, ReadingAgrees
    <2> QED BY <2>1
<1>8. 1 + m = m + 1 /\ f[1] = Split(t, d)
    BY DEF f, Split
<1> QED BY <1>1, <1>2, <1>7, <1>8 DEF Alike, g

(* The first piece of a text, and a text of one piece. *)
LEMMA SplitFirst ==
    ASSUME NEW a \in Str, NEW d \in Nat, NEW t \in Str, \A k \in 1..Len(a) : a[k] # d
    PROVE  Split(a \o (<<d>> \o t), d) = <<a>> \o Split(t, d)
<1>1. PICK l \in Nat, n \in Nat : l = Len(a) /\ n = Len(t)
    BY StrLemma
<1>2. PICK w \in Str : w = <<d>> \o t
    BY StrConcat, StrLemma
<1>3. Len(w) = 1 + n /\ w[1] = d
    <2>1. <<d>> \in Str /\ Len(<<d>>) = 1 /\ <<d>>[1] = d
        BY StrLemma
    <2>2. Len(<<d>> \o t) = Len(<<d>>) + Len(t) /\ \A i \in 1..Len(<<d>>) : (<<d>> \o t)[i] = <<d>>[i]
        BY <2>1, StrConcat
    <2>3. Len(w) = 1 + n
        BY <1>1, <1>2, <2>1, <2>2
    <2>4. w[1] = d
        BY <1>2, <2>1, <2>2
    <2> QED BY <2>3, <2>4
<1>4. PICK s \in Str : s = a \o w
    BY StrConcat
<1>5. Len(s) = l + (1 + n) /\ (\A i \in 1..l : s[i] = a[i]) /\ s[l + 1] = d
    <2>1. /\ Len(a \o w) = Len(a) + Len(w)
          /\ \A i \in 1..Len(a) : (a \o w)[i] = a[i]
          /\ \A i \in 1..Len(w) : (a \o w)[Len(a) + i] = w[i]
        BY StrConcat
    <2>2. 1 \in 1..Len(w)
        BY <1>3
    <2> QED BY <1>1, <1>3, <1>4, <2>1, <2>2
<1>6. PICK q \in Str : q = a \o <<d>>
    BY StrConcat, StrLemma
<1>7. Len(q) = l + 1
    BY <1>1, <1>6, StrMore
<1>8. s = q \o t
    <2>1. PICK x \in Str : x = <<d>>
        BY StrLemma
    <2>2. (a \o x) \o t = a \o (x \o t)
        BY StrAssoc, SMTT(40)
    <2> QED BY <1>2, <1>4, <1>6, <2>1, <2>2
<1>9. Pieces(s, d)[(l + 1) + 1] = Split(t, d)
    BY <1>7, <1>8, PiecesTail
<1>10. Pieces(s, d)[1] = <<Part(s, 1, (l + 1) - 1)>> \o Pieces(s, d)[(l + 1) + 1]
    <2>1. 1 \in 1..Len(s) /\ l + 1 \in 1..Len(s)
        BY <1>5
    <2>2. \A k \in 1 .. (l + 1) - 1 : s[k] # d
        BY <1>1, <1>5
    <2>3. PICK e \in 1..Len(s) : e = l + 1
        BY <2>1
    <2>4. Pieces(s, d)[1] = <<Part(s, 1, e - 1)>> \o Pieces(s, d)[e + 1]
        <3>1. s[e] = d /\ \A k \in 1 .. e - 1 : s[k] # d
            BY <1>5, <2>2, <2>3
        <3> QED BY <2>1, <3>1, PieceIs, ZenonT(60)
    <2> QED BY <2>3, <2>4
<1>11. Part(s, 1, l) = a
    <2>1. PICK b : b = Part(s, 1, l)
        OBVIOUS
    <2>2. b \in Str /\ Len(b) = (IF 1 <= l THEN l - 1 + 1 ELSE 0) /\ \A k \in 1 .. l - 1 + 1 : b[k] = s[1 + k - 1]
        BY <1>5, <2>1, StrPart
    <2>3. Len(b) = Len(a) /\ \A k \in 1..Len(b) : b[k] = a[k]
        BY <1>1, <1>5, <2>2
    <2> QED BY <2>1, <2>2, <2>3, StrEqual
<1>12. (l + 1) - 1 = l
    OBVIOUS
<1> QED BY <1>2, <1>4, <1>9, <1>10, <1>11, <1>12 DEF Split

(* A text without delimiters is one piece.                                  *)
LEMMA SplitOne ==
    ASSUME NEW a \in Str, NEW d, a # <<>>, \A k \in 1..Len(a) : a[k] # d
    PROVE  Split(a, d) = <<a>>
<1>1. 1 \in 1..Len(a)
    BY StrLemma
<1>2. Pieces(a, d)[1] = <<Part(a, 1, Len(a))>>
    BY <1>1, PieceIs
<1> QED BY <1>2, PartLemma DEF Split

-----------------------------------------------------------------------------
(* Trimming what is joined.                                                 *)

(* Blanks behind a text go.                                                 *)
LEMMA TrimBehind ==
    ASSUME NEW s \in Str, s # <<>>, s[1] \notin Blank, s[Len(s)] \notin Blank,
           NEW b \in Str, \A k \in 1..Len(b) : b[k] \in Blank
    PROVE  Trim(s \o b) = s
<1>1. PICK m \in Nat, n \in Nat : m = Len(s) /\ n = Len(b) /\ m > 0
    BY StrLemma
<1>2. PICK c \in Str : c = s \o b
    BY StrConcat
<1>3. Len(c) = m + n /\ (\A k \in 1..m : c[k] = s[k]) /\ \A k \in 1..n : c[m + k] = b[k]
    <2>1. /\ Len(s \o b) = Len(s) + Len(b)
          /\ \A i \in 1..Len(s) : (s \o b)[i] = s[i]
          /\ \A i \in 1..Len(b) : (s \o b)[Len(s) + i] = b[i]
        BY StrConcat
    <2> QED BY <1>1, <1>2, <2>1
<1>4. 1 \in 1..Len(c) /\ m \in 1..Len(c) /\ c[1] \notin Blank /\ c[m] \notin Blank
    BY <1>1, <1>3
<1>5. \A k \in 1..Len(c) : k < 1 \/ k > m => c[k] \in Blank
    <2> TAKE k \in 1..Len(c)
    <2> HAVE k < 1 \/ k > m
    <2>1. k - m \in 1..n /\ m + (k - m) = k
        BY <1>3
    <2> QED BY <1>1, <1>3, <2>1
<1>6. Trim(c) = Part(c, 1, m)
    BY <1>1, <1>3, <1>4, <1>5, TrimIs
<1>7. Part(c, 1, m) = s
    <2>1. PICK a : a = Part(c, 1, m)
        OBVIOUS
    <2>2. a \in Str /\ Len(a) = (IF 1 <= m THEN m - 1 + 1 ELSE 0) /\ \A k \in 1 .. m - 1 + 1 : a[k] = c[1 + k - 1]
        BY <1>3, <2>1, StrPart, SMTT(40)
    <2>3. Len(a) = Len(s) /\ \A k \in 1..Len(a) : a[k] = s[k]
        BY <1>1, <1>3, <2>2
    <2> QED BY <2>1, <2>2, <2>3, StrEqual
<1> QED BY <1>2, <1>6, <1>7

(* Joined texts lose only what is blank at the beginning of the first.      *)
LEMMA TrimConcat ==
    ASSUME NEW s \in Str, s # <<>>, s[Len(s)] \notin Blank,
           NEW t \in Str, t # <<>>, t[Len(t)] \notin Blank
    PROVE  \E i \in 1..Len(s) : Trim(s \o t) = Part(s, i, Len(s)) \o t
<1>1. PICK m \in Nat, n \in Nat : m = Len(s) /\ n = Len(t) /\ m > 0 /\ n > 0
    BY StrLemma
<1>2. PICK c \in Str : c = s \o t
    BY StrConcat
<1>3. Len(c) = m + n /\ (\A k \in 1..m : c[k] = s[k]) /\ \A k \in 1..n : c[m + k] = t[k]
    <2>1. /\ Len(s \o t) = Len(s) + Len(t)
          /\ \A i \in 1..Len(s) : (s \o t)[i] = s[i]
          /\ \A i \in 1..Len(t) : (s \o t)[Len(s) + i] = t[i]
        BY StrConcat
    <2> QED BY <1>1, <1>2, <2>1
<1>4. c # <<>> /\ c[m + n] \notin Blank
    BY <1>1, <1>3, StrLemma
<1>5. PICK i \in 1 .. m + n : Trim(c) = Part(c, i, m + n) /\ c[i] \notin Blank /\ \A k \in 1 .. m + n : k < i => c[k] \in Blank
    <2> DEFINE kept == {k \in 1 .. m + n : c[k] \notin Blank}
    <2>1. kept \subseteq Nat /\ m + n \in kept
        BY <1>1, <1>4
    <2>2. PICK i \in kept : \A y \in kept : i <= y
        <3> HIDE DEF kept
        <3> QED BY <2>1, Least
    <2>3. i \in 1 .. m + n /\ c[i] \notin Blank
        BY <2>2
    <2>4. \A k \in 1 .. m + n : k < i => c[k] \in Blank
        <3> TAKE k \in 1 .. m + n
        <3> HAVE k < i
        <3>1. ~(i <= k)
            BY <2>3
        <3> QED BY <2>2, <3>1
    <2>5. m + n \in i .. m + n /\ \A k \in 1 .. m + n : ~(k > m + n)
        BY <1>1, <2>3
    <2>6. Trim(c) = Part(c, i, m + n)
        BY <1>3, <1>4, <2>3, <2>4, <2>5, TrimIs, ZenonT(60)
    <2> QED BY <2>3, <2>4, <2>6
<1>6. i <= m
    <2>1. m \in 1 .. m + n /\ c[m] \notin Blank
        BY <1>1, <1>3
    <2>2. ~(m < i)
        BY <1>5, <2>1
    <2> QED BY <2>2
<1>7. Part(c, i, m + n) = Part(s, i, m) \o t
    <2>1. PICK a : a = Part(s, i, m)
        OBVIOUS
    <2>2. a \in Str /\ Len(a) = (m - i) + 1 /\ \A k \in 1 .. m - i + 1 : a[k] = s[i + k - 1]
        <3>1. m <= Len(s) /\ i \in Nat \ {0} /\ (i <= m <=> TRUE)
            BY <1>1, <1>6
        <3>2. /\ a \in Str /\ Len(a) = IF i <= m THEN m - i + 1 ELSE 0
              /\ \A k \in 1 .. m - i + 1 : a[k] = s[i + k - 1]
            BY <2>1, <3>1, StrPart
        <3> QED BY <3>1, <3>2
    <2>3. PICK e : e = Part(c, i, m + n)
        OBVIOUS
    <2>4. e \in Str /\ Len(e) = ((m + n) - i) + 1 /\ \A k \in 1 .. (m + n) - i + 1 : e[k] = c[i + k - 1]
        <3>1. PICK y \in Nat : y = m + n
            OBVIOUS
        <3>2. y <= Len(c) /\ i \in Nat \ {0} /\ i <= y
            BY <1>3, <1>6, <3>1
        <3>3. /\ e \in Str /\ Len(e) = IF i <= y THEN y - i + 1 ELSE 0
              /\ \A k \in 1 .. y - i + 1 : e[k] = c[i + k - 1]
            BY <2>3, <3>1, <3>2, StrPart
        <3> QED BY <3>1, <3>2, <3>3
    <2>5. PICK q \in Str : q = a \o t
        BY <2>2, StrConcat
    <2>6. Len(q) = ((m - i) + 1) + n /\ (\A k \in 1 .. (m - i) + 1 : q[k] = a[k]) /\ \A k \in 1..n : q[((m - i) + 1) + k] = t[k]
        <3>1. /\ Len(a \o t) = Len(a) + Len(t)
              /\ \A j \in 1..Len(a) : (a \o t)[j] = a[j]
              /\ \A j \in 1..Len(t) : (a \o t)[Len(a) + j] = t[j]
            BY <2>2, StrConcat
        <3> QED BY <1>1, <2>2, <2>5, <3>1
    <2>7. Len(e) = Len(q)
        BY <2>4, <2>6
    <2>8. ASSUME NEW k \in 1..Len(e) PROVE e[k] = q[k]
        <3>1. k \in 1 .. (m + n) - i + 1 /\ e[k] = c[i + k - 1]
            BY <1>6, <2>4
        <3>2. CASE k <= (m - i) + 1
            <4>1. k \in 1 .. m - i + 1 /\ i + k - 1 \in 1..m
                BY <1>6, <3>1, <3>2
            <4>2. c[i + k - 1] = s[i + k - 1]
                BY <1>3, <4>1
            <4>3. q[k] = a[k] /\ a[k] = s[i + k - 1]
                BY <2>2, <2>6, <4>1
            <4> QED BY <3>1, <4>2, <4>3
        <3>3. CASE ~(k <= (m - i) + 1)
            <4>1. PICK j \in 1..n : k = ((m - i) + 1) + j
                <5>1. k - ((m - i) + 1) \in 1..n
                    BY <1>6, <3>1, <3>3
                <5> QED BY <5>1
            <4>2. i + k - 1 = m + j
                BY <4>1
            <4>3. c[m + j] = t[j] /\ q[((m - i) + 1) + j] = t[j]
                BY <1>3, <2>6
            <4> QED BY <3>1, <4>1, <4>2, <4>3
        <3> QED BY <3>2, <3>3
    <2>9. e = q
        BY <2>4, <2>7, <2>8, StrEqual
    <2> QED BY <2>1, <2>3, <2>5, <2>9
<1>8. i \in 1..m
    BY <1>6
<1> QED BY <1>1, <1>2, <1>5, <1>7, <1>8

-----------------------------------------------------------------------------
(* Values that can stand in a line: no escape begins in them that ends      *)
(* behind them, and no line ends in them.                                   *)

(* Places with the same bytes from them on are disturbed alike.             *)
LEMMA DisturbsAlike ==
    ASSUME NEW s, NEW i, NEW t, NEW j, s[i] = t[j],
           Following(s, i + 1) = Following(t, j + 1), Following(s, i + 2) = Following(t, j + 2)
    PROVE  Disturbs(s, i) <=> Disturbs(t, j)
BY DEF Disturbs, SoftBreak, IsHexPair

(* The end of a text without escapes has none, and a text has none if none  *)
(* begins in front of such an end.                                          *)
LEMMA NoEscapeTail ==
    ASSUME NEW p \in Str, NEW t \in Str
    PROVE  /\ NoEscape(p \o t) => NoEscape(t)
           /\ NoEscape(t) /\ (\A i \in 1..Len(p) : ~Disturbs(p \o t, i)) => NoEscape(p \o t)
<1>1. PICK m \in Nat, n \in Nat : m = Len(p) /\ n = Len(t)
    BY StrLemma
<1>2. PICK s \in Str : s = p \o t
    BY StrConcat
<1>3. Len(s) = m + n /\ \A k \in 1..n : s[m + k] = t[k]
    <2>1. Len(p \o t) = Len(p) + Len(t) /\ \A k \in 1..Len(t) : (p \o t)[Len(p) + k] = t[k]
        BY StrConcat
    <2> QED BY <1>1, <1>2, <2>1
<1>4. ASSUME NEW k \in Nat, k >= 1 PROVE Following(s, m + k) = Following(t, k)
    <2>1. CASE k <= n
        <3>1. k \in 1..n /\ m + k <= m + n
            BY <1>4, <2>1
        <3> QED BY <1>1, <1>3, <2>1, <3>1 DEF Following
    <2>2. CASE ~(k <= n)
        <3>1. ~(m + k <= m + n)
            BY <2>2
        <3> QED BY <1>1, <1>3, <2>2, <3>1 DEF Following
    <2> QED BY <2>1, <2>2
<1>5. ASSUME NEW k \in 1..n PROVE Disturbs(s, m + k) <=> Disturbs(t, k)
    <2>1. s[m + k] = t[k]
        BY <1>3
    <2>2. k + 1 \in Nat /\ k + 2 \in Nat /\ k + 1 >= 1 /\ k + 2 >= 1 /\ (m + k) + 1 = m + (k + 1) /\ (m + k) + 2 = m + (k + 2)
        OBVIOUS
    <2>3. Following(s, m + (k + 1)) = Following(t, k + 1) /\ Following(s, m + (k + 2)) = Following(t, k + 2)
        BY <1>4, <2>2
    <2>4. PICK x : x = m + k
        OBVIOUS
    <2>5. Following(s, x + 1) = Following(t, k + 1) /\ Following(s, x + 2) = Following(t, k + 2)
        BY <2>2, <2>3, <2>4
    <2> QED BY <2>1, <2>4, <2>5, DisturbsAlike
<1>6. ASSUME NoEscape(s) PROVE NoEscape(t)
    <2>1. \A k \in 1..n : m + k \in 1..Len(s)
        BY <1>3
    <2> QED BY <1>1, <1>5, <1>6, <2>1 DEF NoEscape
<1>7. ASSUME NoEscape(t), \A i \in 1..m : ~Disturbs(s, i) PROVE NoEscape(s)
    <2> SUFFICES ASSUME NEW i \in 1..Len(s) PROVE ~Disturbs(s, i)
        BY DEF NoEscape
    <2>1. CASE i <= m
        <3>1. i \in 1..m
            BY <1>3, <2>1
        <3> QED BY <1>7, <3>1
    <2>2. CASE ~(i <= m)
        <3>1. PICK k \in 1..n : i = m + k
            <4>1. i - m \in 1..n /\ i = m + (i - m)
                BY <1>3, <2>2
            <4> QED BY <4>1
        <3>2. ~Disturbs(t, k)
            BY <1>1, <1>7 DEF NoEscape
        <3> QED BY <1>5, <3>1, <3>2
    <2> QED BY <2>1, <2>2
<1> QED BY <1>1, <1>2, <1>6, <1>7

(* MailText without = in front of it. *)
LEMMA NoEscapeFront ==
    ASSUME NEW p \in Str, \A i \in 1..Len(p) : p[i] # Equals, NEW t \in Str, NoEscape(t)
    PROVE  NoEscape(p \o t)
<1>1. PICK s \in Str : s = p \o t
    BY StrConcat
<1>2. \A i \in 1..Len(p) : s[i] # Equals
    BY <1>1, StrConcat
<1>3. \A i \in 1..Len(p) : ~Disturbs(s, i)
    BY <1>2 DEF Disturbs, SoftBreak, IsHexPair
<1> QED BY <1>1, <1>3, NoEscapeTail

(* A value: it goes on one line and does not end with a blank or an =.      *)
Sound(v) ==
    /\ v \in Str /\ v # <<>> /\ NoEscape(v)
    /\ \A i \in 1..Len(v) : v[i] # LF
    /\ v[Len(v)] # Equals /\ v[Len(v)] \notin Blank

(* What can follow a value without being read as part of an escape. *)
EndsValue(t) == t \in Str /\ t # <<>> /\ t[1] # LF /\ HexValue(t[1]) = -1

(* A value makes no escape with what can follow it.                         *)
LEMMA SoundInText ==
    ASSUME NEW v, Sound(v), NEW t, EndsValue(t), NoEscape(t)
    PROVE  NoEscape(v \o t)
<1>1. v \in Str /\ t \in Str
    BY DEF Sound, EndsValue
<1>2. PICK m \in Nat, n \in Nat : m = Len(v) /\ n = Len(t) /\ m > 0 /\ n > 0
    BY <1>1, StrLemma DEF Sound, EndsValue
<1>3. PICK s \in Str : s = v \o t
    BY <1>1, StrConcat
<1>4. Len(s) = m + n /\ (\A k \in 1..m : s[k] = v[k]) /\ s[m + 1] = t[1]
    <2>1. /\ Len(v \o t) = Len(v) + Len(t)
          /\ \A i \in 1..Len(v) : (v \o t)[i] = v[i]
          /\ \A i \in 1..Len(t) : (v \o t)[Len(v) + i] = t[i]
        BY <1>1, StrConcat
    <2>2. 1 \in 1..Len(t)
        BY <1>2
    <2> QED BY <1>2, <1>3, <2>1, <2>2
<1>5. (\A k \in 1..m : v[k] # LF /\ ~Disturbs(v, k)) /\ v[m] # Equals /\ t[1] # LF /\ HexValue(t[1]) = -1
    BY <1>2 DEF Sound, NoEscape, EndsValue
<1>6. ASSUME NEW i \in 1..m PROVE ~Disturbs(s, i)
    <2>1. CASE s[i] # Equals
        BY <2>1 DEF Disturbs, SoftBreak, IsHexPair
    <2>2. CASE s[i] = Equals
        <3>1. i \in 1 .. m - 1 /\ i + 1 \in 1..m /\ i + 1 <= m /\ i + 1 <= m + n /\ v[i] = Equals
            BY <1>4, <1>5, <2>2
        <3>2. Following(s, i + 1) = v[i + 1] /\ Following(v, i + 1) = v[i + 1] /\ v[i + 1] # LF
            BY <1>2, <1>4, <1>5, <3>1 DEF Following
        <3>3. CASE i + 2 <= m
            <4>1. i + 2 \in 1..m /\ i + 2 <= m + n
                BY <3>3
            <4>2. Following(s, i + 2) = v[i + 2] /\ Following(v, i + 2) = v[i + 2]
                BY <1>2, <1>4, <3>3, <4>1 DEF Following
            <4>3. Disturbs(s, i) <=> Disturbs(v, i)
                BY <1>4, <3>2, <4>2, DisturbsAlike
            <4> QED BY <1>5, <4>3
        <3>4. CASE ~(i + 2 <= m)
            <4>1. i + 2 = m + 1 /\ m + 1 <= m + n
                BY <1>2, <3>1, <3>4
            <4>2. Following(s, i + 2) = t[1]
                BY <1>4, <4>1 DEF Following
            <4>3. SoftBreak(s, i) = 0
                BY <1>5, <3>2, <4>2 DEF SoftBreak
            <4>4. ~IsHexPair(s, i)
                BY <1>5, <4>2 DEF IsHexPair
            <4> QED BY <4>3, <4>4 DEF Disturbs
        <3> QED BY <3>3, <3>4
    <2> QED BY <2>1, <2>2
<1> QED BY <1>1, <1>2, <1>3, <1>6, NoEscapeTail

(* A value that keeps no escape, with a value behind it. *)
LEMMA SoundConcat ==
    ASSUME NEW v, Sound(v), NEW t, EndsValue(t), Sound(t)
    PROVE  Sound(v \o t)
<1>1. v \in Str /\ t \in Str
    BY DEF Sound
<1>2. PICK m \in Nat, n \in Nat : m = Len(v) /\ n = Len(t) /\ m > 0 /\ n > 0
    BY <1>1, StrLemma DEF Sound
<1>3. PICK s \in Str : s = v \o t
    BY <1>1, StrConcat
<1>4. Len(s) = m + n /\ (\A k \in 1..m : s[k] = v[k]) /\ \A k \in 1..n : s[m + k] = t[k]
    <2>1. /\ Len(v \o t) = Len(v) + Len(t)
          /\ \A i \in 1..Len(v) : (v \o t)[i] = v[i]
          /\ \A i \in 1..Len(t) : (v \o t)[Len(v) + i] = t[i]
        BY <1>1, StrConcat
    <2> QED BY <1>2, <1>3, <2>1
<1>5. NoEscape(s)
    BY <1>3, SoundInText DEF Sound
<1>6. \A i \in 1..Len(s) : s[i] # LF
    <2> TAKE i \in 1..Len(s)
    <2>1. (\A k \in 1..m : v[k] # LF) /\ \A k \in 1..n : t[k] # LF
        BY <1>2 DEF Sound
    <2>2. CASE i <= m
        <3>1. i \in 1..m
            BY <1>4, <2>2
        <3> QED BY <1>4, <2>1, <3>1
    <2>3. CASE ~(i <= m)
        <3>1. i - m \in 1..n /\ m + (i - m) = i
            BY <1>4, <2>3
        <3> QED BY <1>4, <2>1, <3>1
    <2> QED BY <2>2, <2>3
<1>7. s[Len(s)] = t[Len(t)] /\ s # <<>>
    BY <1>2, <1>4, StrLemma
<1> QED BY <1>3, <1>5, <1>6, <1>7 DEF Sound

(* The end of a sound text is sound. *)
LEMMA SoundTail ==
    ASSUME NEW p \in Str, NEW t \in Str, t # <<>>, Sound(p \o t)
    PROVE  Sound(t)
<1>1. PICK m \in Nat, n \in Nat : m = Len(p) /\ n = Len(t) /\ n > 0
    BY StrLemma
<1>2. PICK s \in Str : s = p \o t
    BY StrConcat
<1>3. Len(s) = m + n /\ \A k \in 1..n : s[m + k] = t[k]
    <2>1. Len(p \o t) = Len(p) + Len(t) /\ \A k \in 1..Len(t) : (p \o t)[Len(p) + k] = t[k]
        BY StrConcat
    <2> QED BY <1>1, <1>2, <2>1
<1>4. NoEscape(t)
    BY <1>2, NoEscapeTail DEF Sound
<1>5. \A i \in 1..Len(t) : t[i] # LF
    <2> TAKE i \in 1..Len(t)
    <2>1. i \in 1..n /\ m + i \in 1..Len(s)
        BY <1>1, <1>3
    <2> QED BY <1>2, <1>3, <2>1 DEF Sound
<1>6. s[Len(s)] = t[Len(t)]
    BY <1>1, <1>3
<1> QED BY <1>2, <1>4, <1>5, <1>6 DEF Sound

(* A part up to the end. *)
LEMMA PartIsTail ==
    ASSUME NEW s \in Str, NEW i \in 1..Len(s)
    PROVE  \E p \in Str, t \in Str : t = Part(s, i, Len(s)) /\ s = p \o t /\ t # <<>>
<1>1. PICK n \in Nat : n = Len(s) /\ i \in 1..n
    BY StrLemma
<1>2. PICK p : p = Part(s, 1, i - 1)
    OBVIOUS
<1>3. PICK t : t = Part(s, i, n)
    OBVIOUS
<1>4. p \in Str /\ t \in Str /\ Len(t) = n + 1 - i
    <2>1. i - 1 \in Nat /\ i - 1 <= Len(s) /\ i \in 1 .. Len(s) + 1
        BY <1>1
    <2>2. Part(s, 1, i - 1) \in Str
        BY <2>1, StrPart
    <2> QED BY <1>1, <1>2, <1>3, <2>1, <2>2, PartLemma
<1>5. s = p \o t
    <2>1. PICK j \in Nat : j = i - 1
        BY <1>1
    <2>2. Part(s, 1, j) \o Part(s, j + 1, n) = Part(s, 1, n)
        <3>1. j <= n /\ n <= Len(s)
            BY <1>1, <2>1
        <3>2. Part(s, 1, j) \o Part(s, j + 1, n) = Part(s, 1, n)
            BY <3>1, PartsJoin
        <3> QED BY <3>2
    <2>3. j + 1 = i
        BY <2>1
    <2> QED BY <1>1, <1>2, <1>3, <2>1, <2>2, <2>3, PartLemma
<1>6. t # <<>>
    BY <1>1, <1>4, StrLemma
<1> QED BY <1>1, <1>3, <1>4, <1>5, <1>6

(* A trimmed value has no escapes, and does not begin with a blank. *)
LEMMA SoundTrim ==
    ASSUME NEW v, Sound(v)
    PROVE  Sound(Trim(v)) /\ decode_quoted_printable(Trim(v)) = Trim(v)
<1>1. v \in Str /\ v # <<>> /\ v[Len(v)] \notin Blank
    BY DEF Sound
<1>2. PICK i \in 1..Len(v) : Trim(v) = Part(v, i, Len(v))
    BY <1>1, TrimFront
<1>3. PICK p \in Str, t \in Str : t = Part(v, i, Len(v)) /\ v = p \o t /\ t # <<>>
    BY <1>1, PartIsTail
<1>4. Sound(t)
    BY <1>3, SoundTail
<1>5. decode_quoted_printable(t) = t
    BY <1>4, DecodesItself DEF Sound
<1> QED BY <1>2, <1>3, <1>4, <1>5

(* A text that survives in a field, as the property says it, is a value.    *)
LEMMA KeptSound ==
    ASSUME NEW s \in Str, Kept(s)
    PROVE  Sound(s)
<1>1. PICK n \in Nat : n = Len(s)
    BY StrLemma
<1>2. NoEscape(s)
    BY DecodedItself DEF Kept
<1>3. s[Len(s)] \notin Blank
    BY TrimmedEnds DEF Kept
<1>4. \A i \in 1..Len(s) : s[i] # LF
    BY DEF Kept, ToSet
<1> QED BY <1>2, <1>3, <1>4 DEF Sound, Kept, Last

(* An encrypted text is a value and is not changed by trimming; it has no   *)
(* slash.                                                                   *)
LEMMA EncryptedSound ==
    ASSUME NEW s \in Seq(Octet), s # <<>>
    PROVE  Sound(encrypt_string(s)) /\ Trim(encrypt_string(s)) = encrypt_string(s)
           /\ \A i \in 1..Len(encrypt_string(s)) : encrypt_string(s)[i] # Slash
<1>1. PICK e : e = encrypt_string(s)
    OBVIOUS
<1>2. PICK n \in Nat : n = Len(s) /\ n > 0
    BY EmptySeq, LenProperties
<1>3. e \in Str /\ Len(e) = 2 * n /\ \A k \in 1 .. 2 * n : e[k] \in {LowerHex(m) : m \in 0..15}
    BY <1>1, <1>2, EncryptedLemma
<1>4. ASSUME NEW k \in 1..Len(e) PROVE e[k] # Equals /\ e[k] # LF /\ e[k] \notin Blank /\ e[k] # Slash
    <2>1. PICK m \in 0..15 : e[k] = LowerHex(m)
        BY <1>3
    <2>2. e[k] \in 33..126 /\ e[k] # Equals /\ e[k] # Slash
        BY <2>1, HexLemma
    <2>3. e[k] # LF /\ e[k] \notin Blank
        <3>1. PICK x \in 33..126 : x = e[k]
            BY <2>2
        <3>2. x # LF /\ x \notin Blank
            BY DEF LF, Blank, Space, TAB, CR
        <3> QED BY <3>1, <3>2
    <2> QED BY <2>2, <2>3
<1>5. NoEscape(e)
    BY <1>4 DEF NoEscape, Disturbs, SoftBreak, IsHexPair
<1>6. 1 \in 1..Len(e) /\ Len(e) \in 1..Len(e) /\ e # <<>>
    BY <1>2, <1>3, StrLemma
<1>7. Sound(e)
    BY <1>3, <1>4, <1>5, <1>6 DEF Sound
<1>8. Trim(e) = e
    BY <1>3, <1>4, <1>6, TrimEnds
<1> QED BY <1>1, <1>4, <1>7, <1>8

-----------------------------------------------------------------------------
(* The lines of a mail's text: split at line ends, each at its first colon, *)
(* they have the values that were written.                                  *)

(* A line without its end, as it stands last and in front of another line.  *)
Field(key, v) == <<key, Colon>> \o v
Row(key, v)   == Field(key, v) \o <<CR>>

(* A line's key, its colon and its value.                                   *)
LEMMA FieldLemma ==
    ASSUME NEW key \in Nat, key > 255, NEW v, Sound(v)
    PROVE  /\ Field(key, v) \in Str /\ Len(Field(key, v)) = 2 + Len(v)
           /\ Field(key, v)[1] = key /\ Field(key, v)[2] = Colon
           /\ \A i \in 1..Len(v) : Field(key, v)[2 + i] = v[i]
           /\ Field(key, v) # <<>> /\ Trim(Field(key, v)) = Field(key, v)
           /\ Part(Field(key, v), 1, 1) = <<key>> /\ Part(Field(key, v), 3, Len(Field(key, v))) = v
           /\ \A i \in 1..Len(Field(key, v)) : Field(key, v)[i] # LF
<1>1. PICK p \in Str : p = <<key, Colon>> /\ Len(p) = 2 /\ p[1] = key /\ p[2] = Colon
    <2>1. PICK x \in Nat : x = Colon
        BY DEF Colon
    <2>2. <<key, x>> \in Seq(Nat)
        OBVIOUS
    <2>3. Len(<<key, x>>) = 2 /\ <<key, x>>[1] = key /\ <<key, x>>[2] = x
        OBVIOUS
    <2> QED BY <2>1, <2>2, <2>3 DEF Str
<1>2. v \in Str /\ v # <<>> /\ v[Len(v)] \notin Blank /\ \A i \in 1..Len(v) : v[i] # LF
    BY DEF Sound
<1>3. PICK n \in Nat : n = Len(v) /\ n > 0
    BY <1>2, StrLemma
<1>4. PICK f \in Str : f = p \o v
    BY <1>2, StrConcat
<1>5. Len(f) = 2 + n /\ f[1] = key /\ f[2] = Colon /\ \A i \in 1..n : f[2 + i] = v[i]
    <2>1. /\ Len(p \o v) = Len(p) + Len(v)
          /\ \A i \in 1..Len(p) : (p \o v)[i] = p[i]
          /\ \A i \in 1..Len(v) : (p \o v)[Len(p) + i] = v[i]
        BY <1>2, StrConcat
    <2>2. 1 \in 1..Len(p) /\ 2 \in 1..Len(p)
        BY <1>1
    <2> QED BY <1>1, <1>3, <1>4, <2>1, <2>2
<1>6. f # <<>> /\ Len(f) \in 1..Len(f)
    BY <1>5, StrLemma
<1>7. key \notin Blank /\ Colon # LF /\ key # LF
    BY DEF Blank, Space, TAB, CR, LF, Colon
<1>8. f[Len(f)] \notin Blank
    BY <1>2, <1>3, <1>5
<1>9. Trim(f) = f
    BY <1>5, <1>6, <1>7, <1>8, TrimEnds
<1>10. Part(f, 1, 1) = <<key>>
    <2>1. PICK a : a = Part(f, 1, 1)
        OBVIOUS
    <2>2. a \in Str /\ Len(a) = (IF 1 <= 1 THEN 1 - 1 + 1 ELSE 0) /\ \A k \in 1 .. 1 - 1 + 1 : a[k] = f[1 + k - 1]
        <3>1. 1 \in Nat \ {0} /\ 1 \in Nat /\ 1 <= Len(f)
            BY <1>5
        <3>2. /\ Part(f, 1, 1) \in Str /\ Len(Part(f, 1, 1)) = IF 1 <= 1 THEN 1 - 1 + 1 ELSE 0
              /\ \A k \in 1 .. 1 - 1 + 1 : Part(f, 1, 1)[k] = f[1 + k - 1]
            BY <3>1, StrPart
        <3> QED BY <2>1, <3>2
    <2>3. PICK b \in Str : b = <<key>> /\ Len(b) = 1 /\ b[1] = key
        BY StrLemma
    <2>4. Len(a) = Len(b) /\ \A k \in 1..Len(a) : a[k] = b[k]
        BY <1>5, <2>2, <2>3
    <2> QED BY <2>1, <2>2, <2>3, <2>4, StrEqual
<1>11. Part(f, 3, Len(f)) = v
    <2>1. 1 \in 1..Len(v) /\ n \in Nat /\ n <= Len(v)
        BY <1>3
    <2>2. Part(p \o v, Len(p) + 1, Len(p) + n) = Part(v, 1, n)
        BY <1>2, <2>1, PartBehind
    <2>3. Len(p) + 1 = 3 /\ Len(p) + n = Len(f)
        BY <1>1, <1>5
    <2> QED BY <1>2, <1>3, <1>4, <2>2, <2>3, PartLemma
<1>12. ASSUME NEW i \in 1..Len(f) PROVE f[i] # LF
    <2>1. i = 1 \/ i = 2 \/ (i - 2 \in 1..n /\ 2 + (i - 2) = i)
        BY <1>5
    <2>2. CASE i - 2 \in 1..n /\ 2 + (i - 2) = i
        <3>1. f[2 + (i - 2)] = v[i - 2] /\ v[i - 2] # LF
            BY <1>2, <1>3, <1>5, <2>2
        <3> QED BY <2>2, <3>1
    <2> QED BY <1>5, <1>7, <2>1, <2>2
<1>13. f = Field(key, v)
    BY <1>1, <1>4 DEF Field
<1> QED BY <1>3, <1>5, <1>6, <1>9, <1>10, <1>11, <1>12, <1>13

(* A line of the text and how it is split at its colon. *)
Says(l, key, v) == /\ l \in Str /\ l # <<>> /\ (\A i \in 1..Len(l) : l[i] # LF)
                   /\ KeyOf(l) = <<key>> /\ ValueOf(l) = Trim(v)

(* A line says the value of its key, with the carriage return behind it or  *)
(* without.                                                                 *)
LEMMA LineSays ==
    ASSUME NEW key \in Nat, key > 255, NEW v, Sound(v)
    PROVE  Says(Field(key, v), key, v) /\ Says(Row(key, v), key, v)
<1>1. PICK f \in Str : f = Field(key, v)
    BY FieldLemma
<1>2. /\ Len(f) = 2 + Len(v) /\ f[1] = key /\ f[2] = Colon /\ f # <<>> /\ Trim(f) = f
      /\ Part(f, 1, 1) = <<key>> /\ Part(f, 3, Len(f)) = v /\ \A i \in 1..Len(f) : f[i] # LF
    BY <1>1, FieldLemma
<1>3. PICK n \in Nat : n = Len(f) /\ n > 2
    <2>1. v \in Str /\ v # <<>>
        BY DEF Sound
    <2> QED BY <1>2, <2>1, StrLemma
<1>4. key # Colon /\ key \notin Blank
    BY DEF Colon, Blank, Space, TAB, CR, LF
<1>5. Trim(<<key>>) = <<key>>
    <2>1. <<key>> \in Str /\ Len(<<key>>) = 1 /\ <<key>>[1] = key /\ <<key>> # <<>>
        BY StrLemma
    <2> QED BY <1>4, <2>1, TrimEnds
<1>6. ASSUME NEW l, Trim(l) = f PROVE KeyOf(l) = <<key>> /\ ValueOf(l) = Trim(v)
    <2>1. ColonOf(l) = 2
        <3> DEFINE I == {i \in 1..Len(f) : f[i] = Colon}
        <3>1. ColonOf(l) = IF I # {} THEN Min(I) ELSE 0
            BY <1>6 DEF ColonOf, SelectInSeq
        <3>2. I \subseteq Nat /\ 2 \in I
            BY <1>2, <1>3
        <3>3. \A y \in I : 2 <= y
            BY <1>2, <1>3, <1>4
        <3> HIDE DEF I
        <3>4. Min(I) = 2
            BY <3>2, <3>3, LeastIs
        <3> QED BY <3>1, <3>2, <3>4
    <2>2. KeyOf(l) = Trim(Part(f, 1, 1))
        BY <1>6, <2>1 DEF KeyOf, Part
    <2>3. ValueOf(l) = Trim(Part(f, 3, Len(f)))
        BY <1>6, <2>1 DEF ValueOf, Part
    <2> QED BY <1>2, <1>5, <2>2, <2>3
<1>7. Says(f, key, v)
    BY <1>2, <1>6 DEF Says
<1>8. PICK b \in Str : b = <<CR>> /\ Len(b) = 1 /\ b[1] = CR
    <2>1. CR \in Nat
        BY DEF CR
    <2> QED BY <2>1, StrLemma
<1>9. PICK r \in Str : r = f \o b
    BY StrConcat
<1>10. Len(r) = n + 1 /\ (\A i \in 1..n : r[i] = f[i]) /\ r[n + 1] = CR
    <2>1. /\ Len(f \o b) = Len(f) + Len(b)
          /\ \A i \in 1..Len(f) : (f \o b)[i] = f[i]
          /\ \A i \in 1..Len(b) : (f \o b)[Len(f) + i] = b[i]
        BY StrConcat
    <2>2. 1 \in 1..Len(b)
        BY <1>8
    <2> QED BY <1>3, <1>8, <1>9, <2>1, <2>2
<1>11. Trim(r) = f
    <2>1. \A k \in 1..Len(b) : b[k] \in Blank
        BY <1>8 DEF Blank
    <2>2. f[1] \notin Blank /\ f[Len(f)] \notin Blank
        BY <1>2, TrimmedEnds
    <2> QED BY <1>2, <1>9, <2>1, <2>2, TrimBehind
<1>12. \A i \in 1..Len(r) : r[i] # LF
    <2> TAKE i \in 1..Len(r)
    <2>1. i \in 1..n \/ i = n + 1
        BY <1>10
    <2>2. CR # LF
        BY DEF CR, LF
    <2> QED BY <1>2, <1>3, <1>10, <2>1, <2>2
<1>13. r # <<>>
    BY <1>3, <1>10, StrLemma
<1>14. Says(r, key, v)
    BY <1>6, <1>11, <1>12, <1>13 DEF Says
<1> QED BY <1>1, <1>7, <1>8, <1>9, <1>14 DEF Row

(* The first of four lines with a key. *)
LEMMA ValueIs ==
    ASSUME NEW lines, Len(lines) \in Nat, NEW j \in 1..Len(lines), NEW key, KeyOf(lines[j]) = <<key>>,
           \A i \in 1 .. j - 1 : KeyOf(lines[i]) # <<key>>
    PROVE  Value(lines, key) = ValueOf(lines[j])
<1> DEFINE I == {i \in 1..Len(lines) : KeyOf(lines[i]) = <<key>>}
           k == SelectInSeq(lines, LAMBDA line : KeyOf(line) = <<key>>)
<1>1. k = IF I # {} THEN Min(I) ELSE 0
    BY DEF SelectInSeq
<1>2. I \subseteq Nat /\ j \in I
    OBVIOUS
<1>3. \A y \in I : j <= y
    <2> TAKE y \in I
    <2>1. y \in 1..Len(lines) /\ KeyOf(lines[y]) = <<key>>
        OBVIOUS
    <2>2. ~(y \in 1 .. j - 1)
        BY <2>1
    <2> QED BY <2>1, <2>2
<1>4. Value(lines, key) = IF k = 0 THEN <<>> ELSE ValueOf(lines[k])
    BY DEF Value
<1> HIDE DEF I, k
<1>5. Min(I) = j
    BY <1>2, <1>3, LeastIs
<1>6. k = j /\ k # 0
    BY <1>1, <1>2, <1>5
<1> QED BY <1>4, <1>6

(* Four lines in a row.                                                     *)
LEMMA FourLines ==
    ASSUME NEW a \in Str, NEW b \in Str, NEW c \in Str, NEW e \in Str
    PROVE  LET l == <<a>> \o (<<b>> \o (<<c>> \o <<e>>))
           IN  Len(l) = 4 /\ l[1] = a /\ l[2] = b /\ l[3] = c /\ l[4] = e
OBVIOUS

(* No two keys are alike.                                                   *)
LEMMA KeysDiffer ==
    /\ Subject \in Nat /\ Owner \in Nat /\ LocalPath \in Nat /\ MailFolder \in Nat
    /\ Subject > 255 /\ Owner > 255 /\ LocalPath > 255 /\ MailFolder > 255
    /\ <<Subject>> # <<Owner>> /\ <<Subject>> # <<LocalPath>> /\ <<Subject>> # <<MailFolder>>
    /\ <<Owner>> # <<LocalPath>> /\ <<Owner>> # <<MailFolder>> /\ <<LocalPath>> # <<MailFolder>>
BY DEF Subject, Owner, LocalPath, MailFolder

(* The text's four lines, one behind the other.                             *)
Body(a, b, c, e) ==
    Row(Subject, a) \o (<<LF>> \o (Row(Owner, b) \o (<<LF>> \o (Row(LocalPath, c) \o (<<LF>> \o Field(MailFolder, e))))))

(* Each key has the value of its line.                                      *)
LEMMA BodyLines ==
    ASSUME NEW a, NEW b, NEW c, NEW e, Sound(a), Sound(b), Sound(c), Sound(e)
    PROVE  /\ Value(Split(Body(a, b, c, e), LF), Subject) = Trim(a)
           /\ Value(Split(Body(a, b, c, e), LF), Owner) = Trim(b)
           /\ Value(Split(Body(a, b, c, e), LF), LocalPath) = Trim(c)
           /\ Value(Split(Body(a, b, c, e), LF), MailFolder) = Trim(e)
<1>1. PICK r1 : r1 = Row(Subject, a) /\ Says(r1, Subject, a)
    BY KeysDiffer, LineSays
<1>2. PICK r2 : r2 = Row(Owner, b) /\ Says(r2, Owner, b)
    BY KeysDiffer, LineSays
<1>3. PICK r3 : r3 = Row(LocalPath, c) /\ Says(r3, LocalPath, c)
    BY KeysDiffer, LineSays
<1>4. PICK r4 : r4 = Field(MailFolder, e) /\ Says(r4, MailFolder, e)
    BY KeysDiffer, LineSays
<1>5. r1 \in Str /\ r2 \in Str /\ r3 \in Str /\ r4 \in Str /\ r4 # <<>>
    BY <1>1, <1>2, <1>3, <1>4 DEF Says
<1>6. LF \in Nat
    BY DEF LF
<1>7. PICK t3 \in Str : t3 = r3 \o (<<LF>> \o r4)
    BY <1>5, <1>6, StrLemma, StrConcat
<1>8. PICK t2 \in Str : t2 = r2 \o (<<LF>> \o t3)
    BY <1>5, <1>6, StrLemma, StrConcat
<1>9. Split(r4, LF) = <<r4>>
    BY <1>4, <1>5, SplitOne DEF Says
<1>10. Split(t3, LF) = <<r3>> \o <<r4>>
    <2>1. \A k \in 1..Len(r3) : r3[k] # LF
        BY <1>3 DEF Says
    <2>2. Split(r3 \o (<<LF>> \o r4), LF) = <<r3>> \o Split(r4, LF)
        BY <1>5, <1>6, <2>1, SplitFirst
    <2> QED BY <1>7, <1>9, <2>2
<1>11. Split(t2, LF) = <<r2>> \o (<<r3>> \o <<r4>>)
    <2>1. \A k \in 1..Len(r2) : r2[k] # LF
        BY <1>2 DEF Says
    <2>2. Split(r2 \o (<<LF>> \o t3), LF) = <<r2>> \o Split(t3, LF)
        BY <1>5, <1>6, <2>1, SplitFirst
    <2> QED BY <1>8, <1>10, <2>2
<1>12. Body(a, b, c, e) = r1 \o (<<LF>> \o t2)
    BY <1>1, <1>2, <1>3, <1>4, <1>7, <1>8 DEF Body
<1>13. Split(Body(a, b, c, e), LF) = <<r1>> \o (<<r2>> \o (<<r3>> \o <<r4>>))
    <2>1. \A k \in 1..Len(r1) : r1[k] # LF
        BY <1>1 DEF Says
    <2>2. Split(r1 \o (<<LF>> \o t2), LF) = <<r1>> \o Split(t2, LF)
        BY <1>5, <1>6, <2>1, SplitFirst
    <2> QED BY <1>11, <1>12, <2>2
<1>14. PICK lines : lines = Split(Body(a, b, c, e), LF)
    OBVIOUS
<1>15. Len(lines) = 4 /\ lines[1] = r1 /\ lines[2] = r2 /\ lines[3] = r3 /\ lines[4] = r4
    BY <1>5, <1>13, <1>14, FourLines
<1>16. /\ KeyOf(r1) = <<Subject>> /\ KeyOf(r2) = <<Owner>> /\ KeyOf(r3) = <<LocalPath>> /\ KeyOf(r4) = <<MailFolder>>
       /\ ValueOf(r1) = Trim(a) /\ ValueOf(r2) = Trim(b) /\ ValueOf(r3) = Trim(c) /\ ValueOf(r4) = Trim(e)
    BY <1>1, <1>2, <1>3, <1>4 DEF Says
<1>17. Value(lines, Subject) = Trim(a)
    <2>1. 1 \in 1..Len(lines) /\ \A i \in 1 .. 1 - 1 : FALSE
        BY <1>15
    <2> QED BY <1>15, <1>16, <2>1, ValueIs
<1>18. Value(lines, Owner) = Trim(b)
    <2>1. 2 \in 1..Len(lines) /\ \A i \in 1 .. 2 - 1 : i = 1
        BY <1>15
    <2>2. \A i \in 1 .. 2 - 1 : KeyOf(lines[i]) # <<Owner>>
        BY <1>15, <1>16, <2>1, KeysDiffer
    <2> QED BY <1>15, <1>16, <2>1, <2>2, ValueIs
<1>19. Value(lines, LocalPath) = Trim(c)
    <2>1. 3 \in 1..Len(lines) /\ \A i \in 1 .. 3 - 1 : i = 1 \/ i = 2
        BY <1>15
    <2>2. \A i \in 1 .. 3 - 1 : KeyOf(lines[i]) # <<LocalPath>>
        BY <1>15, <1>16, <2>1, KeysDiffer
    <2> QED BY <1>15, <1>16, <2>1, <2>2, ValueIs
<1>20. Value(lines, MailFolder) = Trim(e)
    <2>1. 4 \in 1..Len(lines) /\ \A i \in 1 .. 4 - 1 : i = 1 \/ i = 2 \/ i = 3
        BY <1>15
    <2>2. \A i \in 1 .. 4 - 1 : KeyOf(lines[i]) # <<MailFolder>>
        BY <1>15, <1>16, <2>1, KeysDiffer
    <2> QED BY <1>15, <1>16, <2>1, <2>2, ValueIs
<1> QED BY <1>14, <1>17, <1>18, <1>19, <1>20

-----------------------------------------------------------------------------
(* The text as a whole: its lines joined, without the line end that         *)
(* trimming takes.                                                          *)

(* A text that does not end with a blank. *)
Firm(s) == s \in Str /\ s # <<>> /\ s[Len(s)] \notin Blank

(* A text with such an end has that end.                                    *)
LEMMA FirmConcat ==
    ASSUME NEW p \in Str, NEW t, Firm(t)
    PROVE  Firm(p \o t) /\ (p # <<>> => (p \o t)[1] = p[1])
<1>1. t \in Str /\ t # <<>> /\ t[Len(t)] \notin Blank
    BY DEF Firm
<1>2. PICK m \in Nat, n \in Nat : m = Len(p) /\ n = Len(t) /\ n > 0
    BY <1>1, StrLemma
<1>3. PICK s \in Str : s = p \o t
    BY <1>1, StrConcat
<1>4. Len(s) = m + n /\ (\A k \in 1..m : s[k] = p[k]) /\ \A k \in 1..n : s[m + k] = t[k]
    <2>1. /\ Len(p \o t) = Len(p) + Len(t)
          /\ \A i \in 1..Len(p) : (p \o t)[i] = p[i]
          /\ \A i \in 1..Len(t) : (p \o t)[Len(p) + i] = t[i]
        BY <1>1, StrConcat
    <2> QED BY <1>2, <1>3, <2>1
<1>5. s # <<>> /\ s[m + n] = t[n]
    BY <1>2, <1>4, StrLemma
<1>6. Firm(s)
    BY <1>1, <1>2, <1>4, <1>5 DEF Firm
<1>7. p # <<>> => s[1] = p[1]
    <2> HAVE p # <<>>
    <2>1. 1 \in 1..m
        BY <1>2, StrLemma
    <2> QED BY <1>4, <2>1
<1> QED BY <1>3, <1>6, <1>7

(* Two numbers, joined.                                                     *)
LEMMA JoinedPair ==
    ASSUME NEW a \in Nat, NEW b \in Nat
    PROVE  <<a>> \o <<b>> \in Str /\ Len(<<a>> \o <<b>>) = 2 /\ (<<a>> \o <<b>>)[1] = a /\ (<<a>> \o <<b>>)[2] = b
<1>1. PICK p \in Str : p = <<a>> /\ Len(p) = 1 /\ p[1] = a
    BY StrLemma
<1>2. /\ p \o <<b>> \in Str /\ Len(p \o <<b>>) = Len(p) + 1 /\ (p \o <<b>>)[Len(p) + 1] = b
      /\ \A i \in 1..Len(p) : (p \o <<b>>)[i] = p[i]
    BY StrMore
<1>3. 1 \in 1..1 /\ 1 + 1 = 2
    OBVIOUS
<1> QED BY <1>1, <1>2, <1>3

(* The end of a line.                                                       *)
LEMMA BreakText ==
    /\ <<CR>> \in Str /\ <<LF>> \in Str /\ <<CR, LF>> \in Str /\ <<CR, LF>> = <<CR>> \o <<LF>>
    /\ Len(<<CR, LF>>) = 2 /\ <<CR, LF>>[1] = CR /\ <<CR, LF>>[2] = LF
    /\ <<CR>> # <<>> /\ NoEscape(<<CR, LF>>)
<1>1. PICK c \in Nat, l \in Nat : c = CR /\ l = LF
    BY DEF CR, LF
<1>2. <<c>> \in Seq(Nat) /\ <<l>> \in Seq(Nat) /\ <<c, l>> \in Seq(Nat) /\ <<c, l>> = <<c>> \o <<l>>
    <2>1. <<c>> \in Seq(Nat) /\ <<l>> \in Seq(Nat) /\ <<c, l>> \in Seq(Nat)
        OBVIOUS
    <2>2. Len(<<c, l>>) = 2 /\ <<c, l>>[1] = c /\ <<c, l>>[2] = l
        OBVIOUS
    <2>3. <<c>> \o <<l>> \in Str /\ Len(<<c>> \o <<l>>) = 2 /\ (<<c>> \o <<l>>)[1] = c /\ (<<c>> \o <<l>>)[2] = l
        BY <2>1, JoinedPair
    <2>4. PICK p \in Str : p = <<c, l>>
        BY <2>1 DEF Str
    <2>5. PICK q \in Str : q = <<c>> \o <<l>>
        BY <2>3
    <2>6. Len(p) = Len(q) /\ \A i \in 1..Len(p) : p[i] = q[i]
        <3>1. Len(p) = 2 /\ p[1] = c /\ p[2] = l
            BY <2>2, <2>4
        <3>2. Len(q) = 2 /\ q[1] = c /\ q[2] = l
            BY <2>3, <2>5
        <3> QED BY <3>1, <3>2
    <2>7. p = q
        BY <2>6, StrEqual
    <2> QED BY <2>1, <2>4, <2>5, <2>7
<1>3. Len(<<c, l>>) = 2 /\ <<c, l>>[1] = c /\ <<c, l>>[2] = l /\ <<c>> # <<>>
    OBVIOUS
<1>4. \A i \in 1..2 : <<c, l>>[i] # Equals
    <2>1. c # Equals /\ l # Equals
        BY <1>1 DEF CR, LF, Equals
    <2> QED BY <1>3, <2>1
<1>5. NoEscape(<<c, l>>)
    <2>1. PICK s : s = <<c, l>>
        OBVIOUS
    <2>2. Len(s) = 2 /\ \A i \in 1..2 : s[i] # Equals
        BY <1>3, <1>4, <2>1
    <2>3. NoEscape(s)
        BY <2>2 DEF NoEscape, Disturbs, SoftBreak, IsHexPair
    <2> QED BY <2>1, <2>3
<1> QED BY <1>1, <1>2, <1>3, <1>5 DEF Str

(* Joining two and then the third, or the last two first.                   *)
Regroups(s, t, u) == (s \o t) \o u = s \o (t \o u)

(* It is the same.                                                          *)
LEMMA Regrouped == \A s, t, u \in Str : Regroups(s, t, u)
BY StrAssoc DEF Regroups

(* A line end moves from one line's end to the next line's front.           *)
RowsJoin(p, r, e, x, z) == (p \o (r \o e)) \o (x \o z) = p \o ((r \o (e \o x)) \o z)

(* It may.                                                                  *)
LEMMA RowsJoined ==
    ASSUME NEW p \in Str, NEW r \in Str, NEW e \in Str, NEW x \in Str, NEW z \in Str
    PROVE  RowsJoin(p, r, e, x, z) /\ r \o (e \o x) \in Str
<1>1. PICK a \in Str : a = r \o e
    BY StrConcat
<1>2. PICK b \in Str : b = x \o z
    BY StrConcat
<1>3. PICK c \in Str : c = e \o x
    BY StrConcat
<1>4. (p \o a) \o b = p \o (a \o b)
    <2>1. Regroups(p, a, b)
        BY Regrouped
    <2> QED BY <2>1 DEF Regroups
<1>5. a \o (x \o z) = (a \o x) \o z
    <2>1. Regroups(a, x, z)
        BY Regrouped
    <2> QED BY <2>1 DEF Regroups
<1>6. (r \o e) \o x = r \o (e \o x)
    <2>1. Regroups(r, e, x)
        BY Regrouped
    <2> QED BY <2>1 DEF Regroups
<1>7. r \o c \in Str
    BY StrConcat
<1> QED BY <1>1, <1>2, <1>3, <1>4, <1>5, <1>6, <1>7 DEF RowsJoin

(* What to_legacy_text writes of four values.                               *)
MailText(a, b, c, e) == Line(Subject, a) \o Line(Owner, b) \o Line(LocalPath, c) \o Line(MailFolder, e)

(* It is the four lines and the last line's end.                            *)
LEMMA BodyText ==
    ASSUME NEW a, NEW b, NEW c, NEW e, Sound(a), Sound(b), Sound(c), Sound(e)
    PROVE  /\ Body(a, b, c, e) \in Str
           /\ MailText(a, b, c, e) = Body(a, b, c, e) \o <<CR, LF>>
           /\ Firm(Body(a, b, c, e)) /\ Body(a, b, c, e)[1] = Subject
<1>1. PICK f1 \in Str : f1 = Field(Subject, a) /\ f1[1] = Subject /\ f1 # <<>>
    BY FieldLemma, KeysDiffer
<1>2. PICK f2 \in Str : f2 = Field(Owner, b)
    BY FieldLemma, KeysDiffer
<1>3. PICK f3 \in Str : f3 = Field(LocalPath, c)
    BY FieldLemma, KeysDiffer
<1>4. PICK f4 \in Str : f4 = Field(MailFolder, e) /\ f4 # <<>> /\ Trim(f4) = f4
    BY FieldLemma, KeysDiffer
<1>5. PICK w \in Str, l \in Str, z \in Str : w = <<CR>> /\ l = <<LF>> /\ z = <<CR, LF>> /\ z = w \o l
    BY BreakText
<1>6. \A f \in Str : f \o z = (f \o w) \o l
    <2> TAKE f \in Str
    <2>1. Regroups(f, w, l)
        BY Regrouped
    <2> QED BY <1>5, <2>1 DEF Regroups
<1>7. PICK r1 \in Str : r1 = f1 \o w
    BY StrConcat
<1>8. PICK r2 \in Str : r2 = f2 \o w
    BY StrConcat
<1>9. PICK r3 \in Str : r3 = f3 \o w
    BY StrConcat
<1>10. /\ Line(Subject, a) = r1 \o l /\ Line(Owner, b) = r2 \o l /\ Line(LocalPath, c) = r3 \o l
       /\ Line(MailFolder, e) = f4 \o z
    BY <1>1, <1>2, <1>3, <1>4, <1>5, <1>6, <1>7, <1>8, <1>9, SMTT(40) DEF Line, Field
<1>11. PICK x3 \in Str : x3 = r3 \o (l \o f4)
    BY RowsJoined
<1>12. PICK x2 \in Str : x2 = r2 \o (l \o x3)
    BY RowsJoined
<1>13. PICK x1 \in Str : x1 = r1 \o (l \o x2)
    BY RowsJoined
<1>14. Body(a, b, c, e) = x1
    BY <1>1, <1>2, <1>3, <1>4, <1>5, <1>7, <1>8, <1>9, <1>11, <1>12, <1>13 DEF Body, Row
<1>15. ((r1 \o l) \o (r2 \o l)) \o (r3 \o l) \o (f4 \o z) = x1 \o z
    <2>1. PICK p1 \in Str : p1 = r1 \o l
        BY StrConcat
    <2>2. PICK p2 \in Str : p2 = p1 \o (r2 \o l)
        BY StrConcat
    <2>3. (p2 \o (r3 \o l)) \o (f4 \o z) = p2 \o (x3 \o z)
        <3>1. RowsJoin(p2, r3, l, f4, z)
            BY RowsJoined
        <3> QED BY <1>11, <3>1 DEF RowsJoin
    <2>4. (p1 \o (r2 \o l)) \o (x3 \o z) = p1 \o (x2 \o z)
        <3>1. RowsJoin(p1, r2, l, x3, z)
            BY RowsJoined
        <3> QED BY <1>12, <3>1 DEF RowsJoin
    <2>5. p1 \o (x2 \o z) = (p1 \o x2) \o z
        <3>1. Regroups(p1, x2, z)
            BY Regrouped
        <3> QED BY <3>1 DEF Regroups
    <2>6. (r1 \o l) \o x2 = r1 \o (l \o x2)
        <3>1. Regroups(r1, l, x2)
            BY Regrouped
        <3> QED BY <3>1 DEF Regroups
    <2> QED BY <1>13, <2>1, <2>2, <2>3, <2>4, <2>5, <2>6
<1>16. Firm(f4)
    <2>1. f4[Len(f4)] \notin Blank
        BY <1>4, TrimmedEnds
    <2> QED BY <1>4, <2>1 DEF Firm
<1>17. Firm(x3)
    <2>1. Firm(l \o f4)
        BY <1>16, FirmConcat
    <2> QED BY <1>11, <2>1, FirmConcat
<1>18. Firm(x2)
    <2>1. Firm(l \o x3)
        BY <1>17, FirmConcat
    <2> QED BY <1>12, <2>1, FirmConcat
<1>19. Firm(x1) /\ x1[1] = r1[1] /\ r1[1] = Subject
    <2>1. Firm(l \o x2)
        BY <1>18, FirmConcat
    <2>2. /\ Len(f1 \o w) = Len(f1) + Len(w)
          /\ \A i \in 1..Len(f1) : (f1 \o w)[i] = f1[i]
        BY StrConcat
    <2>3. PICK n1 \in Nat, n2 \in Nat : n1 = Len(f1) /\ n2 = Len(w) /\ n1 > 0
        BY <1>1, StrLemma
    <2>4. r1[1] = Subject /\ Len(r1) > 0
        BY <1>1, <1>7, <2>2, <2>3
    <2>5. r1 # <<>>
        BY <2>4, StrLemma
    <2>6. Firm(r1 \o (l \o x2)) /\ (r1 # <<>> => (r1 \o (l \o x2))[1] = r1[1])
        BY <2>1, FirmConcat
    <2> QED BY <1>13, <2>4, <2>5, <2>6
<1>20. MailText(a, b, c, e) = x1 \o z
    BY <1>10, <1>15 DEF MailText
<1> QED BY <1>5, <1>14, <1>19, <1>20

(* Trimming takes that end and nothing else.                                *)
LEMMA BodyTrimmed ==
    ASSUME NEW a, NEW b, NEW c, NEW e, Sound(a), Sound(b), Sound(c), Sound(e)
    PROVE  Trim(Body(a, b, c, e) \o <<CR, LF>>) = Body(a, b, c, e) /\ Body(a, b, c, e) # <<>>
<1>1. PICK s \in Str : s = Body(a, b, c, e)
    BY BodyText
<1>2. s # <<>> /\ s[Len(s)] \notin Blank /\ s[1] = Subject
    BY <1>1, BodyText DEF Firm
<1>3. s[1] \notin Blank
    BY <1>2 DEF Subject, Blank, Space, TAB, CR, LF
<1>4. PICK z \in Str : z = <<CR, LF>> /\ Len(z) = 2 /\ z[1] = CR /\ z[2] = LF
    BY BreakText
<1>5. \A k \in 1..Len(z) : z[k] \in Blank
    BY <1>4 DEF Blank
<1>6. Trim(s \o z) = s
    BY <1>2, <1>3, <1>5, TrimBehind
<1> QED BY <1>1, <1>2, <1>4, <1>6

(* A line in front of a text without escapes, and the last line.            *)
LEMMA RowNoEscape ==
    ASSUME NEW key \in Nat, key > 255, NEW v, Sound(v), NEW t \in Str, NoEscape(t)
    PROVE  /\ Row(key, v) \o (<<LF>> \o t) \in Str /\ NoEscape(Row(key, v) \o (<<LF>> \o t))
           /\ NoEscape(Field(key, v) \o <<CR, LF>>)
<1>1. PICK f \in Str, h \in Str : f = Field(key, v) /\ h = <<key, Colon>> /\ f = h \o v
    <2>1. PICK x \in Nat : x = Colon
        BY DEF Colon
    <2>2. <<key, x>> \in Seq(Nat)
        OBVIOUS
    <2> QED BY <2>1, <2>2, FieldLemma DEF Field, Str
<1>2. \A i \in 1..Len(h) : h[i] # Equals
    <2>1. Len(h) = 2 /\ h[1] = key /\ h[2] = Colon
        BY <1>1
    <2>2. key # Equals /\ Colon # Equals
        BY DEF Equals, Colon
    <2> QED BY <2>1, <2>2
<1>3. v \in Str
    BY DEF Sound
<1>4. PICK w \in Str, l \in Str, z \in Str : w = <<CR>> /\ l = <<LF>> /\ z = <<CR, LF>> /\ z = w \o l /\ NoEscape(z)
    BY BreakText
<1>5. ASSUME NEW y \in Str, y # <<>>, y[1] = CR, NoEscape(y) PROVE NoEscape(f \o y)
    <2>1. EndsValue(y)
        <3>1. CR # LF
            BY DEF CR, LF
        <3> QED BY <1>5, <3>1, HexLemma DEF EndsValue
    <2>2. NoEscape(v \o y)
        BY <1>5, <2>1, SoundInText
    <2>3. v \o y \in Str
        BY <1>3, StrConcat
    <2>4. NoEscape(h \o (v \o y))
        BY <1>2, <2>2, <2>3, NoEscapeFront
    <2>5. (h \o v) \o y = h \o (v \o y)
        <3>1. Regroups(h, v, y)
            BY <1>3, Regrouped
        <3> QED BY <3>1 DEF Regroups
    <2> QED BY <1>1, <2>4, <2>5
<1>6. z # <<>> /\ z[1] = CR
    BY <1>4, BreakText
<1>7. NoEscape(f \o z)
    BY <1>4, <1>5, <1>6
<1>8. PICK y \in Str : y = z \o t
    BY StrConcat
<1>9. NoEscape(y)
    <2>1. \A i \in 1..Len(z) : z[i] # Equals
        <3>1. Len(z) = 2 /\ z[1] = CR /\ z[2] = LF /\ CR # Equals /\ LF # Equals
            BY <1>4, BreakText DEF CR, LF, Equals
        <3> QED BY <3>1
    <2> QED BY <1>8, <2>1, NoEscapeFront
<1>10. y # <<>> /\ y[1] = CR
    <2>1. /\ Len(z \o t) = Len(z) + Len(t)
          /\ \A i \in 1..Len(z) : (z \o t)[i] = z[i]
        BY StrConcat
    <2>2. PICK n \in Nat : n = Len(t)
        BY StrLemma
    <2>3. Len(z) = 2 /\ 1 \in 1..Len(z)
        BY <1>4, BreakText
    <2>4. Len(y) > 0 /\ y[1] = CR
        BY <1>6, <1>8, <2>1, <2>2, <2>3
    <2> QED BY <2>4, StrLemma
<1>11. NoEscape(f \o y) /\ f \o y \in Str
    BY <1>5, <1>9, <1>10, StrConcat
<1>12. (f \o w) \o (l \o t) = f \o y
    <2>1. l \o t \in Str
        BY StrConcat
    <2>2. (f \o w) \o (l \o t) = f \o (w \o (l \o t))
        <3>1. Regroups(f, w, l \o t)
            BY <2>1, Regrouped
        <3> QED BY <3>1 DEF Regroups
    <2>3. (w \o l) \o t = w \o (l \o t)
        <3>1. Regroups(w, l, t)
            BY Regrouped
        <3> QED BY <3>1 DEF Regroups
    <2> QED BY <1>4, <1>8, <2>2, <2>3
<1> QED BY <1>1, <1>4, <1>7, <1>11, <1>12 DEF Row

(* The whole text has no escapes.                                           *)
LEMMA BodyNoEscape ==
    ASSUME NEW a, NEW b, NEW c, NEW e, Sound(a), Sound(b), Sound(c), Sound(e)
    PROVE  NoEscape(Body(a, b, c, e) \o <<CR, LF>>) /\ Body(a, b, c, e) \o <<CR, LF>> \in Str
<1>1. PICK l \in Str, z \in Str : l = <<LF>> /\ z = <<CR, LF>>
    BY BreakText
<1>2. PICK f4 \in Str : f4 = Field(MailFolder, e)
    BY FieldLemma, KeysDiffer
<1>3. PICK r1 \in Str, r2 \in Str, r3 \in Str : r1 = Row(Subject, a) /\ r2 = Row(Owner, b) /\ r3 = Row(LocalPath, c)
    BY LineSays, KeysDiffer DEF Says
<1>4. PICK y4 \in Str : y4 = f4 \o z
    BY StrConcat
<1>5. NoEscape(y4)
    <2>1. z \in Str /\ NoEscape(z)
        BY <1>1, BreakText
    <2> QED BY <1>1, <1>2, <1>4, <2>1, RowNoEscape, KeysDiffer
<1>6. PICK y3 \in Str : y3 = r3 \o (l \o y4) /\ NoEscape(y3)
    BY <1>1, <1>3, <1>5, RowNoEscape, KeysDiffer
<1>7. PICK y2 \in Str : y2 = r2 \o (l \o y3) /\ NoEscape(y2)
    BY <1>1, <1>3, <1>6, RowNoEscape, KeysDiffer
<1>8. PICK y1 \in Str : y1 = r1 \o (l \o y2) /\ NoEscape(y1)
    BY <1>1, <1>3, <1>7, RowNoEscape, KeysDiffer
<1>9. \A r, x \in Str : (r \o (l \o x)) \o z = r \o (l \o (x \o z))
    <2> TAKE r, x \in Str
    <2>1. l \o x \in Str
        BY StrConcat
    <2>2. (r \o (l \o x)) \o z = r \o ((l \o x) \o z)
        <3>1. Regroups(r, l \o x, z)
            BY <2>1, Regrouped
        <3> QED BY <3>1 DEF Regroups
    <2>3. (l \o x) \o z = l \o (x \o z)
        <3>1. Regroups(l, x, z)
            BY Regrouped
        <3> QED BY <3>1 DEF Regroups
    <2> QED BY <2>2, <2>3
<1>10. PICK x3 \in Str : x3 = r3 \o (l \o f4)
    BY RowsJoined
<1>11. PICK x2 \in Str : x2 = r2 \o (l \o x3)
    BY RowsJoined
<1>12. Body(a, b, c, e) = r1 \o (l \o x2)
    BY <1>1, <1>2, <1>3, <1>10, <1>11 DEF Body
<1>13. x3 \o z = y3
    BY <1>4, <1>6, <1>9, <1>10
<1>14. x2 \o z = y2
    BY <1>7, <1>9, <1>11, <1>13
<1>15. Body(a, b, c, e) \o z = y1
    <2>1. (r1 \o (l \o x2)) \o z = r1 \o (l \o (x2 \o z))
        BY <1>9
    <2> QED BY <1>8, <1>12, <1>14, <2>1
<1> QED BY <1>1, <1>8, <1>15

-----------------------------------------------------------------------------
(* The subject: a name, plain or encrypted, and the block's place.          *)

(* What stands behind the name in a subject.                                *)
Place(x, seq, count) == <<Slash, x, Slash, Number(seq), Dash, Number(count)>>
Block(seq, count)    == <<Number(seq), Dash, Number(count)>>

(* A sequence is its first element and the rest.                            *)
LEMMA OneBefore ==
    ASSUME NEW a \in Nat, NEW t \in Str, NEW w \in Str, Len(w) = Len(t) + 1, w[1] = a,
           \A i \in 1..Len(t) : w[i + 1] = t[i]
    PROVE  w = <<a>> \o t
<1>1. PICK n \in Nat : n = Len(t)
    BY StrLemma
<1>2. PICK p \in Str : p = <<a>> /\ Len(p) = 1 /\ p[1] = a
    BY StrLemma
<1>3. PICK q \in Str : q = p \o t
    BY StrConcat
<1>4. Len(q) = 1 + n /\ q[1] = a /\ \A i \in 1..n : q[1 + i] = t[i]
    <2>1. /\ Len(p \o t) = Len(p) + Len(t)
          /\ \A i \in 1..Len(p) : (p \o t)[i] = p[i]
          /\ \A i \in 1..Len(t) : (p \o t)[Len(p) + i] = t[i]
        BY StrConcat
    <2>2. 1 \in 1..Len(p)
        BY <1>2
    <2> QED BY <1>1, <1>2, <1>3, <2>1, <2>2
<1>5. Len(w) = Len(q)
    BY <1>1, <1>4
<1>6. ASSUME NEW i \in 1..Len(w) PROVE w[i] = q[i]
    <2>1. CASE i = 1
        BY <1>4, <2>1
    <2>2. CASE i # 1
        <3>1. PICK j \in 1..n : i = j + 1 /\ i = 1 + j
            <4>1. i - 1 \in 1..n /\ i = (i - 1) + 1 /\ i = 1 + (i - 1)
                BY <1>1, <2>2
            <4> QED BY <4>1
        <3>2. w[j + 1] = t[j] /\ q[1 + j] = t[j]
            BY <1>1, <1>4
        <3> QED BY <3>1, <3>2
    <2> QED BY <2>1, <2>2
<1>7. w = q
    BY <1>5, <1>6, StrEqual
<1> QED BY <1>2, <1>3, <1>7

(* Two numbers.                                                             *)
LEMMA SpelledTwo ==
    ASSUME NEW a \in Nat, NEW b \in Nat
    PROVE  <<a, b>> \in Str /\ <<a, b>> = <<a>> \o <<b>>
<1>1. <<a, b>> \in Seq(Nat) /\ <<b>> \in Seq(Nat)
    OBVIOUS
<1>2. PICK w : w = <<a, b>>
    OBVIOUS
<1>3. PICK t : t = <<b>>
    OBVIOUS
<1>4. w \in Str /\ Len(w) = 2 /\ w[1] = a /\ w[2] = b
    BY <1>1, <1>2 DEF Str
<1>5. t \in Str /\ Len(t) = 1 /\ t[1] = b
    BY <1>1, <1>3 DEF Str
<1>6. ASSUME NEW i \in 1..Len(t) PROVE w[i + 1] = t[i]
    <2>1. i = 1
        BY <1>5
    <2> QED BY <1>4, <1>5, <2>1
<1>7. Len(w) = Len(t) + 1 /\ w[1] = a /\ w \in Str /\ t \in Str
    BY <1>4, <1>5
<1>8. w = <<a>> \o t
    BY <1>6, <1>7, OneBefore
<1> QED BY <1>2, <1>3, <1>7, <1>8

(* Three numbers.                                                           *)
LEMMA SpelledThree ==
    ASSUME NEW a \in Nat, NEW b \in Nat, NEW c \in Nat
    PROVE  <<a, b, c>> \in Str /\ <<a, b, c>> = <<a>> \o <<b, c>>
<1>1. <<a, b, c>> \in Seq(Nat) /\ <<b, c>> \in Seq(Nat)
    OBVIOUS
<1>2. PICK w : w = <<a, b, c>>
    OBVIOUS
<1>3. PICK t : t = <<b, c>>
    OBVIOUS
<1>4. w \in Str /\ Len(w) = 3 /\ w[1] = a /\ w[2] = b /\ w[3] = c
    BY <1>1, <1>2 DEF Str
<1>5. t \in Str /\ Len(t) = 2 /\ t[1] = b /\ t[2] = c
    BY <1>1, <1>3 DEF Str
<1>6. ASSUME NEW i \in 1..Len(t) PROVE w[i + 1] = t[i]
    <2>1. i = 1 \/ i = 2
        BY <1>5
    <2> QED BY <1>4, <1>5, <2>1
<1>7. Len(w) = Len(t) + 1 /\ w[1] = a /\ w \in Str /\ t \in Str
    BY <1>4, <1>5
<1>8. w = <<a>> \o t
    BY <1>6, <1>7, OneBefore
<1> QED BY <1>2, <1>3, <1>7, <1>8

(* Two parts in a row.                                                      *)
LEMMA TwoParts ==
    ASSUME NEW a \in Str, NEW b \in Str
    PROVE  LET l == <<a>> \o <<b>> IN Len(l) = 2 /\ l[1] = a /\ l[2] = b
OBVIOUS

(* Three parts in a row.                                                    *)
LEMMA ThreeParts ==
    ASSUME NEW a \in Str, NEW b \in Str, NEW c \in Str
    PROVE  LET l == <<a>> \o (<<b>> \o <<c>>) IN Len(l) = 3 /\ l[1] = a /\ l[2] = b /\ l[3] = c
OBVIOUS

(* It is a value, can follow one, and has the slashes and the dash in their *)
(* places.                                                                  *)
LEMMA PlaceLemma ==
    ASSUME NEW x \in {Plain, Encrypted}, NEW seq \in Nat \ {0}, NEW count \in Nat \ {0}
    PROVE  /\ Place(x, seq, count) \in Str /\ Place(x, seq, count) # <<>>
           /\ EndsValue(Place(x, seq, count)) /\ Sound(Place(x, seq, count))
           /\ Place(x, seq, count) = <<Slash>> \o (<<x>> \o (<<Slash>> \o Block(seq, count)))
           /\ Block(seq, count) \in Str /\ Block(seq, count) # <<>>
           /\ Block(seq, count) = <<Number(seq)>> \o (<<Dash>> \o <<Number(count)>>)
           /\ \A i \in 1..Len(Block(seq, count)) : Block(seq, count)[i] # Slash
<1>1. PICK c \in Nat, d \in Nat, m \in Nat, n \in Nat :
        c = Slash /\ d = Dash /\ m = Number(seq) /\ n = Number(count)
    BY DEF Slash, Dash, Number
<1>2. c = 47 /\ d = 45 /\ m > 400 /\ n > 400 /\ x \in Nat /\ x > 300
    BY <1>1 DEF Slash, Dash, Number, Plain, Encrypted
<1>3. PICK w : w = <<c, x, c, m, d, n>>
    OBVIOUS
<1>4. PICK b : b = <<m, d, n>>
    OBVIOUS
<1>5. w \in Str /\ Len(w) = 6 /\ w[1] = c /\ w[2] = x /\ w[3] = c /\ w[4] = m /\ w[5] = d /\ w[6] = n
    <2>1. <<c, x, c, m, d, n>> \in Seq(Nat)
        BY <1>2
    <2> QED BY <1>3, <2>1 DEF Str
<1>6. b \in Str /\ Len(b) = 3 /\ b[1] = m /\ b[2] = d /\ b[3] = n
    <2>1. <<m, d, n>> \in Seq(Nat)
        OBVIOUS
    <2> QED BY <1>4, <2>1 DEF Str
<1>7. w # <<>> /\ b # <<>>
    BY <1>5, <1>6, StrLemma
<1>8. ASSUME NEW i \in 1..Len(w) PROVE w[i] # Equals /\ w[i] # LF
    <2>1. i \in {1, 2, 3, 4, 5, 6}
        BY <1>5
    <2>2. w[i] \in {c, x, m, d, n}
        BY <1>5, <2>1
    <2> QED BY <1>2, <2>2 DEF Equals, LF
<1>9. NoEscape(w)
    BY <1>8 DEF NoEscape, Disturbs, SoftBreak, IsHexPair
<1>10. Sound(w)
    <2>1. w[Len(w)] = n /\ n # Equals /\ n \notin Blank
        BY <1>2, <1>5 DEF Equals, Blank, Space, TAB, CR, LF
    <2> QED BY <1>5, <1>7, <1>8, <1>9, <2>1 DEF Sound
<1>11. EndsValue(w)
    <2>1. w[1] = Slash /\ Slash # LF
        BY <1>1, <1>5 DEF Slash, LF
    <2> QED BY <1>5, <1>7, <2>1, HexLemma DEF EndsValue
<1>12. \A i \in 1..Len(b) : b[i] # Slash
    <2> TAKE i \in 1..Len(b)
    <2>1. i = 1 \/ i = 2 \/ i = 3
        BY <1>6
    <2>2. m # Slash /\ d # Slash /\ n # Slash
        BY <1>2 DEF Slash
    <2> QED BY <1>6, <2>1, <2>2
<1>13. b = <<m>> \o (<<d>> \o <<n>>)
    <2>1. <<m, d, n>> = <<m>> \o <<d, n>>
        BY SpelledThree
    <2>2. <<d, n>> = <<d>> \o <<n>>
        BY SpelledTwo
    <2> QED BY <1>4, <2>1, <2>2
<1>14. w = <<c>> \o (<<x>> \o (<<c>> \o b))
    <2>1. PICK y \in Nat : y = x
        BY <1>2
    <2>2. PICK u : u = <<y, c, m, d, n>>
        OBVIOUS
    <2>3. PICK v : v = <<c, m, d, n>>
        OBVIOUS
    <2>4. u \in Str /\ Len(u) = 5 /\ u[1] = y /\ u[2] = c /\ u[3] = m /\ u[4] = d /\ u[5] = n
        <3>1. <<y, c, m, d, n>> \in Seq(Nat)
            OBVIOUS
        <3> QED BY <2>2, <3>1 DEF Str
    <2>5. v \in Str /\ Len(v) = 4 /\ v[1] = c /\ v[2] = m /\ v[3] = d /\ v[4] = n
        <3>1. <<c, m, d, n>> \in Seq(Nat)
            OBVIOUS
        <3> QED BY <2>3, <3>1 DEF Str
    <2>6. w = <<c>> \o u
        <3>1. ASSUME NEW i \in 1..Len(u) PROVE w[i + 1] = u[i]
            <4>1. i = 1 \/ i = 2 \/ i = 3 \/ i = 4 \/ i = 5
                BY <2>4
            <4> QED BY <1>5, <2>1, <2>4, <4>1
        <3>2. Len(w) = Len(u) + 1 /\ w[1] = c /\ w \in Str /\ u \in Str
            BY <1>5, <2>4
        <3> QED BY <3>1, <3>2, OneBefore
    <2>7. u = <<y>> \o v
        <3>1. ASSUME NEW i \in 1..Len(v) PROVE u[i + 1] = v[i]
            <4>1. i = 1 \/ i = 2 \/ i = 3 \/ i = 4
                BY <2>5
            <4> QED BY <2>4, <2>5, <4>1
        <3>2. Len(u) = Len(v) + 1 /\ u[1] = y /\ u \in Str /\ v \in Str
            BY <2>4, <2>5
        <3> QED BY <3>1, <3>2, OneBefore
    <2>8. v = <<c>> \o b
        <3>1. ASSUME NEW i \in 1..Len(b) PROVE v[i + 1] = b[i]
            <4>1. i = 1 \/ i = 2 \/ i = 3
                BY <1>6
            <4> QED BY <1>6, <2>5, <4>1
        <3>2. Len(v) = Len(b) + 1 /\ v[1] = c /\ v \in Str /\ b \in Str
            BY <1>6, <2>5
        <3> QED BY <3>1, <3>2, OneBefore
    <2> QED BY <2>1, <2>6, <2>7, <2>8
<1>15. w = Place(x, seq, count) /\ b = Block(seq, count)
    BY <1>1, <1>3, <1>4 DEF Place, Block
<1> QED BY <1>1, <1>5, <1>6, <1>7, <1>10, <1>11, <1>12, <1>13, <1>14, <1>15

(* A subject says where the block belongs and whether its name is           *)
(* encrypted.                                                               *)
LEMMA SubjectParsed ==
    ASSUME NEW n \in Str, \A i \in 1..Len(n) : n[i] # Slash,
           NEW x \in {Plain, Encrypted}, NEW seq \in Nat \ {0}, NEW count \in Nat \ {0}
    PROVE  parse_subject(n \o Place(x, seq, count))
             = [encrypted |-> x = Encrypted, seq |-> seq, count |-> count]
<1>1. PICK c \in Nat, d \in Nat, k \in Nat, l \in Nat :
        c = Slash /\ d = Dash /\ k = Number(seq) /\ l = Number(count)
    BY DEF Slash, Dash, Number
<1>2. c = 47 /\ d = 45 /\ k > 400 /\ l > 400 /\ x \in Nat /\ x > 300
    BY <1>1 DEF Slash, Dash, Number, Plain, Encrypted
<1>3. PICK b \in Str : b = Block(seq, count) /\ b # <<>> /\ b = <<k>> \o (<<d>> \o <<l>>) /\ \A i \in 1..Len(b) : b[i] # c
    BY <1>1, PlaceLemma
<1>4. PICK kk \in Str, ll \in Str, xx \in Str : kk = <<k>> /\ ll = <<l>> /\ xx = <<x>>
    BY <1>2, StrLemma
<1>5. Len(kk) = 1 /\ kk[1] = k /\ Len(ll) = 1 /\ ll[1] = l /\ Len(xx) = 1 /\ xx[1] = x
    BY <1>2, <1>4, StrLemma
<1>6. kk # <<>> /\ ll # <<>>
    BY <1>5, StrLemma
<1>7. Split(b, d) = <<kk>> \o <<ll>>
    <2>1. \A i \in 1..Len(ll) : ll[i] # d
        BY <1>2, <1>5
    <2>2. Split(ll, d) = <<ll>>
        BY <1>6, <2>1, SplitOne
    <2>3. \A i \in 1..Len(kk) : kk[i] # d
        BY <1>2, <1>5
    <2>4. Split(kk \o (<<d>> \o ll), d) = <<kk>> \o Split(ll, d)
        BY <2>3, SplitFirst
    <2> QED BY <1>3, <1>4, <2>2, <2>4
<1>8. PICK t \in Str : t = xx \o (<<c>> \o b)
    BY StrLemma, StrConcat
<1>9. Split(t, c) = <<xx>> \o <<b>>
    <2>1. Split(b, c) = <<b>>
        BY <1>3, SplitOne
    <2>2. \A i \in 1..Len(xx) : xx[i] # c
        BY <1>2, <1>5
    <2>3. Split(xx \o (<<c>> \o b), c) = <<xx>> \o Split(b, c)
        BY <2>2, SplitFirst
    <2> QED BY <1>8, <2>1, <2>3
<1>10. Place(x, seq, count) = <<c>> \o t
    <2>1. Place(x, seq, count) = <<Slash>> \o (<<x>> \o (<<Slash>> \o Block(seq, count)))
        BY PlaceLemma
    <2> QED BY <1>1, <1>3, <1>4, <1>8, <2>1
<1>11. Split(n \o Place(x, seq, count), c) = <<n>> \o (<<xx>> \o <<b>>)
    <2>1. Split(n \o (<<c>> \o t), c) = <<n>> \o Split(t, c)
        <3>1. \A i \in 1..Len(n) : n[i] # c
            BY <1>1
        <3> QED BY <3>1, SplitFirst, ZenonT(60)
    <2> QED BY <1>9, <1>10, <2>1
<1>12. PICK parts : parts = Split(n \o Place(x, seq, count), Slash)
    OBVIOUS
<1>13. Len(parts) = 3 /\ parts[2] = xx /\ parts[3] = b
    <2>1. parts = <<n>> \o (<<xx>> \o <<b>>)
        BY <1>1, <1>11, <1>12
    <2> QED BY <2>1, ThreeParts
<1>14. PICK block : block = Split(b, Dash)
    OBVIOUS
<1>15. Len(block) = 2 /\ block[1] = kk /\ block[2] = ll
    <2>1. block = <<kk>> \o <<ll>>
        BY <1>1, <1>7, <1>14
    <2> QED BY <2>1, TwoParts
<1>16. (xx = <<Encrypted>>) = (x = Encrypted)
    <2>1. <<x>> = <<Encrypted>> <=> x = Encrypted
        OBVIOUS
    <2> QED BY <1>4, <2>1
<1>17. Number(0) = 400 /\ k - Number(0) = seq /\ l - Number(0) = count /\ k > Number(0) /\ l > Number(0)
    BY <1>1 DEF Number
<1>18. parse_subject(n \o Place(x, seq, count))
         = IF Len(parts) # 3 THEN NoSubject
           ELSE IF Len(Split(parts[3], Dash)) # 2 THEN NoSubject
           ELSE IF ~((Split(parts[3], Dash)[1] # <<>> /\ Split(parts[3], Dash)[1][1] > Number(0))
                     /\ (Split(parts[3], Dash)[2] # <<>> /\ Split(parts[3], Dash)[2][1] > Number(0))) THEN NoSubject
           ELSE [encrypted |-> parts[2] = <<Encrypted>>,
                 seq |-> Split(parts[3], Dash)[1][1] - Number(0), count |-> Split(parts[3], Dash)[2][1] - Number(0)]
    BY <1>12 DEF parse_subject
<1>19. parse_subject(n \o Place(x, seq, count))
         = [encrypted |-> xx = <<Encrypted>>, seq |-> kk[1] - Number(0), count |-> ll[1] - Number(0)]
    <2>1. kk[1] > Number(0) /\ ll[1] > Number(0)
        BY <1>5, <1>17
    <2>2. Split(parts[3], Dash) = block /\ Len(block) = 2 /\ block[1] # <<>> /\ block[2] # <<>>
          /\ block[1][1] > Number(0) /\ block[2][1] > Number(0)
        BY <1>6, <1>13, <1>14, <1>15, <2>1
    <2> QED BY <1>13, <1>15, <1>18, <2>2
<1> QED BY <1>5, <1>16, <1>17, <1>19

-----------------------------------------------------------------------------
(* What a mail says of its upload, read on both ways.                       *)

(* Bytes are numbers.                                                       *)
LEMMA OctetsAreStr ==
    ASSUME NEW s \in Seq(Octet)
    PROVE  s \in Str
<1>1. PICK n \in Nat : n = Len(s)
    BY LenProperties
<1>2. \A i \in 1..n : s[i] \in Octet
    BY <1>1, ElementOfSeq
<1>3. \A i \in 1..n : s[i] \in Nat
    <2>1. \A x \in Octet : x \in Nat
        BY DEF Octet
    <2> QED BY <1>2, <2>1
<1> QED BY <1>1, <1>3 DEF Str

(* The subject of a mail, as it is read. *)
LEMMA SubjectLemma ==
    ASSUME NEW n, Sound(n), \A i \in 1..Len(n) : n[i] # Slash,
           NEW x \in {Plain, Encrypted}, NEW seq \in Nat \ {0}, NEW count \in Nat \ {0}
    PROVE  /\ Sound(n \o Place(x, seq, count))
           /\ decode_quoted_printable(Trim(n \o Place(x, seq, count))) = Trim(n \o Place(x, seq, count))
           /\ Trim(n \o Place(x, seq, count)) # <<>>
           /\ parse_subject(Trim(n \o Place(x, seq, count)))
                = [encrypted |-> x = Encrypted, seq |-> seq, count |-> count]
<1>1. PICK w \in Str : w = Place(x, seq, count) /\ w # <<>> /\ EndsValue(w) /\ Sound(w)
    BY PlaceLemma
<1>2. PICK a : a = n \o w
    OBVIOUS
<1>3. Sound(a)
    BY <1>1, <1>2, SoundConcat
<1>4. Sound(Trim(a)) /\ decode_quoted_printable(Trim(a)) = Trim(a)
    BY <1>3, SoundTrim
<1>5. n \in Str /\ n # <<>> /\ n[Len(n)] \notin Blank /\ w[Len(w)] \notin Blank
    BY <1>1 DEF Sound
<1>6. PICK i \in 1..Len(n) : Trim(a) = Part(n, i, Len(n)) \o w
    BY <1>1, <1>2, <1>5, TrimConcat
<1>7. PICK p \in Str, m \in Str : m = Part(n, i, Len(n)) /\ n = p \o m
    BY <1>5, PartIsTail
<1>8. \A j \in 1..Len(m) : m[j] # Slash
    <2> TAKE j \in 1..Len(m)
    <2>1. Len(p \o m) = Len(p) + Len(m) /\ \A k \in 1..Len(m) : (p \o m)[Len(p) + k] = m[k]
        BY StrConcat
    <2>2. PICK k1 \in Nat, k2 \in Nat : k1 = Len(p) /\ k2 = Len(m)
        BY StrLemma
    <2>3. Len(p) + j \in 1..Len(n) /\ n[Len(p) + j] = m[j]
        BY <1>7, <2>1, <2>2
    <2> QED BY <2>3
<1>9. parse_subject(m \o w) = [encrypted |-> x = Encrypted, seq |-> seq, count |-> count]
    BY <1>1, <1>8, SubjectParsed
<1>10. Trim(a) # <<>>
    BY <1>4 DEF Sound
<1> QED BY <1>1, <1>2, <1>3, <1>4, <1>6, <1>7, <1>9, <1>10

(* The fields of metadata are decoded one by one. *)
LEMMA FieldsDecoded ==
    ASSUME NEW s, NEW o, NEW p, NEW m, NEW k, NEW l, NEW z
    PROVE  Decoded([subject |-> s, owner |-> o, local_path |-> p, mail_folder |-> m,
                    block_seq |-> k, block_count |-> l, encrypted |-> z])
             = [subject |-> decode_quoted_printable(s), owner |-> decode_quoted_printable(o),
                local_path |-> decode_quoted_printable(p), mail_folder |-> decode_quoted_printable(m),
                block_seq |-> k, block_count |-> l, encrypted |-> z]
<1>1. PICK f : f = [subject |-> s, owner |-> o, local_path |-> p, mail_folder |-> m,
                    block_seq |-> k, block_count |-> l, encrypted |-> z]
    OBVIOUS
<1>2. PICK f1 : f1 = [f EXCEPT !.subject = decode_quoted_printable(@)]
    OBVIOUS
<1>3. PICK f2 : f2 = [f1 EXCEPT !.owner = decode_quoted_printable(@)]
    OBVIOUS
<1>4. PICK f3 : f3 = [f2 EXCEPT !.local_path = decode_quoted_printable(@)]
    OBVIOUS
<1>5. PICK f4 : f4 = [f3 EXCEPT !.mail_folder = decode_quoted_printable(@)]
    OBVIOUS
<1>6. f1 = [subject |-> decode_quoted_printable(s), owner |-> o, local_path |-> p, mail_folder |-> m,
                    block_seq |-> k, block_count |-> l, encrypted |-> z]
    BY <1>1, <1>2
<1>7. f2 = [subject |-> decode_quoted_printable(s), owner |-> decode_quoted_printable(o), local_path |-> p, mail_folder |-> m,
                    block_seq |-> k, block_count |-> l, encrypted |-> z]
    BY <1>6, <1>3
<1>8. Decoded(f) = f4
   BY <1>2, <1>3, <1>4, <1>5 DEF Decoded
<1>9. f4 = [subject |-> decode_quoted_printable(s), owner |-> decode_quoted_printable(o),
                local_path |-> decode_quoted_printable(p), mail_folder |-> decode_quoted_printable(m),
                block_seq |-> k, block_count |-> l, encrypted |-> z]
  BY <1>7, <1>4, <1>5
<1> QED BY <1>9, <1>8, <1>1

(* Values an upload writes, and a text from which they are read.           *)
Writes(n, x, seq, count, a, b, c, e) ==
    /\ Sound(n) /\ (\A i \in 1..Len(n) : n[i] # Slash)
    /\ x \in {Plain, Encrypted} /\ seq \in Nat \ {0} /\ count \in Nat \ {0}
    /\ a = n \o Place(x, seq, count)
    /\ Sound(b) /\ Sound(c) /\ Sound(e) /\ Trim(b) = b /\ Trim(c) = c /\ Trim(e) = e
ReadsBack(t, x, seq, count, a, b, c, e) ==
    LET r == <<[subject |-> Trim(a), owner |-> b, local_path |-> c, mail_folder |-> e,
                block_seq |-> seq, block_count |-> count, encrypted |-> x = Encrypted]>>
    IN  /\ parse_cached_metadata_text(t) = r
        /\ parse_cached_metadata_text(encode_quoted_printable(t)) = r
        /\ decode_quoted_printable(encode_quoted_printable(t)) = t
        /\ Trim(a) # <<>>

(* The text of a mail is read as it was written. *)
LEMMA TextRead ==
    ASSUME NEW n, NEW x, NEW seq, NEW count, NEW a, NEW b, NEW c, NEW e, Writes(n, x, seq, count, a, b, c, e)
    PROVE  ReadsBack(MailText(a, b, c, e), x, seq, count, a, b, c, e)
<1>1. /\ Sound(n) /\ (\A i \in 1..Len(n) : n[i] # Slash)
      /\ x \in {Plain, Encrypted} /\ seq \in Nat \ {0} /\ count \in Nat \ {0}
      /\ a = n \o Place(x, seq, count)
      /\ Sound(b) /\ Sound(c) /\ Sound(e) /\ Trim(b) = b /\ Trim(c) = c /\ Trim(e) = e
    BY DEF Writes
<1> DEFINE f == [subject |-> Trim(a), owner |-> b, local_path |-> c, mail_folder |-> e,
                 block_seq |-> seq, block_count |-> count, encrypted |-> x = Encrypted]
<1>2. /\ Sound(a) /\ decode_quoted_printable(Trim(a)) = Trim(a) /\ Trim(a) # <<>>
      /\ parse_subject(Trim(a)) = [encrypted |-> x = Encrypted, seq |-> seq, count |-> count]
    BY <1>1, SubjectLemma
<1>3. PICK t : t = MailText(a, b, c, e)
    OBVIOUS
<1>4. PICK s : s = Body(a, b, c, e)
    OBVIOUS
<1>5. t = s \o <<CR, LF>>
    BY <1>1, <1>2, <1>3, <1>4, BodyText
<1>6. t \in Str /\ NoEscape(t)
    BY <1>1, <1>2, <1>4, <1>5, BodyNoEscape
<1>7. Trim(t) = s /\ s # <<>>
    <2>1. Trim(Body(a, b, c, e) \o <<CR, LF>>) = Body(a, b, c, e) /\ Body(a, b, c, e) # <<>>
        BY <1>1, <1>2, BodyTrimmed, SMTT(40)
    <2> QED BY <1>4, <1>5, <2>1
<1>8. /\ Value(Split(s, LF), Subject) = Trim(a) /\ Value(Split(s, LF), Owner) = b
      /\ Value(Split(s, LF), LocalPath) = c /\ Value(Split(s, LF), MailFolder) = e
    BY <1>1, <1>2, <1>4, BodyLines
<1>9. from_legacy_text(s) = f
    <2>1. parse_subject(Trim(a)).seq = seq /\ parse_subject(Trim(a)).count = count
          /\ parse_subject(Trim(a)).encrypted = (x = Encrypted)
        BY <1>2
    <2> QED BY <1>8, <2>1 DEF from_legacy_text
<1>10. /\ decode_quoted_printable(b) = b /\ decode_quoted_printable(c) = c /\ decode_quoted_printable(e) = e
    BY <1>1, DecodesItself DEF Sound
<1>11. Decoded(f) = f
    <2>1. Decoded(f) = [subject |-> decode_quoted_printable(Trim(a)), owner |-> decode_quoted_printable(b),
                        local_path |-> decode_quoted_printable(c), mail_folder |-> decode_quoted_printable(e),
                        block_seq |-> seq, block_count |-> count, encrypted |-> x = Encrypted]
        BY FieldsDecoded
    <2> QED BY <1>2, <1>10, <2>1
<1>12. Usable(f) = <<f>>
    <2>1. f.subject # <<>>
        BY <1>2
    <2> QED BY <2>1 DEF Usable
<1> HIDE DEF f
<1>13. TryParse(t) = <<f>>
    BY <1>7, <1>9, <1>11, <1>12 DEF TryParse
<1>14. decode_quoted_printable(t) = t
    BY <1>6, DecodesItself
<1>15. decode_quoted_printable(encode_quoted_printable(t)) = t
    BY <1>6, PrintableRoundTrip
<1>16. <<f>> # <<>>
    OBVIOUS
<1>17. parse_cached_metadata_text(t) = <<f>> /\ parse_cached_metadata_text(encode_quoted_printable(t)) = <<f>>
    BY <1>13, <1>14, <1>15, <1>16 DEF parse_cached_metadata_text, FirstOf
<1> QED BY <1>2, <1>3, <1>15, <1>17 DEF f, ReadsBack

(* An upload, and its metadata as another client has them.                 *)
Found(u) ==
    [subject |-> Trim(Uploaded(u).subject), owner |-> u.owner, local_path |-> local_path_text(u),
     mail_folder |-> u.mailbox, block_seq |-> u.seq, block_count |-> u.count,
     encrypted |-> should_encrypt_mailbox(u.mailbox)]

(* What the assumption says of an upload.                                   *)
LEMMA UploadLemma ==
    ASSUME NEW u \in Uploads
    PROVE  /\ u.directory \in Seq(Octet) /\ u.name \in Seq(Octet) /\ u.mailbox \in Seq(Octet)
           /\ u.owner \in Seq(Octet) /\ u.payload \in Seq(Octet)
           /\ u.seq \in Nat \ {0} /\ u.count \in Nat \ {0}
           /\ u.name # <<>> /\ (\A i \in 1..Len(u.name) : u.name[i] # Slash)
           /\ local_path_text(u) \in Seq(Octet) /\ local_path_text(u) # <<>> /\ u # NoMail
<1>1. u \in [directory : Seq(Octet), name : Seq(Octet), mailbox : Seq(Octet),
             owner : Seq(Octet), payload : Seq(Octet), seq : Nat \ {0}, count : Nat \ {0}]
    BY UploadsAssumption
<1>2. u.name # <<>> /\ Slash \notin ToSet(u.name)
    BY UploadsAssumption
<1>3. \A i \in 1..Len(u.name) : u.name[i] # Slash
    BY <1>2 DEF ToSet
<1>4. PICK d \in Seq(Octet), n \in Seq(Octet) : d = u.directory /\ n = u.name
    BY <1>1
<1>5. d \o n \in Seq(Octet) /\ d \in Str /\ n \in Str
    BY ConcatProperties, OctetsAreStr
<1>6. d \o n # <<>>
    <2>1. Len(d \o n) = Len(d) + Len(n)
        BY <1>5, StrConcat
    <2>2. PICK j \in Nat, k \in Nat : j = Len(d) /\ k = Len(n) /\ k > 0
        BY <1>2, <1>4, <1>5, StrLemma
    <2>3. Len(d \o n) > 0
        BY <2>1, <2>2
    <2> QED BY <2>3, StrLemma
<1>7. u # NoMail
    <2>1. DOMAIN u # {}
        BY <1>1
    <2>2. DOMAIN NoMail = {}
        BY DEF NoMail
    <2> QED BY <2>1, <2>2
<1> QED BY <1>1, <1>2, <1>3, <1>4, <1>5, <1>6, <1>7 DEF local_path_text

(* Both ways of reading an upload's metadata, as the part is stored and as  *)
(* it is decoded, come to the same.                                         *)
LEMMA MetadataRead ==
    ASSUME NEW u \in Uploads, KeptUpload(u)
    PROVE  LET t == encode_quoted_printable(to_legacy_text(Uploaded(u)))
           IN  /\ Metadata(t) = <<Found(u)>> /\ Metadata(decode_quoted_printable(t)) = <<Found(u)>>
               /\ Found(u).subject # <<>> /\ u.mailbox # <<>>
<1> DEFINE z == should_encrypt_mailbox(u.mailbox)
           p == local_path_text(u)
           stored(s) == IF z THEN encrypt_string(s) ELSE s
<1>1. /\ u.directory \in Seq(Octet) /\ u.name \in Seq(Octet) /\ u.mailbox \in Seq(Octet) /\ u.owner \in Seq(Octet)
      /\ u.seq \in Nat \ {0} /\ u.count \in Nat \ {0}
      /\ u.name # <<>> /\ (\A i \in 1..Len(u.name) : u.name[i] # Slash)
      /\ p \in Seq(Octet) /\ p # <<>>
    BY UploadLemma
<1>2. PICK b \in Str, e \in Str : b = u.owner /\ e = u.mailbox
    BY <1>1, OctetsAreStr
<1>3. Sound(b) /\ Sound(e) /\ Trim(b) = b /\ Trim(e) = e /\ e # <<>>
    BY <1>2, KeptSound DEF KeptUpload, Kept
<1>4. PICK x \in {Plain, Encrypted} : x = (IF z THEN Encrypted ELSE Plain) /\ ((x = Encrypted) = z)
    <2>1. Plain # Encrypted /\ z \in BOOLEAN
        BY DEF Plain, Encrypted, should_encrypt_mailbox
    <2> QED BY <2>1
<1>5. PICK n, c : n = stored(u.name) /\ c = stored(p)
    OBVIOUS
<1>6. Sound(n) /\ (\A i \in 1..Len(n) : n[i] # Slash) /\ Sound(c) /\ Trim(c) = c
    <2>1. CASE z
        BY <1>1, <1>5, <2>1, EncryptedSound
    <2>2. CASE ~z
        <3>1. p \in Str /\ u.name \in Str /\ u.directory \in Str
            BY <1>1, OctetsAreStr
        <3>2. Kept(p)
            BY <2>2 DEF KeptUpload
        <3>3. Sound(p) /\ Trim(p) = p
            BY <3>1, <3>2, KeptSound DEF Kept
        <3>4. Sound(u.directory \o u.name)
            BY <3>3 DEF local_path_text
        <3>5. Sound(u.name)
            BY <1>1, <3>1, <3>4, SoundTail
        <3> QED BY <1>1, <1>5, <2>2, <3>3, <3>5
    <2> QED BY <2>1, <2>2
<1>7. PICK a : a = n \o Place(x, u.seq, u.count)
    OBVIOUS
<1>8. Uploaded(u) = [subject |-> a, owner |-> b, local_path |-> c, mail_folder |-> e,
                     block_seq |-> u.seq, block_count |-> u.count, encrypted |-> z]
    BY <1>2, <1>4, <1>5, <1>7 DEF Uploaded, make_subject, Place
<1>9. to_legacy_text(Uploaded(u)) = MailText(a, b, c, e)
    BY <1>8 DEF to_legacy_text, MailText
<1> DEFINE f == [subject |-> Trim(a), owner |-> b, local_path |-> c, mail_folder |-> e,
                 block_seq |-> u.seq, block_count |-> u.count, encrypted |-> z]
           t == MailText(a, b, c, e)
<1>10. /\ parse_cached_metadata_text(t) = <<f>> /\ parse_cached_metadata_text(encode_quoted_printable(t)) = <<f>>
       /\ decode_quoted_printable(encode_quoted_printable(t)) = t /\ Trim(a) # <<>>
    <2> DEFINE r == <<[subject |-> Trim(a), owner |-> b, local_path |-> c, mail_folder |-> e,
                       block_seq |-> u.seq, block_count |-> u.count, encrypted |-> x = Encrypted]>>
    <2>1. /\ parse_cached_metadata_text(t) = r /\ parse_cached_metadata_text(encode_quoted_printable(t)) = r
          /\ decode_quoted_printable(encode_quoted_printable(t)) = t /\ Trim(a) # <<>>
        <3>1. PICK k1 \in Nat \ {0}, k2 \in Nat \ {0} : k1 = u.seq /\ k2 = u.count
            BY <1>1
        <3>2. Writes(n, x, k1, k2, a, b, c, e)
            BY <1>3, <1>6, <1>7, <3>1 DEF Writes
        <3> DEFINE q == <<[subject |-> Trim(a), owner |-> b, local_path |-> c, mail_folder |-> e,
                           block_seq |-> k1, block_count |-> k2, encrypted |-> x = Encrypted]>>
        <3>3. /\ parse_cached_metadata_text(t) = q /\ parse_cached_metadata_text(encode_quoted_printable(t)) = q
              /\ decode_quoted_printable(encode_quoted_printable(t)) = t /\ Trim(a) # <<>>
            <4>1. ReadsBack(t, x, k1, k2, a, b, c, e)
                BY <3>2, TextRead
            <4> QED BY <4>1 DEF ReadsBack
        <3> QED BY <3>1, <3>3
    <2>2. r = <<f>>
        BY <1>4
    <2> QED BY <2>1, <2>2
<1>11. Decrypted(<<f>>) = <<Found(u)>>
    <2>1. Uploaded(u).subject = a
        BY <1>8
    <2>2. CASE z
        <3>1. decrypt_string(c) = p
            BY <1>1, <1>5, <2>2, EncryptionRoundTrip
        <3>2. Decrypted(<<f>>) = <<[f EXCEPT !.local_path = p]>>
            BY <2>2, <3>1 DEF Decrypted
        <3> QED BY <1>2, <2>1, <3>2 DEF Found
    <2>3. CASE ~z
        <3>1. Decrypted(<<f>>) = <<f>> /\ c = p
            BY <1>5, <2>3 DEF Decrypted
        <3> QED BY <1>2, <2>1, <3>1 DEF Found
    <2> QED BY <2>2, <2>3
<1>12. Found(u).subject # <<>>
    BY <1>8, <1>10 DEF Found
<1> HIDE DEF f, t
<1> QED BY <1>2, <1>3, <1>9, <1>10, <1>11, <1>12 DEF Metadata, t

-----------------------------------------------------------------------------
(* The steps of MailFormat.                                                 *)

(* The entry that another client makes of a mail. *)
OwnEntry(u) == Entry(Uploaded(u), u.payload)
PlainEntry(u) == Entry([Uploaded(u) EXCEPT !.local_path = local_path_text(u)], u.payload)

(* The entry with the path as the user knows it; in a plain mailbox it is   *)
(* the upload's own.                                                        *)
LEMMA EntryLemma ==
    ASSUME NEW u
    PROVE  /\ PlainEntry(u) = [mail_folder |-> u.mailbox, local_path |-> local_path_text(u),
                               block_seq |-> u.seq, block_count |-> u.count, block_md5 |-> u.payload]
           /\ ~should_encrypt_mailbox(u.mailbox) => OwnEntry(u) = PlainEntry(u)
           /\ Uploaded(u).encrypted = should_encrypt_mailbox(u.mailbox)
<1>1. /\ Uploaded(u).mail_folder = u.mailbox /\ Uploaded(u).block_seq = u.seq /\ Uploaded(u).block_count = u.count
      /\ Uploaded(u).encrypted = should_encrypt_mailbox(u.mailbox)
      /\ ~should_encrypt_mailbox(u.mailbox) => Uploaded(u).local_path = local_path_text(u)
    BY DEF Uploaded
<1>2. PICK m : m = [Uploaded(u) EXCEPT !.local_path = local_path_text(u)]
    OBVIOUS
<1>3. /\ m.mail_folder = u.mailbox /\ m.block_seq = u.seq /\ m.block_count = u.count /\ m.local_path = local_path_text(u)
    BY <1>1, <1>2 DEF Uploaded
<1>4. Entry(m, u.payload) = [mail_folder |-> u.mailbox, local_path |-> local_path_text(u),
                             block_seq |-> u.seq, block_count |-> u.count, block_md5 |-> u.payload]
    BY <1>3 DEF Entry
<1>5. ~should_encrypt_mailbox(u.mailbox) =>
        Entry(Uploaded(u), u.payload) = [mail_folder |-> u.mailbox, local_path |-> local_path_text(u),
                                         block_seq |-> u.seq, block_count |-> u.count, block_md5 |-> u.payload]
    BY <1>1 DEF Entry
<1> QED BY <1>1, <1>2, <1>4, <1>5 DEF OwnEntry, PlainEntry

(* What the metadata that is found makes of the mail. *)
LEMMA FoundLemma ==
    ASSUME NEW u \in Uploads, KeptUpload(u)
    PROVE  /\ Cacheable(<<Found(u)>>, u.mailbox, u.payload) = <<PlainEntry(u)>>
           /\ Matches(<<Found(u)>>, u.payload, PlainEntry(u))
<1>1. /\ u.seq \in Nat \ {0} /\ u.count \in Nat \ {0} /\ local_path_text(u) # <<>>
    BY UploadLemma
<1>2. u.mailbox # <<>> /\ Found(u).subject # <<>>
    BY MetadataRead
<1>3. PICK f : f = Found(u)
    OBVIOUS
<1>4. /\ f.local_path = local_path_text(u) /\ f.mail_folder = u.mailbox /\ f.block_seq = u.seq /\ f.block_count = u.count
    BY <1>3 DEF Found
<1>5. is_cacheable(f)
    BY <1>1, <1>2, <1>3, <1>4 DEF is_cacheable
<1>6. PICK q : q = <<f>>
    OBVIOUS
<1>7. q # <<>> /\ q[1] = f
    BY <1>6
<1>8. [f EXCEPT !.mail_folder = IF @ = <<>> THEN u.mailbox ELSE @] = f
    BY <1>2, <1>3, <1>4 DEF Found
<1>9. Entry(f, u.payload) = PlainEntry(u)
    BY <1>4, EntryLemma DEF Entry
<1>10. Cacheable(q, u.mailbox, u.payload) = <<PlainEntry(u)>>
    BY <1>5, <1>7, <1>8, <1>9 DEF Cacheable
<1>11. Matches(q, u.payload, PlainEntry(u))
    <2>1. PICK e : e = PlainEntry(u)
        OBVIOUS
    <2>2. e.block_md5 = u.payload /\ e.mail_folder = u.mailbox /\ e.local_path = local_path_text(u)
        <3>1. e = [mail_folder |-> u.mailbox, local_path |-> local_path_text(u),
                   block_seq |-> u.seq, block_count |-> u.count, block_md5 |-> u.payload]
            BY <2>1, EntryLemma
        <3> QED BY <3>1
    <2>3. Matches(q, u.payload, e)
        BY <1>4, <1>7, <2>2 DEF Matches, SameText
    <2> QED BY <2>1, <2>3
<1> QED BY <1>3, <1>6, <1>10, <1>11

(* Nothing is stored, indexed or fetched before the upload; then the mail   *)
(* is the upload's, and the entry is the upload's own or what is found.     *)
MailInvariant ==
    /\ upload = NoMail => index = NoMail /\ ~rebuilt /\ restored = NoMail
    /\ upload # NoMail =>
        /\ upload \in Uploads
        /\ message = build_message(Uploaded(upload), upload.payload)
        /\ ~rebuilt => index = <<OwnEntry(upload)>>
        /\ KeptUpload(upload) => /\ rebuilt => index = <<PlainEntry(upload)>>
                                 /\ restored # NoMail /\ (rebuilt \/ ~Uploaded(upload).encrypted) =>
                                        restored = <<"payload", upload.payload>>

(* Nothing is uploaded at first.                                            *)
LEMMA MailInitInvariant == MailInit => MailInvariant
BY DEF MailInit, MailInvariant, NoMail

(* An upload stores its mail and its entry.                                 *)
LEMMA UploadInvariant == MailInvariant /\ UploadBlock => MailInvariant'
<1> SUFFICES ASSUME MailInvariant, UploadBlock PROVE MailInvariant'
    OBVIOUS
<1>1. /\ upload = NoMail /\ upload' \in Uploads /\ message' = build_message(Uploaded(upload'), upload'.payload)
      /\ index' = <<OwnEntry(upload')>> /\ rebuilt' = rebuilt /\ restored' = restored
    BY DEF UploadBlock, OwnEntry
<1>2. ~rebuilt /\ restored = NoMail
    BY <1>1 DEF MailInvariant
<1>3. upload' # NoMail
    BY <1>1, UploadLemma
<1> QED BY <1>1, <1>2, <1>3 DEF MailInvariant

(* Another client's entry is the plain one.                                 *)
LEMMA CacheInvariant == MailInvariant /\ CacheMailbox => MailInvariant'
<1> SUFFICES ASSUME MailInvariant, CacheMailbox PROVE MailInvariant'
    OBVIOUS
<1>1. /\ upload # NoMail /\ restored = NoMail /\ rebuilt'
      /\ index' = Cacheable(Metadata(message.metadata), upload.mailbox, upload.payload)
      /\ upload' = upload /\ message' = message /\ restored' = restored
    BY DEF CacheMailbox
<1>2. upload \in Uploads /\ message = build_message(Uploaded(upload), upload.payload)
    BY <1>1 DEF MailInvariant
<1>3. ASSUME KeptUpload(upload) PROVE index' = <<PlainEntry(upload)>>
    <2>1. message.metadata = encode_quoted_printable(to_legacy_text(Uploaded(upload)))
        BY <1>2 DEF build_message
    <2>2. Metadata(message.metadata) = <<Found(upload)>>
        BY <1>2, <1>3, <2>1, MetadataRead
    <2> QED BY <1>1, <1>2, <1>3, <2>2, FoundLemma
<1> QED BY <1>1, <1>2, <1>3 DEF MailInvariant

(* A fetched block is the payload.                                          *)
LEMMA FetchInvariant == MailInvariant /\ FetchBlock => MailInvariant'
<1> SUFFICES ASSUME MailInvariant, FetchBlock PROVE MailInvariant'
    OBVIOUS
<1> DEFINE payload == base64_decode(message.attachment)
<1>1. /\ index # <<>> /\ restored = NoMail
      /\ restored' = IF Matches(Metadata(decode_quoted_printable(message.metadata)), payload, index[1])
                     THEN <<"payload", payload>> ELSE <<"error">>
      /\ upload' = upload /\ message' = message /\ index' = index /\ rebuilt' = rebuilt
    BY DEF FetchBlock
<1>2. upload # NoMail
    BY <1>1 DEF MailInvariant, NoMail
<1>3. CASE upload # NoMail
    <2>1. upload \in Uploads /\ message = build_message(Uploaded(upload), upload.payload)
        BY <1>3 DEF MailInvariant
    <2>2. ASSUME KeptUpload(upload), rebuilt \/ ~Uploaded(upload).encrypted
          PROVE  restored' = <<"payload", upload.payload>>
        <3>1. index = <<PlainEntry(upload)>>
            <4>1. CASE rebuilt
                BY <1>3, <2>2, <4>1 DEF MailInvariant
            <4>2. CASE ~rebuilt
                <5>1. index = <<OwnEntry(upload)>>
                    BY <1>3, <4>2 DEF MailInvariant
                <5> QED BY <2>2, <4>2, <5>1, EntryLemma
            <4> QED BY <4>1, <4>2
        <3>2. index[1] = PlainEntry(upload)
            BY <3>1
        <3>3. payload = upload.payload
            BY <2>1, UploadLemma, PayloadRoundTrip DEF build_message
        <3>4. Metadata(decode_quoted_printable(message.metadata)) = <<Found(upload)>>
            <4>1. message.metadata = encode_quoted_printable(to_legacy_text(Uploaded(upload)))
                BY <2>1 DEF build_message
            <4> QED BY <2>1, <2>2, <4>1, MetadataRead
        <3>5. Matches(<<Found(upload)>>, upload.payload, PlainEntry(upload))
            BY <2>1, <2>2, FoundLemma
        <3> HIDE DEF payload
        <3> QED BY <1>1, <3>2, <3>3, <3>4, <3>5
    <2> QED BY <1>1, <1>3, <2>1, <2>2 DEF MailInvariant
<1> QED BY <1>2, <1>3

(* What upload stores can be restored: for any uploads whose texts survive  *)
(* in their fields, and any payloads and encrypted names at all, the mail   *)
(* is indexed under its own path, mailbox and place, and its block is       *)
(* fetched as it was.                                                       *)
THEOREM UploadedIsRestorableHolds == MailSpec => []UploadedIsRestorable
<1>1. MailInvariant /\ [MailNext]_mail_vars => MailInvariant'
    <2> SUFFICES ASSUME MailInvariant, [MailNext]_mail_vars PROVE MailInvariant'
        OBVIOUS
    <2>1. CASE UploadBlock
        BY <2>1, UploadInvariant
    <2>2. CASE CacheMailbox
        BY <2>2, CacheInvariant
    <2>3. CASE FetchBlock
        BY <2>3, FetchInvariant
    <2>4. CASE UNCHANGED mail_vars
        BY <2>4 DEF mail_vars, MailInvariant
    <2> QED BY <2>1, <2>2, <2>3, <2>4 DEF MailNext
<1>2. MailInvariant => UploadedIsRestorable
    BY DEF MailInvariant, UploadedIsRestorable, PlainEntry
<1> QED BY <1>1, <1>2, MailInitInvariant, PTL DEF MailSpec
=============================================================================
