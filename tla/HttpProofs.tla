----------------------------- MODULE HttpProofs ------------------------------
(* That a handler of the web server finds what was sent to it and that its    *)
(* reply reads back as it gave it, whatever the requests, the handlers and    *)
(* the sizes are.  A file's bytes and a text's arguments are followed by      *)
(* where they lie in what was sent; a reply by how many of its handler's      *)
(* calls are made and what they amount to.                                    *)
EXTENDS HttpBody, HttpReply, SequenceTheorems, FiniteSetTheorems, WellFoundedInduction, TLAPS

Tokens == (UNION {ToSet(s) : s \in Queries \cup FormTexts \cup Files \cup {Boundary}})
          \cup {CR, LF, Dash, Amp, Eq, EscAmp, EscEq}

LEMMA AreTokens ==
    ASSUME NEW s \in Queries \cup FormTexts \cup Files \cup {Boundary}
    PROVE  s \in Seq(Tokens)
<1>1. s \in Seq(ToSet(s))
    BY BodyAssumption
<1>2. ToSet(s) \subseteq Tokens
    BY DEF Tokens
<1> QED
    BY <1>1, <1>2, SeqMonotonic, Zenon

LEMMA SpecialTokens ==
    /\ {CR, LF, Dash, Amp, Eq, EscAmp, EscEq} \subseteq Tokens
    /\ CR # LF /\ CR # Dash /\ LF # Dash
BY DEF Tokens, CR, LF, Dash

(* A part of a sequence, for every part that may be empty.                    *)
LEMMA PartOfSeq ==
    ASSUME NEW S, NEW s \in Seq(S), NEW m \in Int, NEW n \in Int, 1 <= m, n <= Len(s)
    PROVE  /\ SubSeq(s, m, n) \in Seq(S)
           /\ Len(SubSeq(s, m, n)) = IF m <= n THEN n - m + 1 ELSE 0
           /\ \A i \in 1 .. n - m + 1 : SubSeq(s, m, n)[i] = s[m + i - 1]
<1>1. ASSUME NEW i \in m .. n PROVE s[i] \in S
    <2>1. i \in 1 .. Len(s)
        BY LenProperties
    <2> QED
        BY <2>1, ElementOfSeq
<1> QED
    BY <1>1, SubSeqProperties

(* The least-number principle, which stands in for induction.                 *)
LEMMA LeastOne ==
    ASSUME NEW T \in SUBSET Nat, T # {}
    PROVE  \E x \in T : \A y \in T : x <= y
<1> DEFINE R == OpToRel(<, Nat)
<1>1. IsWellFoundedOn(R, Nat)
    BY NatLessThanWellFounded
<1>2. PICK x \in T : \A y \in T : ~ (<<y, x>> \in R)
    <2> HIDE DEF R
    <2> QED
        BY <1>1, WFMin
<1>3. ASSUME NEW y \in T, y < x PROVE <<y, x>> \in R
    BY <1>3 DEF OpToRel
<1>4. ASSUME NEW y \in T PROVE x <= y
    <2>1. x \in Nat /\ y \in Nat /\ ~(y < x)
        BY <1>2, <1>3
    <2> QED
        BY <2>1
<1> QED
    BY <1>4

LEMMA CutInTwo ==
    ASSUME NEW S, NEW s \in Seq(S), NEW n \in 0 .. Len(s)
    PROVE  SubSeq(s, 1, n) \o SubSeq(s, n + 1, Len(s)) = s
<1>1. Len(s) \in Nat
    BY LenProperties
<1>2. 1 \in 1 .. Len(s) + 1 /\ n \in 1 - 1 .. Len(s) /\ Len(s) \in n .. Len(s)
    BY <1>1
<1>3. SubSeq(s, 1, n) \o SubSeq(s, n + 1, Len(s)) = SubSeq(s, 1, Len(s))
    BY <1>2, ConcatAdjacentSubSeq
<1> QED
    BY <1>3, SubSeqFull

LEMMA Assoc ==
    ASSUME NEW a \in Seq(Tokens), NEW b \in Seq(Tokens), NEW c \in Seq(Tokens)
    PROVE  a \o (b \o c) = (a \o b) \o c
BY ConcatAssociative

-----------------------------------------------------------------------------
(* Files.                                                                     *)

Given(u) == u.got \o u.buf

IsUpload(u) ==
    /\ u = [buf |-> u.buf, totalSize |-> u.totalSize, got |-> u.got]
    /\ u.buf \in Seq(Tokens) /\ u.got \in Seq(Tokens)
    /\ u.totalSize = Len(u.got)

LEMMA WholeBuffers ==
    ASSUME NEW n \in Nat \ {0}
    PROVE  BufLen * ((n - 1) \div BufLen) \in 0 .. n
<1> DEFINE a == n - 1
           q == a \div BufLen
<1>1. BufLen \in Nat /\ BufLen > 0 /\ a \in Nat
    BY BodyAssumption
<1>2. q \in Int /\ BufLen * q <= a /\ 0 <= q
    BY <1>1, Z3
<1>3. BufLen * q >= 0
    BY <1>1, <1>2, Z3
<1> QED
    BY <1>1, <1>2, <1>3

(* Buffering changes where the bytes are, not what they are.                  *)
LEMMA BufferingKeeps ==
    ASSUME NEW u, IsUpload(u), NEW bs \in Seq(Tokens)
    PROVE  IsUpload(WriteBytes(u, bs)) /\ Given(WriteBytes(u, bs)) = Given(u) \o bs
<1> DEFINE all  == u.buf \o bs
           full == IF all = <<>> THEN 0 ELSE BufLen * ((Len(all) - 1) \div BufLen)
           w    == WriteBytes(u, bs)
<1>1. all \in Seq(Tokens) /\ Len(all) \in Nat /\ (all = <<>> <=> Len(all) = 0)
    BY ConcatProperties, LenProperties, EmptySeq DEF IsUpload
<1>2. full \in 0 .. Len(all)
    BY <1>1, WholeBuffers
<1>3. /\ w.buf = SubSeq(all, full + 1, Len(all)) /\ w.got = u.got \o SubSeq(all, 1, full)
      /\ w.totalSize = u.totalSize + full
      /\ w = [buf |-> w.buf, totalSize |-> w.totalSize, got |-> w.got]
    BY DEF WriteBytes
<1> HIDE DEF all, full, w
<1>5. /\ SubSeq(all, full + 1, Len(all)) \in Seq(Tokens)
      /\ SubSeq(all, 1, full) \in Seq(Tokens) /\ Len(SubSeq(all, 1, full)) = full
    BY <1>1, <1>2, PartOfSeq
<1>6. IsUpload(w)
    <2>1. w.got \in Seq(Tokens) /\ Len(w.got) = Len(u.got) + full
        BY <1>3, <1>5, ConcatProperties DEF IsUpload
    <2>2. w.buf \in Seq(Tokens) /\ w.totalSize = Len(w.got)
        BY <1>3, <1>5, <2>1 DEF IsUpload
    <2> QED
        BY <1>3, <2>1, <2>2 DEF IsUpload
<1>7. SubSeq(all, 1, full) \o SubSeq(all, full + 1, Len(all)) = all
    BY <1>1, <1>2, CutInTwo
<1>8. ASSUME NEW got \in Seq(Tokens), NEW sent \in Seq(Tokens), NEW kept \in Seq(Tokens)
      PROVE  (got \o sent) \o kept = got \o (sent \o kept)
    BY Assoc
<1>9. ASSUME NEW got \in Seq(Tokens), NEW buf \in Seq(Tokens)
      PROVE  (got \o buf) \o bs = got \o (buf \o bs)
    BY Assoc
<1>10. Given(w) = u.got \o all
    <2>1. u.got \in Seq(Tokens)
        BY DEF IsUpload
    <2>2. (u.got \o SubSeq(all, 1, full)) \o SubSeq(all, full + 1, Len(all))
          = u.got \o (SubSeq(all, 1, full) \o SubSeq(all, full + 1, Len(all)))
        BY <1>5, <2>1, <1>8, Zenon
    <2> QED
        BY <1>3, <1>7, <2>2 DEF Given
<1>11. Given(u) \o bs = u.got \o all
    BY <1>9 DEF Given, IsUpload, all
<1> QED
    BY <1>6, <1>10, <1>11 DEF w

-----------------------------------------------------------------------------
(* The bytes of the part, one by one.                                         *)

Part    == PartOf(text)
Pattern == <<CR, LF, Dash, Dash>>

LEMMA PartIs ==
    ASSUME text \in Files
    PROVE  /\ text \in Seq(Tokens) /\ Part \in Seq(Tokens) /\ Boundary \in Seq(Tokens)
           /\ Len(text) \in Nat /\ Len(Boundary) \in Nat
           /\ Len(Part) = Len(text) + Len(Boundary) + 8
           /\ \A i \in 1 .. Len(text) : Part[i] = text[i]
           /\ \A i \in 1 .. 4 : Part[Len(text) + i] = Pattern[i]
           /\ \A i \in 1 .. Len(Boundary) : Part[Len(text) + 4 + i] = Boundary[i]
<1>1. text \in Seq(Tokens) /\ Boundary \in Seq(Tokens)
    BY AreTokens
<1>2. Len(text) \in Nat /\ Len(Boundary) \in Nat
    BY <1>1, LenProperties
<1> DEFINE tail == <<Dash, Dash, CR, LF>>
           deli == Pattern \o Boundary
<1>3. Pattern \in Seq(Tokens) /\ Len(Pattern) = 4 /\ tail \in Seq(Tokens) /\ Len(tail) = 4
    BY SpecialTokens DEF Pattern
<1> HIDE DEF tail
<1>4. deli \in Seq(Tokens) /\ Len(deli) = 4 + Len(Boundary)
      /\ \A i \in 1 .. Len(deli) : deli[i] = IF i <= 4 THEN Pattern[i] ELSE Boundary[i - 4]
    <2> HIDE DEF Pattern
    <2>1. /\ Pattern \o Boundary \in Seq(Tokens) /\ Len(Pattern \o Boundary) = Len(Pattern) + Len(Boundary)
          /\ \A i \in 1 .. Len(Pattern) + Len(Boundary) : (Pattern \o Boundary)[i] =
                IF i <= Len(Pattern) THEN Pattern[i] ELSE Boundary[i - Len(Pattern)]
        BY <1>1, <1>3, ConcatProperties, Zenon
    <2> QED
        BY <2>1, <1>3
<1>5. Part = (text \o deli) \o tail
    <2>1. Part = text \o (Pattern \o Boundary) \o tail
        BY DEF Part, PartOf, Delimiter, Pattern, tail
    <2> QED
        BY <2>1, <1>1, <1>4, <1>3, ConcatAssociative
<1> HIDE DEF deli
<1>6. /\ text \o deli \in Seq(Tokens) /\ Len(text \o deli) = Len(text) + Len(deli)
      /\ \A i \in 1 .. Len(text) + Len(deli) :
            (text \o deli)[i] = IF i <= Len(text) THEN text[i] ELSE deli[i - Len(text)]
    BY <1>1, <1>4, ConcatProperties
<1>7. /\ Part \in Seq(Tokens) /\ Len(Part) = Len(text) + Len(deli) + 4
      /\ \A i \in 1 .. Len(text) + Len(deli) : Part[i] = (text \o deli)[i]
    <2>1. /\ Part \in Seq(Tokens) /\ Len(Part) = Len(text \o deli) + Len(tail)
          /\ \A i \in 1 .. Len(text \o deli) + Len(tail) :
                Part[i] = IF i <= Len(text \o deli) THEN (text \o deli)[i] ELSE tail[i - Len(text \o deli)]
        <3> DEFINE fd == text \o deli
        <3>1. fd \in Seq(Tokens) /\ Part = fd \o tail
            BY <1>5, <1>6
        <3> HIDE DEF fd
        <3>2. /\ Part \in Seq(Tokens) /\ Len(Part) = Len(fd) + Len(tail)
              /\ \A i \in 1 .. Len(fd) + Len(tail) :
                    Part[i] = IF i <= Len(fd) THEN fd[i] ELSE tail[i - Len(fd)]
            BY <1>3, <3>1, ConcatProperties
        <3> QED
            BY <3>2 DEF fd
    <2>2. Len(text \o deli) = Len(text) + Len(deli) /\ Len(tail) = 4 /\ Len(deli) \in Nat
        BY <1>3, <1>6, <1>2, <1>4
    <2> QED
        BY <2>1, <2>2, <1>2
<1>8. \A i \in 1 .. Len(text) : Part[i] = text[i]
    BY <1>2, <1>4, <1>6, <1>7
<1>9. ASSUME NEW i \in 1 .. Len(deli) PROVE Part[Len(text) + i] = deli[i]
    <2>1. Len(text) + i \in 1 .. Len(text) + Len(deli) /\ ~(Len(text) + i <= Len(text))
          /\ Len(text) + i - Len(text) = i
        BY <1>2, <1>4
    <2> QED
        BY <2>1, <1>6, <1>7
<1>10. \A i \in 1 .. 4 : Part[Len(text) + i] = Pattern[i]
    BY <1>2, <1>4, <1>9
<1>11. ASSUME NEW i \in 1 .. Len(Boundary) PROVE Part[Len(text) + 4 + i] = Boundary[i]
    <2>1. 4 + i \in 1 .. Len(deli) /\ ~(4 + i <= 4) /\ 4 + i - 4 = i
          /\ Len(text) + (4 + i) = Len(text) + 4 + i
        BY <1>2, <1>4
    <2>2. Part[Len(text) + (4 + i)] = deli[4 + i]
        BY <2>1, <1>9, Zenon
    <2>3. deli[4 + i] = Boundary[i]
        BY <2>1, <1>4
    <2> QED
        BY <2>1, <2>2, <2>3
<1> QED
    BY <1>1, <1>2, <1>4, <1>7, <1>8, <1>10, <1>11

(* How many bytes of the delimiter's begin are held back at each step.        *)
Reading == {"readfile", "cr", "crlf", "dash"}
Held == IF bpc = "readfile" THEN 0 ELSE IF bpc = "cr" THEN 1 ELSE IF bpc = "crlf" THEN 2 ELSE 3

(* The handler and the buffer have f bytes of the file, the next ones are     *)
(* held back, then comes the byte just read, then those of the part to m.     *)
ReadUpTo(f, m) ==
    /\ IsUpload(upload)
    /\ Given(upload) = SubSeq(text, 1, f)
    /\ \A i \in 1 .. Held : Part[f + i] = Pattern[i]
    /\ byte = Part[f + Held + 1]
    /\ f + Held + 1 <= m
    /\ coming = SubSeq(Part, f + Held + 2, m)

FileInv == (body = "file" /\ NoFalseEnd(text)) =>
    /\ text \in Files
    /\ bpc \in Reading \cup {"first", "done", "aborted"}
    /\ bpc = "first" => upload = NoUpload /\ \E m \in 0 .. Len(Part) : coming = SubSeq(Part, 1, m)
    /\ bpc \in Reading => \E f \in 0 .. Len(text), m \in 0 .. Len(Part) : ReadUpTo(f, m)
    /\ bpc = "done" => upload.got = text /\ upload.totalSize = Len(text)

LEMMA PatternIs ==
    /\ Pattern[1] = CR /\ Pattern[2] = LF /\ Pattern[3] = Dash /\ Pattern[4] = Dash
    /\ CR # LF /\ CR # Dash /\ LF # Dash
BY DEF Pattern, CR, LF, Dash

LEMMA HeldIs ==
    ASSUME bpc \in Reading
    PROVE  Held \in 0 .. 3
BY DEF Held

LEMMA Grows ==
    ASSUME NEW s \in Seq(Tokens), NEW f \in 0 .. Len(s), NEW bs \in Seq(Tokens),
           f + Len(bs) <= Len(s), \A i \in 1 .. Len(bs) : s[f + i] = bs[i]
    PROVE  SubSeq(s, 1, f) \o bs = SubSeq(s, 1, f + Len(bs))
<1> DEFINE a == SubSeq(s, 1, f)
           g == f + Len(bs)
           b == SubSeq(s, 1, g)
           c == a \o bs
<1>1. Len(s) \in Nat /\ Len(bs) \in Nat /\ f \in Nat /\ g \in 0 .. Len(s)
    BY LenProperties
<1>2. a \in Seq(Tokens) /\ Len(a) = f /\ \A i \in 1 .. f : a[i] = s[i]
    <2>1. a \in Seq(Tokens) /\ Len(a) = (IF 1 <= f THEN f - 1 + 1 ELSE 0)
          /\ \A i \in 1 .. f - 1 + 1 : a[i] = s[1 + i - 1]
        BY <1>1, PartOfSeq
    <2> HIDE DEF a
    <2> QED
        BY <2>1, <1>1
<1> HIDE DEF g
<1>3. b \in Seq(Tokens) /\ Len(b) = g /\ \A i \in 1 .. g : b[i] = s[i]
    <2>1. b \in Seq(Tokens) /\ Len(b) = (IF 1 <= g THEN g - 1 + 1 ELSE 0)
          /\ \A i \in 1 .. g - 1 + 1 : b[i] = s[1 + i - 1]
        BY <1>1, PartOfSeq
    <2> HIDE DEF b
    <2> QED
        BY <2>1, <1>1
<1> HIDE DEF a, b
<1>4. c \in Seq(Tokens) /\ Len(c) = g
      /\ \A i \in 1 .. g : c[i] = IF i <= f THEN a[i] ELSE bs[i - f]
    BY <1>1, <1>2, ConcatProperties DEF g
<1> HIDE DEF c
<1>5. ASSUME NEW i \in 1 .. g PROVE c[i] = b[i]
    <2>1. CASE i <= f
        BY <2>1, <1>1, <1>2, <1>3, <1>4
    <2>2. CASE ~(i <= f)
        <3>1. i - f \in 1 .. Len(bs) /\ f + (i - f) = i
            BY <2>2, <1>1 DEF g
        <3>2. s[f + (i - f)] = bs[i - f]
            BY <3>1, Zenon
        <3> QED
            BY <2>2, <3>1, <3>2, <1>3, <1>4
    <2> QED
        BY <2>1, <2>2
<1>6. c = b
    BY <1>3, <1>4, <1>5, SeqEqual
<1> QED
    BY <1>6 DEF a, b, c, g

(* What is left of the part behind the byte just read.                        *)
LEMMA NextOfPart ==
    ASSUME text \in Files, NEW k \in Nat, NEW m \in 0 .. Len(Part),
           coming = SubSeq(Part, k + 1, m), coming # <<>>
    PROVE  /\ k + 1 <= m
           /\ Head(coming) = Part[k + 1]
           /\ Tail(coming) = SubSeq(Part, k + 2, m)
<1>1. Part \in Seq(Tokens) /\ Len(Part) \in Nat /\ k + 1 \in Int /\ m \in Int
    BY PartIs
<1>2. k + 1 <= m
    BY <1>1, SubSeqEmpty
<1>3. k + 1 \in 1 .. Len(Part) /\ m \in k + 1 .. Len(Part) /\ (k + 1) + 1 = k + 2
    BY <1>1, <1>2
<1> DEFINE n == k + 1
<1>4. Head(SubSeq(Part, n, m)) = Part[n] /\ Tail(SubSeq(Part, n, m)) = SubSeq(Part, n + 1, m)
    <2> HIDE DEF n
    <2> QED
        BY <1>1, <1>3, HeadTailOfSubSeq DEF n
<1> QED
    BY <1>2, <1>3, <1>4

(* Bytes held back for the delimiter turn out to be bytes of the file.        *)
LEMMA HeldIsFile ==
    ASSUME text \in Files, NEW h \in 0 .. 3, NEW f \in 0 .. Len(text),
           \A i \in 1 .. h : Part[f + i] = Pattern[i],
           Part[f + h + 1] # Pattern[h + 1]
    PROVE  f + h <= Len(text) /\ \A i \in 1 .. h : text[f + i] = Pattern[i]
<1>1. Len(text) \in Nat /\ f \in Nat /\ h \in Nat
    BY PartIs
<1>2. ASSUME NEW j \in 0 .. h, Len(text) = f + j PROVE j = h
    <2>1. \A i \in 1 .. 4 : Part[f + j + i] = Pattern[i]
        BY <1>2, PartIs
    <2>2. CASE j = 0
        <3>1. h + 1 \in 1 .. 4 /\ f + j + (h + 1) = f + h + 1
            BY <1>1, <2>2
        <3>2. Part[f + j + (h + 1)] = Pattern[h + 1]
            BY <3>1, <2>1
        <3> QED
            BY <3>1, <3>2
    <2>3. CASE j \in 1 .. h - 1
        <3>1. j + 1 \in 1 .. h /\ f + (j + 1) = f + j + 1 /\ j + 1 \in {2, 3}
            BY <1>1, <2>3
        <3>2. Part[f + (j + 1)] = Pattern[j + 1] /\ Part[f + j + 1] = Pattern[1]
            BY <3>1, <2>1
        <3> QED
            BY <3>1, <3>2, PatternIs
    <2> QED
        BY <1>1, <2>2, <2>3
<1>3. f + h <= Len(text)
    <2>1. SUFFICES ASSUME f + h > Len(text) PROVE FALSE
        BY <1>1
    <2>2. Len(text) - f \in 0 .. h /\ Len(text) = f + (Len(text) - f) /\ Len(text) - f # h
        BY <1>1, <2>1
    <2> QED
        BY <2>2, <1>2
<1>4. ASSUME NEW i \in 1 .. h PROVE text[f + i] = Pattern[i]
    BY <1>1, <1>3, PartIs
<1> QED
    BY <1>3, <1>4

-----------------------------------------------------------------------------
(* The steps.                                                                 *)

LEMMA FileStarts == BodyInit => FileInv
<1> SUFFICES ASSUME FileInit, upload = NoUpload PROVE FileInv
    BY DEF BodyInit, ArgsInit, FileInv
<1>1. text \in Files /\ bpc = "first" /\ Part \in Seq(Tokens) /\ Len(Part) \in Nat
    <2>1. text \in Files /\ bpc = "first"
        BY DEF FileInit
    <2> QED
        BY <2>1, PartIs, LenProperties
<1>2. SubSeq(Part, 1, Len(Part)) = Part
    BY <1>1, SubSeqFull
<1>3. \E m \in 0 .. Len(Part) : coming = SubSeq(Part, 1, m)
    <2>1. CASE coming = Part
        <3>1. Len(Part) \in 0 .. Len(Part)
            BY <1>1
        <3> QED
            BY <1>2, <2>1, <3>1
    <2>2. CASE coming \in Prefixes(Part)
        BY <2>2, Zenon DEF Prefixes
    <2> QED
        BY <2>1, <2>2 DEF FileInit, Part
<1> QED
    BY <1>1, <1>3 DEF FileInv, Reading

(* A byte of the delimiter that comes where it may is held back.              *)
LEMMA HoldsOneMore ==
    ASSUME FileInv, body = "file", NoFalseEnd(text), bpc \in Reading, UNCHANGED <<text, body, upload>>,
           NEW then, NextByte(then),
           \/ bpc = "readfile" /\ byte = CR /\ then = "cr"
           \/ bpc = "cr" /\ byte = LF /\ then = "crlf"
           \/ bpc = "crlf" /\ byte = Dash /\ then = "dash"
    PROVE  FileInv'
<1>1. PICK f \in 0 .. Len(text), m \in 0 .. Len(Part) : ReadUpTo(f, m)
    BY DEF FileInv
<1>2. text \in Files /\ Len(text) \in Nat /\ Len(Part) \in Nat /\ Part' = Part
    BY PartIs DEF FileInv, Part
<1>3. bpc' \in {then, "aborted"}
    BY DEF NextByte
<1>4. SUFFICES ASSUME bpc' = then PROVE ReadUpTo(f, m)'
    BY <1>1, <1>2, <1>3 DEF FileInv, Reading
<1>5. Held \in 0 .. 2 /\ Held' = Held + 1 /\ byte = Pattern[Held + 1]
    BY <1>4, PatternIs DEF Held
<1>6. f + Held + 1 + 1 <= m /\ Head(coming) = Part[f + Held + 2] /\ Tail(coming) = SubSeq(Part, f + Held + 3, m)
    <2>1. f + Held + 1 \in Nat /\ coming = SubSeq(Part, f + Held + 1 + 1, m) /\ coming # <<>>
        <3>1. f + Held + 1 \in Nat /\ f + Held + 1 + 1 = f + Held + 2
            BY <1>2, <1>5
        <3>2. coming = SubSeq(Part, f + Held + 2, m) /\ coming # <<>>
            BY <1>1 DEF ReadUpTo, NextByte
        <3> QED
            BY <3>1, <3>2
    <2>2. f + Held + 1 + 1 = f + Held + 2 /\ f + Held + 1 + 2 = f + Held + 3
        BY <1>2, <1>5
    <2>3. /\ f + Held + 1 + 1 <= m
          /\ Head(coming) = Part[f + Held + 1 + 1]
          /\ Tail(coming) = SubSeq(Part, f + Held + 1 + 2, m)
        <3> DEFINE k == f + Held + 1
        <3>1. k \in Nat /\ coming = SubSeq(Part, k + 1, m) /\ coming # <<>>
            BY <2>1
        <3> HIDE DEF k
        <3>2. k + 1 <= m /\ Head(coming) = Part[k + 1] /\ Tail(coming) = SubSeq(Part, k + 2, m)
            BY <1>2, <3>1, NextOfPart
        <3> QED
            BY <3>2 DEF k
    <2> QED
        BY <2>2, <2>3
<1>7. ASSUME NEW i \in 1 .. Held + 1 PROVE Part[f + i] = Pattern[i]
    <2>1. CASE i \in 1 .. Held
        BY <1>1, <2>1 DEF ReadUpTo
    <2>2. CASE i = Held + 1
        <3>1. f + i = f + Held + 1
            BY <2>2, <1>2, <1>5
        <3> QED
            BY <1>1, <1>5, <2>2, <3>1 DEF ReadUpTo
    <2> QED
        BY <1>5, <2>1, <2>2
<1>8. f + (Held + 1) + 1 = f + Held + 2 /\ f + (Held + 1) + 2 = f + Held + 3 /\ f + Held + 2 <= m
    BY <1>2, <1>5, <1>6
<1> QED
    BY <1>1, <1>2, <1>5, <1>6, <1>7, <1>8 DEF ReadUpTo, NextByte, IsUpload, Given

(* The bytes held back are given to the buffer, the last one is read again.   *)
LEMMA GoesOn ==
    ASSUME FileInv, body = "file", NoFalseEnd(text), bpc \in Reading, UNCHANGED body,
           NEW held \in Seq(Tokens), GoesOnAfter(held),
           Len(held) = Held, \A i \in 1 .. Held : held[i] = Pattern[i],
           byte # Pattern[Held + 1]
    PROVE  FileInv'
<1>1. PICK f \in 0 .. Len(text), m \in 0 .. Len(Part) : ReadUpTo(f, m)
    BY DEF FileInv
<1>2. /\ text \in Files /\ text \in Seq(Tokens) /\ Len(text) \in Nat /\ Len(Part) \in Nat
      /\ Held \in 0 .. 3 /\ UNCHANGED <<text, body, coming, byte>> /\ Part' = Part
    BY PartIs, HeldIs DEF FileInv, Part, GoesOnAfter, textVars
<1>3. f + Held <= Len(text) /\ \A i \in 1 .. Held : text[f + i] = held[i]
    <2> DEFINE h == Held
    <2>1. h \in 0 .. 3 /\ (\A i \in 1 .. h : Part[f + i] = Pattern[i]) /\ Part[f + h + 1] # Pattern[h + 1]
        BY <1>1, <1>2 DEF ReadUpTo
    <2> HIDE DEF h
    <2>2. f + h <= Len(text) /\ \A i \in 1 .. h : text[f + i] = Pattern[i]
        BY <1>2, <2>1, HeldIsFile
    <2> QED
        BY <2>2 DEF h
<1> PICK g \in 0 .. Len(text) : g = f + Held
    BY <1>2, <1>3
<1>4. SubSeq(text, 1, f) \o held = SubSeq(text, 1, f + Len(held))
    BY <1>2, <1>3, Grows
<1>5. IsUpload(upload') /\ Given(upload') = SubSeq(text, 1, g)
    BY <1>1, <1>4, BufferingKeeps DEF ReadUpTo, GoesOnAfter
<1>6. bpc' = "readfile" /\ Held' = 0
    BY DEF GoesOnAfter, Held
<1>7. /\ g \in 0 .. Len(text) /\ g + 0 + 1 = f + Held + 1 /\ g + 0 + 2 = f + Held + 2
    BY <1>2, <1>3
<1>8. ReadUpTo(g, m)'
    <2>1. IsUpload(upload)' /\ Given(upload)' = SubSeq(text, 1, g)'
        BY <1>2, <1>5 DEF IsUpload, Given
    <2>2. byte = Part[g + 0 + 1] /\ g + 0 + 1 <= m /\ coming = SubSeq(Part, g + 0 + 2, m)
        BY <1>1, <1>7 DEF ReadUpTo
    <2>3. /\ (\A i \in 1 .. Held : Part[g + i] = Pattern[i])'
          /\ (byte = Part[g + Held + 1])' /\ (g + Held + 1 <= m)' /\ (coming = SubSeq(Part, g + Held + 2, m))'
        BY <1>2, <1>6, <2>2
    <2> QED
        BY <2>1, <2>3 DEF ReadUpTo
<1> QED
    BY <1>2, <1>6, <1>7, <1>8 DEF FileInv, Reading

(* Four bytes as those the delimiter begins with are where it begins.         *)
LEMMA DelimiterIsTheEnd ==
    ASSUME text \in Files, NoFalseEnd(text), NEW f \in 0 .. Len(text),
           \A i \in 1 .. 4 : Part[f + i] = Pattern[i]
    PROVE  f = Len(text)
<1>1. Len(text) \in Nat /\ f \in Nat /\ text \in Seq(Tokens)
    BY PartIs
<1>2. CASE f + 4 <= Len(text)
    <2> DEFINE q == SubSeq(text, f + 1, f + 4)
    <2>1. q \in Seq(Tokens) /\ Len(q) = 4 /\ \A i \in 1 .. 4 : q[i] = text[f + i]
        <3> DEFINE a == f + 1
                   b == f + 4
        <3>1. a \in Int /\ b \in Int /\ 1 <= a /\ b <= Len(text) /\ a <= b /\ b - a + 1 = 4
              /\ \A i \in 1 .. 4 : a + i - 1 = f + i
            BY <1>1, <1>2
        <3> HIDE DEF a, b
        <3>2. /\ SubSeq(text, a, b) \in Seq(Tokens) /\ Len(SubSeq(text, a, b)) = 4
              /\ \A i \in 1 .. b - a + 1 : SubSeq(text, a, b)[i] = text[a + i - 1]
            BY <1>1, <3>1, PartOfSeq
        <3>3. \A i \in 1 .. 4 : SubSeq(text, a, b)[i] = text[f + i]
            BY <3>1, <3>2
        <3> QED
            BY <3>2, <3>3 DEF a, b
    <2> HIDE DEF q
    <2>2. ASSUME NEW i \in 1 .. 4 PROVE text[f + i] = Pattern[i]
        <3>1. f + i \in 1 .. Len(text)
            BY <1>1, <1>2
        <3>2. Part[f + i] = text[f + i]
            BY <3>1, PartIs
        <3> QED
            BY <3>2
    <2>3. Pattern \in Seq(Tokens) /\ Len(Pattern) = 4
        BY SpecialTokens DEF Pattern
    <2>4. q = Pattern
        BY <2>1, <2>2, <2>3, SeqEqual
    <2>5. f + 1 \in 1 .. Len(text) - 3 /\ f + 1 + 3 = f + 4
        BY <1>1, <1>2
    <2>6. SubSeq(text, f + 1, f + 1 + 3) # <<CR, LF, Dash, Dash>>
        BY <2>5, Zenon DEF NoFalseEnd
    <2> QED
        BY <2>4, <2>5, <2>6 DEF q, Pattern
<1>3. ASSUME NEW j \in 1 .. 3, Len(text) = f + j PROVE FALSE
    <2>1. \A i \in 1 .. 4 : Part[f + j + i] = Pattern[i]
        BY <1>3, PartIs
    <2>2. j + 1 \in {2, 3, 4} /\ f + (j + 1) = f + j + 1
        BY <1>1
    <2>3. Part[f + (j + 1)] = Pattern[j + 1] /\ Part[f + j + 1] = Pattern[1]
        BY <2>1, <2>2
    <2> QED
        BY <2>2, <2>3, PatternIs
<1>4. CASE Len(text) \in f + 1 .. f + 3
    <2>1. Len(text) - f \in 1 .. 3 /\ Len(text) = f + (Len(text) - f)
        BY <1>1, <1>4
    <2> QED
        BY <2>1, <1>3
<1> QED
    BY <1>1, <1>2, <1>4

LEMMA AtTheEnd ==
    ASSUME FileInv, body = "file", NoFalseEnd(text), bpc = "dash", byte = Dash
    PROVE  /\ text \in Files /\ IsUpload(upload) /\ Given(upload) = text
           /\ \E m \in 0 .. Len(Part) : coming = SubSeq(Part, Len(text) + 5, m)
<1>1. PICK f \in 0 .. Len(text), m \in 0 .. Len(Part) : ReadUpTo(f, m)
    BY DEF FileInv, Reading
<1>2. text \in Files /\ Held = 3 /\ f \in Nat /\ text \in Seq(Tokens)
    BY PartIs DEF FileInv, Held
<1>3. \A i \in 1 .. 4 : Part[f + i] = Pattern[i]
    <2>1. \A i \in 1 .. 3 : Part[f + i] = Pattern[i]
        BY <1>1, <1>2 DEF ReadUpTo
    <2>2. Part[f + 4] = Pattern[4]
        <3>1. f + 3 + 1 = f + 4
            BY <1>2
        <3> QED
            BY <1>1, <1>2, <3>1, PatternIs DEF ReadUpTo
    <2> QED
        BY <2>1, <2>2
<1>4. f = Len(text)
    BY <1>2, <1>3, DelimiterIsTheEnd
<1>5. f + 3 + 2 = Len(text) + 5
    BY <1>2, <1>4
<1>6. coming = SubSeq(Part, Len(text) + 5, m)
    BY <1>1, <1>2, <1>5 DEF ReadUpTo
<1>7. Given(upload) = text
    BY <1>1, <1>2, <1>4, SubSeqFull DEF ReadUpTo
<1> QED
    BY <1>1, <1>2, <1>6, <1>7 DEF ReadUpTo

LEMMA FirstByteStep ==
    ASSUME FileInv, body = "file", NoFalseEnd(text), FirstByte
    PROVE  FileInv'
<1>1. PICK m \in 0 .. Len(Part) : coming = SubSeq(Part, 1, m)
    BY DEF FileInv, FirstByte
<1>2. /\ text \in Files /\ text \in Seq(Tokens) /\ Len(text) \in Nat /\ upload = NoUpload
      /\ UNCHANGED <<text, body, upload>> /\ Part' = Part
    BY PartIs DEF FileInv, FirstByte, KeepsText, textVars, Part
<1>3. bpc' \in {"readfile", "aborted"}
    BY DEF FirstByte, NextByte
<1>4. SUFFICES ASSUME bpc' = "readfile" PROVE ReadUpTo(0, m)'
    BY <1>2, <1>3, 0 \in 0 .. Len(text) DEF FileInv, Reading
<1>5. 0 + 1 <= m /\ Head(coming) = Part[0 + 1] /\ Tail(coming) = SubSeq(Part, 0 + 2, m)
    <2> DEFINE k == 0
    <2>1. k \in Nat /\ coming = SubSeq(Part, k + 1, m) /\ coming # <<>>
        BY <1>1 DEF FirstByte, NextByte
    <2> HIDE DEF k
    <2>2. k + 1 <= m /\ Head(coming) = Part[k + 1] /\ Tail(coming) = SubSeq(Part, k + 2, m)
        BY <1>2, <2>1, NextOfPart
    <2> QED
        BY <2>2 DEF k
<1>6. IsUpload(upload) /\ Given(upload) = <<>>
    BY <1>2 DEF IsUpload, Given, NoUpload
<1>7. SubSeq(text, 1, 0) = <<>>
    BY SubSeqEmpty
<1>8. Held' = 0
    BY <1>4 DEF Held
<1>9. IsUpload(upload)' /\ Given(upload)' = SubSeq(text, 1, 0)'
    BY <1>2, <1>6, <1>7 DEF IsUpload, Given
<1>10. byte' = Part[0 + 0 + 1] /\ 0 + 0 + 1 <= m /\ coming' = SubSeq(Part, 0 + 0 + 2, m)
    BY <1>5 DEF FirstByte, NextByte
<1> QED
    BY <1>2, <1>8, <1>9, <1>10 DEF ReadUpTo

LEMMA ReadFileStep ==
    ASSUME FileInv, body = "file", NoFalseEnd(text), ReadFile, UNCHANGED body
    PROVE  FileInv'
<1>1. PICK f \in 0 .. Len(text), m \in 0 .. Len(Part) : ReadUpTo(f, m)
    BY DEF FileInv, ReadFile, Reading
<1>2. /\ text \in Files /\ text \in Seq(Tokens) /\ Len(text) \in Nat /\ f \in Nat /\ Held = 0
      /\ UNCHANGED <<text, body>> /\ Part' = Part
    BY PartIs DEF FileInv, ReadFile, KeepsText, textVars, Part, Held
<1>3. byte = Part[f + 1] /\ f + 1 <= m /\ coming = SubSeq(Part, f + 2, m) /\ byte # CR
    <2>1. f + 0 + 1 = f + 1 /\ f + 0 + 2 = f + 2
        BY <1>2
    <2> QED
        BY <1>1, <1>2, <2>1 DEF ReadUpTo, ReadFile
<1>4. f # Len(text)
    <2>1. Part[Len(text) + 1] = CR
        BY <1>2, PartIs, PatternIs
    <2> QED
        BY <1>3, <2>1
<1>5. f + 1 \in 1 .. Len(text) /\ byte = text[f + 1] /\ byte \in Tokens
    <2>1. f + 1 \in 1 .. Len(text)
        BY <1>2, <1>4
    <2>2. Part[f + 1] = text[f + 1]
        BY <1>2, <2>1, PartIs
    <2> QED
        BY <1>2, <1>3, <2>1, <2>2, ElementOfSeq
<1>6. SubSeq(text, 1, f) \o <<byte>> = SubSeq(text, 1, f + 1)
    <2> DEFINE bs == <<byte>>
    <2>1. bs \in Seq(Tokens) /\ Len(bs) = 1 /\ \A i \in 1 .. Len(bs) : text[f + i] = bs[i]
        BY <1>5
    <2> HIDE DEF bs
    <2>3. f + Len(bs) <= Len(text)
        BY <1>2, <1>5, <2>1
    <2>2. SubSeq(text, 1, f) \o bs = SubSeq(text, 1, f + Len(bs))
        BY <1>2, <2>1, <2>3, Grows
    <2> QED
        BY <2>1, <2>2 DEF bs
<1>7. IsUpload(upload') /\ Given(upload') = SubSeq(text, 1, f + 1)
    <2>1. <<byte>> \in Seq(Tokens)
        BY <1>5
    <2> QED
        BY <1>1, <1>6, <2>1, BufferingKeeps DEF ReadUpTo, ReadFile
<1>8. bpc' \in {"readfile", "aborted"}
    BY DEF ReadFile, NextByte
<1> PICK g \in 0 .. Len(text) : g = f + 1
    BY <1>2, <1>5
<1>9. SUFFICES ASSUME bpc' = "readfile" PROVE ReadUpTo(g, m)'
    BY <1>2, <1>8 DEF FileInv, Reading
<1>10. g + 1 <= m /\ Head(coming) = Part[g + 1] /\ Tail(coming) = SubSeq(Part, g + 2, m)
    <2>1. g \in Nat /\ coming = SubSeq(Part, g + 1, m) /\ coming # <<>>
        <3>1. g \in Nat /\ g + 1 = f + 2
            BY <1>2
        <3>2. coming # <<>>
            BY DEF ReadFile, NextByte
        <3> QED
            BY <1>3, <3>1, <3>2
    <2> QED
        BY <1>2, <2>1, NextOfPart
<1>11. Held' = 0
    BY <1>9 DEF Held
<1>12. IsUpload(upload)' /\ Given(upload)' = SubSeq(text, 1, g)'
    BY <1>2, <1>7 DEF IsUpload, Given
<1>13. byte' = Part[g + 0 + 1] /\ g + 0 + 1 <= m /\ coming' = SubSeq(Part, g + 0 + 2, m)
    BY <1>10 DEF ReadFile, NextByte
<1> QED
    BY <1>2, <1>11, <1>12, <1>13 DEF ReadUpTo

LEMMA FileEndsStep ==
    ASSUME FileInv, body = "file", NoFalseEnd(text), FileEnds, UNCHANGED body
    PROVE  FileInv'
<1>1. text \in Files /\ IsUpload(upload) /\ Given(upload) = text
    BY AtTheEnd DEF FileEnds
<1>2. upload'.got = upload.got \o upload.buf /\ upload'.totalSize = upload.totalSize + Len(upload.buf)
    BY <1>1 DEF FileEnds, IsUpload
<1>3. Len(upload.got \o upload.buf) = Len(upload.got) + Len(upload.buf)
    BY <1>1, ConcatProperties DEF IsUpload
<1>4. upload'.got = text /\ upload'.totalSize = Len(text)
    BY <1>1, <1>2, <1>3 DEF IsUpload, Given
<1> QED
    BY <1>1, <1>4 DEF FileInv, FileEnds, KeepsText, textVars, Reading

(* A file without CR LF - - does not go on behind a delimiter.                *)
LEMMA FileGoesOnNot ==
    ASSUME FileInv, body = "file", NoFalseEnd(text), FileGoesOn
    PROVE  FALSE
<1>1. PICK m \in 0 .. Len(Part) : text \in Files /\ coming = SubSeq(Part, Len(text) + 5, m)
    BY AtTheEnd DEF FileGoesOn
<1>2. /\ Part \in Seq(Tokens) /\ Len(text) \in Nat /\ Boundary \in Seq(Tokens) /\ Len(Boundary) \in Nat
      /\ \A i \in 1 .. Len(Boundary) : Part[Len(text) + 4 + i] = Boundary[i]
    BY <1>1, PartIs
<1> PICK n \in Nat, l \in Nat : n = Len(text) + 5 /\ l = Len(Boundary)
    BY <1>2
<1>3. /\ coming \in Seq(Tokens) /\ Len(coming) = IF n <= m THEN m - n + 1 ELSE 0
      /\ \A i \in 1 .. m - n + 1 : coming[i] = Part[n + i - 1]
    <2>1. n \in Int /\ m \in Int /\ 1 <= n /\ m <= Len(Part)
        BY <1>2
    <2>2. coming = SubSeq(Part, n, m)
        BY <1>1
    <2> QED
        BY <1>2, <2>1, <2>2, PartOfSeq
<1>4. Len(coming) > l
    <2>1. SUFFICES ASSUME Len(coming) <= l PROVE FALSE
        BY <1>3
    <2>2. EndLen = Len(coming) /\ Len(coming) \in Nat
        BY <1>3, <2>1 DEF EndLen
    <2>3. Rest = <<>>
        <3>1. Rest = SubSeq(coming, Len(coming) + 1, Len(coming))
            BY <2>2 DEF Rest
        <3>2. Len(coming) + 1 \in Int /\ Len(coming) \in Int /\ Len(coming) < Len(coming) + 1
            BY <2>2
        <3> QED
            BY <3>1, <3>2, SubSeqEmpty
    <2> QED
        BY <2>3 DEF FileGoesOn
<1>5. EndLen = l /\ EndBuf = SubSeq(coming, 1, l)
    BY <1>3, <1>4 DEF EndLen, EndBuf
<1>6. EndBuf \in Seq(Tokens) /\ Len(EndBuf) = l /\ \A i \in 1 .. l : EndBuf[i] = coming[i]
    <2>1. SubSeq(coming, 1, l) \in Seq(Tokens) /\ Len(SubSeq(coming, 1, l)) = (IF 1 <= l THEN l - 1 + 1 ELSE 0)
          /\ \A i \in 1 .. l - 1 + 1 : SubSeq(coming, 1, l)[i] = coming[1 + i - 1]
        BY <1>3, <1>4, PartOfSeq
    <2> QED
        BY <1>5, <2>1
<1>7. ASSUME NEW i \in 1 .. l PROVE EndBuf[i] = Boundary[i]
    <2>1. i \in 1 .. m - n + 1 /\ n + i - 1 = Len(text) + 4 + i
        BY <1>2, <1>3, <1>4
    <2> QED
        BY <1>2, <1>3, <1>6, <2>1
<1>8. EndBuf = Boundary
    BY <1>2, <1>6, <1>7, SeqEqual
<1> QED
    BY <1>8 DEF FileGoesOn, MayGoOn

LEMMA FileStep == FileInv /\ [BodyNext]_bodyVars => FileInv'
<1> SUFFICES ASSUME FileInv, BodyNext \/ UNCHANGED bodyVars PROVE FileInv'
    OBVIOUS
<1>1. CASE UNCHANGED bodyVars
    BY <1>1 DEF bodyVars, textVars, fileVars, FileInv, ReadUpTo, IsUpload, Given, Held, Part
<1>2. UNCHANGED <<text, body>>
    BY <1>1 DEF BodyNext, bodyVars, textVars, fileVars, Decode, NoValue, WithValue, PlainBody, FormBody, FormOverruns, NoBody,
       FirstByte, ReadsNothing, ReadFile, ReadCr, NotLf, ReadLf, NotDash, ReadDash, NotTwoDashes, FileEnds,
       FileGoesOn, GoesOnAfter, KeepsText
<1> SUFFICES ASSUME body = "file", NoFalseEnd(text), BodyNext PROVE FileInv'
    BY <1>1, <1>2 DEF FileInv
<1>3. CASE Decode \/ NoValue \/ WithValue \/ PlainBody \/ FormBody \/ FormOverruns \/ NoBody
    BY <1>3 DEF Decode, NoValue, WithValue, PlainBody, FormBody, FormOverruns, NoBody, FileInv, Reading
<1>4. CASE FirstByte
    BY <1>4, FirstByteStep
<1>5. CASE ReadsNothing
    BY <1>5 DEF ReadsNothing, textVars, FileInv, Reading
<1>6. CASE ReadFile
    BY <1>2, <1>6, ReadFileStep
<1>7. CASE ReadCr \/ ReadLf \/ ReadDash
    BY <1>2, <1>7, HoldsOneMore DEF ReadCr, ReadLf, ReadDash, Reading
<1>8. CASE NotLf
    <2> DEFINE held == <<CR>>
    <2>1. /\ held \in Seq(Tokens) /\ Len(held) = 1 /\ Held = 1 /\ bpc \in Reading
          /\ byte # Pattern[Held + 1] /\ GoesOnAfter(held)
        BY <1>8, SpecialTokens, PatternIs DEF NotLf, Reading, Held
    <2>2. \A i \in 1 .. Held : held[i] = Pattern[i]
        BY <2>1, PatternIs
    <2> HIDE DEF held
    <2> QED
        BY <1>2, <2>1, <2>2, GoesOn
<1>9. CASE NotDash
    <2> DEFINE held == <<CR, LF>>
    <2>1. /\ held \in Seq(Tokens) /\ Len(held) = 2 /\ Held = 2 /\ bpc \in Reading
          /\ byte # Pattern[Held + 1] /\ GoesOnAfter(held)
        BY <1>9, SpecialTokens, PatternIs DEF NotDash, Reading, Held
    <2>2. \A i \in 1 .. Held : held[i] = Pattern[i]
        BY <2>1, PatternIs
    <2> HIDE DEF held
    <2> QED
        BY <1>2, <2>1, <2>2, GoesOn
<1>10. CASE NotTwoDashes
    <2> DEFINE held == <<CR, LF, Dash>>
    <2>1. /\ held \in Seq(Tokens) /\ Len(held) = 3 /\ Held = 3 /\ bpc \in Reading
          /\ byte # Pattern[Held + 1] /\ GoesOnAfter(held)
        BY <1>10, SpecialTokens, PatternIs DEF NotTwoDashes, Reading, Held
    <2>2. \A i \in 1 .. Held : held[i] = Pattern[i]
        BY <2>1, PatternIs
    <2> HIDE DEF held
    <2> QED
        BY <1>2, <2>1, <2>2, GoesOn
<1>11. CASE FileEnds
    BY <1>2, <1>11, FileEndsStep
<1>12. CASE FileGoesOn
    BY <1>12, FileGoesOnNot
<1> QED
    BY <1>3, <1>4, <1>5, <1>6, <1>7, <1>8, <1>9, <1>10, <1>11, <1>12 DEF BodyNext

-----------------------------------------------------------------------------
(* Arguments.                                                                 *)

(* What String.indexOf() promises, and that it promises one number.           *)
Finds(s, x, from, e) ==
    \/ e = 0 /\ \A i \in from .. Len(s) : s[i] # x
    \/ e \in from .. Len(s) /\ s[e] = x /\ \A i \in from .. e - 1 : s[i] # x

LEMMA IndexFinds ==
    ASSUME NEW s \in Seq(Tokens), NEW x, NEW from \in Nat \ {0}
    PROVE  Finds(s, x, from, IndexFrom(s, x, from))
<1> DEFINE at == {i \in from .. Len(s) : s[i] = x}
<1>1. CASE at = {}
    BY <1>1 DEF IndexFrom, Finds
<1>2. CASE at # {}
    <2>1. at \subseteq Nat /\ Len(s) \in Nat
        BY LenProperties
    <2>2. PICK e \in at : \A y \in at : e <= y
        BY <1>2, <2>1, LeastOne
    <2>3. Min(at) \in at /\ \A y \in at : Min(at) <= y
        <3> HIDE DEF at
        <3> QED
            BY <2>2, Zenon DEF Min
    <2>4. IndexFrom(s, x, from) = Min(at)
        BY <1>2 DEF IndexFrom
    <2> DEFINE m == Min(at)
    <2>5. m \in from .. Len(s) /\ s[m] = x
        BY <2>3
    <2>6. ASSUME NEW i \in from .. m - 1 PROVE s[i] # x
        <3>1. i \in from .. Len(s) /\ ~(m <= i)
            BY <2>1, <2>5
        <3> QED
            BY <2>3, <3>1
    <2> HIDE DEF m
    <2>7. Finds(s, x, from, m)
        BY <2>5, <2>6 DEF Finds
    <2> QED
        BY <2>4, <2>7 DEF m
<1> QED
    BY <1>1, <1>2

LEMMA FindsOne ==
    ASSUME NEW s \in Seq(Tokens), NEW x, NEW from \in Nat \ {0}, NEW e, Finds(s, x, from, e)
    PROVE  IndexFrom(s, x, from) = e
<1> DEFINE f == IndexFrom(s, x, from)
<1>1. Finds(s, x, from, f) /\ Len(s) \in Nat
    BY IndexFinds, LenProperties
<1> HIDE DEF f
<1>2. f = e
    BY <1>1 DEF Finds
<1> QED
    BY <1>2 DEF f

LEMMA SubOfSub ==
    ASSUME NEW s \in Seq(Tokens), NEW a \in Nat \ {0}, NEW b \in Int, b <= Len(s),
           NEW m \in Nat \ {0}, NEW n \in Int, n <= b - a + 1
    PROVE  SubSeq(SubSeq(s, a, b), m, n) = SubSeq(s, a + m - 1, a + n - 1)
<1> DEFINE p == SubSeq(s, a, b)
           c == a + m - 1
           d == a + n - 1
<1>0. Len(s) \in Nat
    BY LenProperties
<1>1. /\ p \in Seq(Tokens) /\ Len(p) = IF a <= b THEN b - a + 1 ELSE 0
      /\ \A i \in 1 .. b - a + 1 : p[i] = s[a + i - 1]
    BY <1>0, PartOfSeq
<1> HIDE DEF p
<1>2. CASE m > n
    <2>1. SubSeq(p, m, n) = <<>>
        BY <1>2, SubSeqEmpty
    <2>2. c \in Int /\ d \in Int /\ d < c
        BY <1>2
    <2> HIDE DEF c, d
    <2>3. SubSeq(s, c, d) = <<>>
        BY <2>2, SubSeqEmpty
    <2> QED
        BY <2>1, <2>3 DEF p, c, d
<1>3. CASE m <= n
    <2>1. a <= b /\ n <= Len(p) /\ 1 <= m
        BY <1>1, <1>3
    <2>2. /\ SubSeq(p, m, n) \in Seq(Tokens) /\ Len(SubSeq(p, m, n)) = n - m + 1
          /\ \A i \in 1 .. n - m + 1 : SubSeq(p, m, n)[i] = p[m + i - 1]
        BY <1>1, <1>3, <2>1, PartOfSeq
    <2>3. c \in Int /\ d \in Int /\ 1 <= c /\ d <= Len(s) /\ c <= d /\ d - c + 1 = n - m + 1
        BY <1>0, <1>3
    <2> DEFINE l == n - m + 1
    <2>4. l \in Nat /\ \A i \in 1 .. l : m + i - 1 \in 1 .. b - a + 1 /\ a + (m + i - 1) - 1 = c + i - 1
        BY <1>3
    <2> HIDE DEF c, d
    <2>5. /\ SubSeq(s, c, d) \in Seq(Tokens) /\ Len(SubSeq(s, c, d)) = d - c + 1
          /\ \A i \in 1 .. d - c + 1 : SubSeq(s, c, d)[i] = s[c + i - 1]
        BY <2>3, PartOfSeq
    <2> HIDE DEF l
    <2>6. ASSUME NEW i \in 1 .. l PROVE SubSeq(p, m, n)[i] = SubSeq(s, c, d)[i]
        <3>1. SubSeq(p, m, n)[i] = p[m + i - 1]
            BY <2>2 DEF l
        <3>2. p[m + i - 1] = s[a + (m + i - 1) - 1]
            BY <1>1, <2>4
        <3>3. SubSeq(s, c, d)[i] = s[c + i - 1]
            BY <2>3, <2>5 DEF l
        <3> QED
            BY <2>4, <3>1, <3>2, <3>3
    <2>7. SubSeq(p, m, n) = SubSeq(s, c, d)
        BY <2>2, <2>3, <2>5, <2>6, SeqEqual DEF l
    <2> QED
        BY <2>7 DEF p, c, d
<1> QED
    BY <1>2, <1>3

(* Decoding changes nothing where nothing is escaped.                         *)
NoEscape(s) == \A i \in 1 .. Len(s) : s[i] # EscAmp /\ s[i] # EscEq

LEMMA DecodedIs ==
    ASSUME NEW s \in Seq(Tokens)
    PROVE  /\ Decoded(s) \in Seq(Tokens) /\ Len(Decoded(s)) = Len(s)
           /\ NoEscape(Decoded(s))
           /\ NoEscape(s) => Decoded(s) = s
<1> DEFINE d == Decoded(s)
<1>1. Len(s) \in Nat /\ DOMAIN s = 1 .. Len(s) /\ \A i \in 1 .. Len(s) : s[i] \in Tokens
    BY LenProperties, ElementOfSeq
<1>2. d = [i \in 1 .. Len(s) |-> IF s[i] = EscAmp THEN Amp ELSE IF s[i] = EscEq THEN Eq ELSE s[i]]
    BY <1>1 DEF Decoded
<1>3. \A i \in 1 .. Len(s) : d[i] = IF s[i] = EscAmp THEN Amp ELSE IF s[i] = EscEq THEN Eq ELSE s[i]
    BY <1>2
<1>4. d \in [1 .. Len(s) -> Tokens]
    BY <1>1, <1>2, SpecialTokens
<1>5. d \in Seq(Tokens) /\ Len(d) = Len(s)
    BY <1>1, <1>4
<1> HIDE DEF d
<1>6. NoEscape(d)
    BY <1>3, <1>5 DEF NoEscape, EscAmp, EscEq, Amp, Eq
<1>7. NoEscape(s) => d = s
    BY <1>3, <1>5, SeqEqual DEF NoEscape
<1> QED
    BY <1>5, <1>6, <1>7 DEF d

LEMMA NoEscapeInPart ==
    ASSUME NEW s \in Seq(Tokens), NoEscape(s), NEW m \in Int, NEW n \in Int, 1 <= m, n <= Len(s)
    PROVE  Decoded(SubSeq(s, m, n)) = SubSeq(s, m, n)
<1> DEFINE p == SubSeq(s, m, n)
<1>1. /\ p \in Seq(Tokens) /\ Len(p) = IF m <= n THEN n - m + 1 ELSE 0
      /\ \A i \in 1 .. n - m + 1 : p[i] = s[m + i - 1]
    BY PartOfSeq
<1> HIDE DEF p
<1>2. Len(s) \in Nat
    BY LenProperties
<1>3. ASSUME NEW i \in 1 .. Len(p) PROVE p[i] # EscAmp /\ p[i] # EscEq
    <2>1. i \in 1 .. n - m + 1 /\ m + i - 1 \in 1 .. Len(s)
        BY <1>1, <1>2
    <2>2. p[i] = s[m + i - 1]
        BY <1>1, <2>1
    <2> QED
        BY <2>1, <2>2 DEF NoEscape
<1> QED
    BY <1>1, <1>3, DecodedIs DEF NoEscape, p

(* A piece, its key and its value, by the places of the signs in the text.    *)
PieceEnd(s, i) == IF IndexFrom(s, Amp, i + 1) = 0 THEN Len(s) ELSE IndexFrom(s, Amp, i + 1) - 1
HasValue(s, i) == IndexFrom(s, Eq, i + 1) # 0 /\ IndexFrom(s, Eq, i + 1) <= PieceEnd(s, i)

LEMMA PieceEndIs ==
    ASSUME NEW s \in Seq(Tokens), NEW i \in 0 .. Len(s)
    PROVE  /\ PieceEnd(s, i) \in i .. Len(s)
           /\ IndexFrom(s, Eq, i + 1) = 0 \/ IndexFrom(s, Eq, i + 1) \in i + 1 .. Len(s)
           /\ IndexFrom(s, Amp, i + 1) = 0 \/ IndexFrom(s, Amp, i + 1) \in i + 1 .. Len(s)
<1>1. Len(s) \in Nat /\ i + 1 \in Nat \ {0}
    BY LenProperties
<1>2. Finds(s, Amp, i + 1, IndexFrom(s, Amp, i + 1)) /\ Finds(s, Eq, i + 1, IndexFrom(s, Eq, i + 1))
    BY <1>1, IndexFinds
<1> QED
    BY <1>1, <1>2 DEF Finds, PieceEnd

LEMMA PieceIs ==
    ASSUME NEW s \in Seq(Tokens), NEW i \in 0 .. Len(s)
    PROVE  LET q == IndexFrom(s, Eq, i + 1)
           IN  IndexFrom(PieceAfter(s, i), Eq, 1) = IF HasValue(s, i) THEN q - i ELSE 0
<1> DEFINE q == IndexFrom(s, Eq, i + 1)
           h == PieceEnd(s, i)
           p == PieceAfter(s, i)
           a == i + 1
<1>1. Len(s) \in Nat /\ i \in Nat /\ h \in i .. Len(s) /\ Finds(s, Eq, i + 1, q)
    BY LenProperties, PieceEndIs, IndexFinds
<1>2. p = SubSeq(s, i + 1, h)
    BY DEF PieceAfter, PieceEnd
<1> HIDE DEF p, h
<1>3. a \in Int /\ h \in Int /\ 1 <= a /\ h <= Len(s) /\ h - a + 1 = h - i
      /\ (IF a <= h THEN h - a + 1 ELSE 0) = h - i
      /\ \A j \in 1 .. h - i : a + j - 1 = i + j
    BY <1>1
<1>4. p \in Seq(Tokens) /\ Len(p) = h - i /\ \A j \in 1 .. h - i : p[j] = s[i + j]
    <2>1. p = SubSeq(s, a, h)
        BY <1>2
    <2> HIDE DEF a
    <2>2. /\ p \in Seq(Tokens) /\ Len(p) = IF a <= h THEN h - a + 1 ELSE 0
          /\ \A j \in 1 .. h - a + 1 : p[j] = s[a + j - 1]
        BY <1>3, <2>1, PartOfSeq
    <2>3. ASSUME NEW j \in 1 .. h - i PROVE p[j] = s[i + j]
        BY <1>3, <2>2
    <2> QED
        BY <1>3, <2>2, <2>3
<1> HIDE DEF q
<1>5. CASE HasValue(s, i)
    <2>1. q # 0 /\ q <= h
        BY <1>5 DEF HasValue, q, h
    <2>2. q \in i + 1 .. h /\ s[q] = Eq /\ \A j \in i + 1 .. q - 1 : s[j] # Eq
        BY <1>1, <2>1 DEF Finds
    <2>3. q - i \in 1 .. Len(p) /\ p[q - i] = Eq
        <3>1. q - i \in 1 .. h - i /\ i + (q - i) = q
            BY <1>1, <2>2
        <3>2. p[q - i] = s[i + (q - i)]
            BY <1>4, <3>1
        <3> QED
            BY <1>4, <2>2, <3>1, <3>2
    <2>4. ASSUME NEW j \in 1 .. (q - i) - 1 PROVE p[j] # Eq
        <3>1. j \in 1 .. h - i /\ i + j \in i + 1 .. q - 1
            BY <1>1, <2>2
        <3>2. p[j] = s[i + j]
            BY <1>4, <3>1
        <3> QED
            BY <2>2, <3>1, <3>2
    <2>5. Finds(p, Eq, 1, q - i)
        BY <2>3, <2>4 DEF Finds
    <2> QED
        BY <1>4, <1>5, <2>5, FindsOne DEF p, q
<1>6. CASE ~ HasValue(s, i)
    <2>1. q = 0 \/ q > h
        BY <1>1, <1>6 DEF HasValue, q, h, Finds
    <2>2. ASSUME NEW j \in 1 .. Len(p) PROVE p[j] # Eq
        <3>1. j \in 1 .. h - i /\ i + j \in i + 1 .. h /\ i + j \in i + 1 .. Len(s)
            BY <1>1, <1>4
        <3>2. p[j] = s[i + j]
            BY <1>4, <3>1
        <3>3. s[i + j] # Eq
            <4>1. CASE q = 0
                BY <1>1, <3>1, <4>1 DEF Finds
            <4>2. CASE q > h
                <5>1. q \in i + 1 .. Len(s) /\ i + j \in i + 1 .. q - 1
                    BY <1>1, <3>1, <4>2 DEF Finds
                <5> QED
                    BY <1>1, <5>1 DEF Finds
            <4> QED
                BY <2>1, <4>1, <4>2
        <3> QED
            BY <3>2, <3>3
    <2>3. Finds(p, Eq, 1, 0)
        BY <2>2 DEF Finds
    <2> QED
        BY <1>4, <1>6, <2>3, FindsOne DEF p
<1> QED
    BY <1>5, <1>6

LEMMA KeyValueIs ==
    ASSUME NEW s \in Seq(Tokens), NEW i \in 0 .. Len(s), NoEscape(s), HasValue(s, i)
    PROVE  LET q == IndexFrom(s, Eq, i + 1)
           IN  KeyValue(PieceAfter(s, i)) = <<SubSeq(s, i + 1, q - 1), SubSeq(s, q + 1, PieceEnd(s, i))>>
<1> DEFINE q == IndexFrom(s, Eq, i + 1)
           h == PieceEnd(s, i)
           p == PieceAfter(s, i)
           a == i + 1
           e == q - i
<1>1. /\ Len(s) \in Nat /\ i \in Nat /\ h \in i .. Len(s) /\ q \in i + 1 .. h
      /\ IndexFrom(p, Eq, 1) = e
    BY LenProperties, PieceEndIs, PieceIs DEF HasValue
<1>2. p = SubSeq(s, a, h)
    BY DEF PieceAfter, PieceEnd
<1>3. Len(p) = h - a + 1
    <2> HIDE DEF h
    <2>1. a \in Int /\ h \in Int /\ 1 <= a /\ h <= Len(s) /\ a <= h
        BY <1>1
    <2> HIDE DEF a, p
    <2> QED
        BY <1>2, <2>1, PartOfSeq
<1>4. KeyValue(p) = <<Decoded(SubSeq(p, 1, e - 1)), Decoded(SubSeq(p, e + 1, Len(p)))>>
    <2> HIDE DEF p, e
    <2> QED
        BY <1>1 DEF KeyValue
<1> HIDE DEF p, q, h
<1>5. /\ a \in Nat \ {0} /\ h \in Int /\ h <= Len(s) /\ e - 1 \in Int /\ e - 1 <= h - a + 1
      /\ e + 1 \in Nat \ {0} /\ h - a + 1 \in Int
      /\ a + 1 - 1 = i + 1 /\ a + (e - 1) - 1 = q - 1 /\ a + (e + 1) - 1 = q + 1 /\ a + (h - a + 1) - 1 = h
    BY <1>1
<1>6. SubSeq(p, 1, e - 1) = SubSeq(s, a + 1 - 1, a + (e - 1) - 1)
    <2> DEFINE n == e - 1
    <2>1. n \in Int /\ n <= h - a + 1
        BY <1>5
    <2> HIDE DEF n, a
    <2>2. SubSeq(p, 1, n) = SubSeq(s, a + 1 - 1, a + n - 1)
        BY <1>2, <1>5, <2>1, SubOfSub
    <2> QED
        BY <2>2 DEF n
<1>7. SubSeq(p, e + 1, Len(p)) = SubSeq(s, a + (e + 1) - 1, a + (h - a + 1) - 1)
    <2> DEFINE m == e + 1
               n == h - a + 1
    <2>1. m \in Nat \ {0} /\ n \in Int /\ n <= h - a + 1
        BY <1>5
    <2> HIDE DEF n, m, a
    <2>2. SubSeq(p, m, n) = SubSeq(s, a + m - 1, a + n - 1)
        BY <1>2, <1>5, <2>1, SubOfSub
    <2> QED
        BY <1>3, <2>2 DEF n, m
<1>8. Decoded(SubSeq(s, i + 1, q - 1)) = SubSeq(s, i + 1, q - 1)
    <2>1. i + 1 \in Int /\ q - 1 \in Int /\ 1 <= i + 1 /\ q - 1 <= Len(s)
        BY <1>1
    <2> QED
        BY <2>1, NoEscapeInPart
<1>9. Decoded(SubSeq(s, q + 1, h)) = SubSeq(s, q + 1, h)
    <2>1. q + 1 \in Int /\ h \in Int /\ 1 <= q + 1 /\ h <= Len(s)
        BY <1>1
    <2> QED
        BY <2>1, NoEscapeInPart
<1> QED
    BY <1>4, <1>5, <1>6, <1>7, <1>8, <1>9 DEF p, q, h

(* The pieces that have a value, in the order of their places.                *)
Amps(s)   == {j \in DOMAIN s : s[j] = Amp}
Starts(s) == {0} \cup Amps(s)

LEMMA ValuesAre ==
    ASSUME NEW s \in Seq(Tokens)
    PROVE  /\ WithEq(s) = {i \in Starts(s) : HasValue(s, i)}
           /\ Starts(s) \subseteq 0 .. Len(s) /\ Len(s) \in Nat
           /\ IsFiniteSet(Amps(s)) /\ IsFiniteSet(WithEq(s))
           /\ Cardinality(Amps(s)) \in Nat
           /\ Cardinality(WithEq(s)) \in 0 .. Cardinality(Amps(s)) + 1
<1>1. Len(s) \in Nat /\ DOMAIN s = 1 .. Len(s)
    BY LenProperties
<1>2. Starts(s) \subseteq 0 .. Len(s) /\ Amps(s) \subseteq 0 .. Len(s)
    BY <1>1 DEF Starts, Amps
<1>3. ASSUME NEW i \in Starts(s) PROVE IndexFrom(PieceAfter(s, i), Eq, 1) # 0 <=> HasValue(s, i)
    <2>1. i \in 0 .. Len(s) /\ i \in Nat
        BY <1>1, <1>2
    <2>2. IndexFrom(PieceAfter(s, i), Eq, 1) = IF HasValue(s, i) THEN IndexFrom(s, Eq, i + 1) - i ELSE 0
        BY <2>1, PieceIs
    <2>3. HasValue(s, i) => IndexFrom(s, Eq, i + 1) \in i + 1 .. Len(s)
        BY <2>1, PieceEndIs DEF HasValue
    <2> QED
        BY <1>1, <2>1, <2>2, <2>3
<1>4. WithEq(s) = {i \in Starts(s) : HasValue(s, i)}
    BY <1>3 DEF WithEq, Starts, Amps
<1>5. IsFiniteSet(0 .. Len(s))
    BY <1>1, FS_Interval
<1>6. IsFiniteSet(Amps(s)) /\ Cardinality(Amps(s)) \in Nat
    BY <1>2, <1>5, FS_Subset, FS_CardinalityType
<1>7. IsFiniteSet(Starts(s)) /\ Cardinality(Starts(s)) \in 0 .. Cardinality(Amps(s)) + 1
    <2>1. Starts(s) = Amps(s) \cup {0}
        BY DEF Starts
    <2>2. IsFiniteSet(Amps(s) \cup {0}) /\ Cardinality(Amps(s) \cup {0}) =
              IF 0 \in Amps(s) THEN Cardinality(Amps(s)) ELSE Cardinality(Amps(s)) + 1
        BY <1>6, FS_AddElement
    <2> QED
        BY <1>6, <2>1, <2>2
<1>8. IsFiniteSet(WithEq(s)) /\ Cardinality(WithEq(s)) <= Cardinality(Starts(s)) /\ Cardinality(WithEq(s)) \in Nat
    <2>1. WithEq(s) \in SUBSET Starts(s)
        BY <1>4
    <2>2. IsFiniteSet(WithEq(s)) /\ Cardinality(WithEq(s)) <= Cardinality(Starts(s))
        BY <1>7, <2>1, FS_Subset
    <2> QED
        BY <2>2, FS_CardinalityType
<1> QED
    BY <1>1, <1>2, <1>4, <1>6, <1>7, <1>8

LEMMA OneMoreBefore ==
    ASSUME NEW V \in SUBSET Nat, IsFiniteSet(V), NEW i \in Nat
    PROVE  /\ IsFiniteSet(Before(V, i)) /\ Cardinality(Before(V, i)) \in Nat
           /\ Cardinality(Before(V, i) \cup {i}) = Cardinality(Before(V, i)) + 1
           /\ IsFiniteSet(Before(V, i) \cup {i})
<1>1. IsFiniteSet(Before(V, i)) /\ Cardinality(Before(V, i)) \in Nat
    <2>1. Before(V, i) \in SUBSET V
        BY DEF Before
    <2>2. IsFiniteSet(Before(V, i))
        BY <2>1, FS_Subset
    <2> QED
        BY <2>2, FS_CardinalityType
<1>2. i \notin Before(V, i)
    BY DEF Before
<1> QED
    BY <1>1, <1>2, FS_AddElement

LEMMA NthIs ==
    ASSUME NEW V \in SUBSET Nat, IsFiniteSet(V), NEW i \in V
    PROVE  /\ Nth(V, Cardinality(Before(V, i)) + 1) = i
           /\ Cardinality(Before(V, i)) + 1 <= Cardinality(V)
<1>1. ASSUME NEW a \in V, NEW b \in V, a < b PROVE Cardinality(Before(V, a)) < Cardinality(Before(V, b))
    <2>1. Before(V, a) \cup {a} \in SUBSET Before(V, b)
        <3>1. ASSUME NEW j \in V, j < a PROVE j < b
            <4>1. j \in Nat /\ a \in Nat /\ b \in Nat
                OBVIOUS
            <4> QED
                BY <1>1, <3>1, <4>1
        <3> QED
            BY <1>1, <3>1 DEF Before
    <2>2. /\ Cardinality(Before(V, a) \cup {a}) = Cardinality(Before(V, a)) + 1
          /\ Cardinality(Before(V, a)) \in Nat
          /\ IsFiniteSet(Before(V, b)) /\ Cardinality(Before(V, b)) \in Nat
        BY OneMoreBefore
    <2>3. Cardinality(Before(V, a) \cup {a}) <= Cardinality(Before(V, b))
        BY <2>1, <2>2, FS_Subset
    <2> QED
        BY <2>2, <2>3
<1>2. \A a \in V : Cardinality(Before(V, a)) \in Nat
    BY OneMoreBefore
<1>3. ASSUME NEW a \in V, Cardinality(Before(V, a)) = Cardinality(Before(V, i)) PROVE a = i
    <2>1. a \in Nat /\ i \in Nat /\ ~ (a < i) /\ ~ (i < a)
        BY <1>1, <1>2, <1>3
    <2> QED
        BY <2>1
<1> DEFINE n == Cardinality(Before(V, i))
<1>4. n \in Nat
    BY <1>2
<1>5. PICK k \in Nat : k = n + 1 /\ k - 1 = n
    BY <1>4
<1>6. Nth(V, k) = i
    <2>1. \E a \in V : Cardinality(Before(V, a)) = k - 1
        BY <1>5
    <2>2. Nth(V, k) \in V /\ Cardinality(Before(V, Nth(V, k))) = k - 1
        BY <2>1 DEF Nth
    <2> QED
        BY <1>3, <1>5, <2>2
<1>7. n + 1 <= Cardinality(V)
    <2>1. Before(V, i) \cup {i} \in SUBSET V
        BY DEF Before
    <2>2. Cardinality(Before(V, i) \cup {i}) = n + 1
        BY OneMoreBefore
    <2> QED
        BY <2>1, <2>2, FS_Subset
<1>8. Nth(V, n + 1) = i
    <2> HIDE DEF n
    <2> QED
        BY <1>5, <1>6
<1> QED
    BY <1>7, <1>8

LEMMA NthExists ==
    ASSUME NEW V \in SUBSET Nat, IsFiniteSet(V), NEW k \in 1 .. Cardinality(V)
    PROVE  Nth(V, k) \in V
<1> DEFINE n == Cardinality(V)
           f == [i \in V |-> Cardinality(Before(V, i)) + 1]
<1>1. n \in Nat
    BY FS_CardinalityType
<1>2. ASSUME NEW i \in V PROVE f[i] \in 1 .. n /\ Nth(V, f[i]) = i
    <2>1. i \in Nat /\ Cardinality(Before(V, i)) \in Nat
        BY OneMoreBefore
    <2>2. Nth(V, Cardinality(Before(V, i)) + 1) = i /\ Cardinality(Before(V, i)) + 1 <= n
        BY NthIs
    <2> QED
        BY <1>1, <2>1, <2>2
<1>3. f \in [V -> 1 .. n]
    BY <1>2
<1> HIDE DEF f
<1>4. f \in Injection(V, 1 .. n)
    <2>1. \A a, b \in V : f[a] = f[b] => a = b
        BY <1>2
    <2> QED
        BY <1>3, <2>1 DEF Injection, IsInjective
<1>5. IsFiniteSet(1 .. n) /\ Cardinality(1 .. n) = n
    BY <1>1, FS_Interval
<1>6. f \in Surjection(V, 1 .. n)
    BY <1>4, <1>5, FS_Injection
<1>7. PICK i \in V : f[i] = k
    BY <1>6 DEF Surjection
<1> QED
    BY <1>2, <1>7

(* From one start to the next, no other piece begins.                         *)
LEMMA NextStart ==
    ASSUME NEW s \in Seq(Tokens), NEW i \in Starts(s)
    PROVE  LET V  == WithEq(s)
               e  == IndexFrom(s, Amp, i + 1)
               to == IF e = 0 THEN Len(s) + 1 ELSE e
           IN  /\ Before(V, to) = IF HasValue(s, i) THEN Before(V, i) \cup {i} ELSE Before(V, i)
               /\ e = 0 => Before(V, to) = V
               /\ e # 0 => e \in Starts(s)
               /\ i \in V <=> HasValue(s, i)
<1> DEFINE V  == WithEq(s)
           e  == IndexFrom(s, Amp, i + 1)
           to == IF e = 0 THEN Len(s) + 1 ELSE e
<1>1. /\ V = {j \in Starts(s) : HasValue(s, j)} /\ Starts(s) \subseteq 0 .. Len(s)
      /\ Len(s) \in Nat /\ DOMAIN s = 1 .. Len(s)
    BY ValuesAre, LenProperties
<1>2. i \in 0 .. Len(s) /\ i \in Nat
    BY <1>1
<1>3. Finds(s, Amp, i + 1, e)
    BY <1>2, IndexFinds
<1> HIDE DEF V, e
<1>4. to \in i + 1 .. Len(s) + 1
    BY <1>1, <1>2, <1>3 DEF Finds
<1>5. ASSUME NEW j \in Starts(s), i < j PROVE ~ (j < to)
    <2>1. j \in 1 .. Len(s) /\ s[j] = Amp /\ j \in i + 1 .. Len(s)
        BY <1>1, <1>2, <1>5 DEF Starts, Amps
    <2> QED
        BY <1>1, <1>2, <1>3, <2>1 DEF Finds
<1>6. e # 0 => e \in Starts(s)
    BY <1>1, <1>2, <1>3 DEF Finds, Starts, Amps
<1>7. i \in V <=> HasValue(s, i)
    BY <1>1
<1>8. ASSUME NEW j \in V PROVE j < to <=> j < i \/ j = i
    <2>1. j \in Starts(s) /\ j \in Nat
        BY <1>1
    <2>2. CASE i < j
        BY <1>2, <1>5, <2>1, <2>2
    <2>3. CASE ~ (i < j)
        BY <1>2, <1>4, <2>1, <2>3
    <2> QED
        BY <2>2, <2>3
<1>9. Before(V, to) = IF HasValue(s, i) THEN Before(V, i) \cup {i} ELSE Before(V, i)
    BY <1>7, <1>8, Zenon DEF Before
<1>10. e = 0 => Before(V, to) = V
    BY <1>1 DEF Before
<1> QED
    BY <1>6, <1>7, <1>9, <1>10 DEF V, e

-----------------------------------------------------------------------------
(* What the arguments are at each step.                                       *)

Pairs  == Seq(Tokens) \X Seq(Tokens)
Joined == Decoded(text) \o Joint \o Decoded(form)

MeantUpTo(list, s, i) ==
    /\ list \in Seq(Pairs)
    /\ Len(list) = Cardinality(Before(WithEq(s), i))
    /\ \A k \in 1 .. Len(list) : list[k] = KeyValue(PieceAfter(s, Nth(WithEq(s), k)))

ArgsFound ==
    /\ Len(args) <= room
    /\ (CutAsWritten /\ body \in {"none", "encoded"}) => args = Meant(Whole)
    /\ (CutAsWritten /\ body = "plain") => Front(args) = Meant(text)
    /\ (CutAsWritten /\ body = "multipart") =>
         \E n \in FormFields :
             /\ n <= Slots
             /\ Len(args) = Min({Slots, n + Len(Meant(text))})
             /\ IsPrefix(SubSeq(args, n + 1, Len(args)), Meant(text))

Arrived ==
    /\ text \in Queries /\ body \in {"none", "plain", "encoded", "multipart"}
    /\ IF body = "encoded" THEN form \in FormTexts ELSE form = <<>>

ArgsInv == body # "file" =>
    /\ Arrived
    /\ bpc \in {"decode", "argument", "parsed", "done", "overrun"}
    /\ bpc = "decode" => args = <<>> /\ pos = 1
    /\ bpc \in {"argument", "parsed"} =>
         data = Joined /\ room = IF data = <<>> THEN 1 ELSE 2 + Cardinality(Amps(data))
    /\ bpc = "argument" => data # <<>> /\ pos \in Nat /\ pos - 1 \in Starts(data) /\ MeantUpTo(args, data, pos - 1)
    /\ bpc = "parsed" => args \in Seq(Pairs) /\ args = IF data = <<>> THEN <<>> ELSE Meant(data)
    /\ bpc = "done" => ArgsFound

LEMMA NoEscapeConcat ==
    ASSUME NEW s \in Seq(Tokens), NEW t \in Seq(Tokens)
    PROVE  /\ s \o t \in Seq(Tokens)
           /\ NoEscape(s \o t) <=> NoEscape(s) /\ NoEscape(t)
<1>1. /\ s \o t \in Seq(Tokens) /\ Len(s \o t) = Len(s) + Len(t)
      /\ \A i \in 1 .. Len(s) + Len(t) : (s \o t)[i] = IF i <= Len(s) THEN s[i] ELSE t[i - Len(s)]
    BY ConcatProperties
<1>2. Len(s) \in Nat /\ Len(t) \in Nat
    BY LenProperties
<1> DEFINE c == s \o t
<1>3. \A i \in 1 .. Len(s) : i \in 1 .. Len(c) /\ c[i] = s[i]
    BY <1>1, <1>2
<1>4. ASSUME NEW i \in 1 .. Len(t) PROVE Len(s) + i \in 1 .. Len(c) /\ c[Len(s) + i] = t[i]
    <2>1. Len(s) + i \in 1 .. Len(s) + Len(t) /\ ~ (Len(s) + i <= Len(s)) /\ Len(s) + i - Len(s) = i
        BY <1>2
    <2> QED
        BY <1>1, <2>1
<1>5. ASSUME NEW i \in 1 .. Len(c)
      PROVE  (i \in 1 .. Len(s) /\ c[i] = s[i]) \/ (i - Len(s) \in 1 .. Len(t) /\ c[i] = t[i - Len(s)])
    BY <1>1, <1>2
<1>6. Len(c) \in Nat /\ c \in Seq(Tokens)
    BY <1>1, <1>2
<1> HIDE DEF c
<1>7. NoEscape(c) <=> NoEscape(s) /\ NoEscape(t)
    BY <1>3, <1>4, <1>5 DEF NoEscape
<1> QED
    BY <1>6, <1>7 DEF c

LEMMA NoEscapeAmp == <<Amp>> \in Seq(Tokens) /\ NoEscape(<<Amp>>) /\ <<>> \in Seq(Tokens) /\ NoEscape(<<>>)
BY SpecialTokens DEF NoEscape, Amp, EscAmp, EscEq

LEMMA SentIs ==
    ASSUME Arrived
    PROVE  /\ text \in Seq(Tokens) /\ form \in Seq(Tokens)
           /\ Joint \in {<<>>, <<Amp>>}
           /\ CutAsWritten => NoEscape(text) /\ NoEscape(form)
<1>1. text \in Seq(Tokens)
    BY AreTokens DEF Arrived
<1>2. form \in Seq(Tokens)
    <2>1. CASE body = "encoded"
        BY <2>1, AreTokens DEF Arrived
    <2>2. CASE body # "encoded"
        BY <2>2, NoEscapeAmp DEF Arrived
    <2> QED
        BY <2>1, <2>2
<1>3. CutAsWritten => NoEscape(text \o form)
    <2>1. DOMAIN (text \o form) = 1 .. Len(text \o form)
        BY <1>1, <1>2, NoEscapeConcat, LenProperties
    <2> QED
        BY <2>1 DEF CutAsWritten, NoEscape, ToSet
<1> QED
    BY <1>1, <1>2, <1>3, NoEscapeConcat DEF Joint

LEMMA JoinedIs ==
    ASSUME Arrived
    PROVE  /\ Joined \in Seq(Tokens) /\ NoEscape(Joined)
           /\ CutAsWritten => Joined = text \o Joint \o form
<1>1. /\ Decoded(text) \in Seq(Tokens) /\ NoEscape(Decoded(text))
      /\ Decoded(form) \in Seq(Tokens) /\ NoEscape(Decoded(form))
      /\ CutAsWritten => Decoded(text) = text /\ Decoded(form) = form
    BY SentIs, DecodedIs
<1>2. Joint \in Seq(Tokens) /\ NoEscape(Joint)
    BY SentIs, NoEscapeAmp
<1>3. Decoded(text) \o Joint \in Seq(Tokens) /\ NoEscape(Decoded(text) \o Joint)
    BY <1>1, <1>2, NoEscapeConcat
<1>4. Joined \in Seq(Tokens) /\ NoEscape(Joined)
    BY <1>1, <1>3, NoEscapeConcat DEF Joined
<1>5. CutAsWritten => Joined = text \o Joint \o form
    BY <1>1 DEF Joined
<1> QED
    BY <1>4, <1>5

(* All pieces behind the last start are all pieces.                           *)
LEMMA MeantAtEnd ==
    ASSUME NEW s \in Seq(Tokens), NEW list, NEW i, MeantUpTo(list, s, i), Before(WithEq(s), i) = WithEq(s)
    PROVE  list = Meant(s)
<1>1. Cardinality(WithEq(s)) \in Nat
    BY ValuesAre
<1>2. list \in [1 .. Cardinality(WithEq(s)) -> Pairs]
    <2>1. list \in Seq(Pairs) /\ Len(list) = Cardinality(WithEq(s))
        BY DEF MeantUpTo
    <2> QED
        BY <2>1, LenProperties
<1>3. \A k \in 1 .. Cardinality(WithEq(s)) : list[k] = KeyValue(PieceAfter(s, Nth(WithEq(s), k)))
    BY DEF MeantUpTo
<1> QED
    BY <1>2, <1>3 DEF Meant

LEMMA MeantAtFirst ==
    ASSUME NEW s \in Seq(Tokens)
    PROVE  MeantUpTo(<<>>, s, 0)
<1>1. WithEq(s) \subseteq Nat
    BY ValuesAre
<1>2. Before(WithEq(s), 0) = {}
    <2>1. \A j \in Nat : ~ (j < 0)
        OBVIOUS
    <2> QED
        BY <1>1, <2>1 DEF Before
<1>3. <<>> \in Seq(Pairs) /\ Len(<<>>) = 0
    OBVIOUS
<1>4. Cardinality(Before(WithEq(s), 0)) = 0
    BY <1>2, FS_EmptySet
<1>5. \A k \in 1 .. 0 : <<>>[k] = KeyValue(PieceAfter(s, Nth(WithEq(s), k)))
    OBVIOUS
<1> QED
    BY <1>3, <1>4, <1>5 DEF MeantUpTo

LEMMA SentStays ==
    ASSUME UNCHANGED <<text, form, body>>
    PROVE  /\ Arrived' = Arrived /\ Joined' = Joined /\ CutAsWritten' = CutAsWritten /\ Whole' = Whole
BY DEF Arrived, Joined, Joint, CutAsWritten, Whole

LEMMA DecodeStep ==
    ASSUME ArgsInv, body # "file", Decode
    PROVE  ArgsInv'
<1>1. Arrived /\ UNCHANGED <<text, form, body, pos, args>> /\ data' = Joined /\ args = <<>> /\ pos = 1
    BY DEF ArgsInv, Decode, Joined
<1>2. room' = IF data' = <<>> THEN 1 ELSE 2 + Cardinality(Amps(data'))
    BY DEF Decode, Amps
<1>3. MeantUpTo(<<>>, Joined, 0) /\ 0 \in Starts(data') /\ 1 - 1 = 0 /\ 1 \in Nat /\ <<>> \in Seq(Pairs)
    BY <1>1, JoinedIs, MeantAtFirst DEF Starts
<1>4. (pos - 1)' = 0
    BY <1>1
<1>5. bpc' = IF data' = <<>> THEN "parsed" ELSE "argument"
    BY DEF Decode
<1>6. MeantUpTo(args', data', 0)
    BY <1>1, <1>3
<1>7. MeantUpTo(args, data, pos - 1)'
    BY <1>4, <1>6 DEF MeantUpTo, WithEq, KeyValue, PieceAfter
<1>8. Arrived' /\ Joined' = Joined
    BY <1>1, SentStays
<1> QED
    BY <1>1, <1>2, <1>3, <1>4, <1>5, <1>7, <1>8 DEF ArgsInv, Amps, Starts

(* Where a piece is found to have a value, and where the next one begins.     *)
LEMMA SeesValue ==
    ASSUME NEW s \in Seq(Tokens), NEW i \in 0 .. Len(s)
    PROVE  LET e == IndexFrom(s, Amp, i + 1)
               q == IndexFrom(s, Eq, i + 1)
           IN  HasValue(s, i) <=> q # 0 /\ (e = 0 \/ q < e)
<1> DEFINE e == IndexFrom(s, Amp, i + 1)
           q == IndexFrom(s, Eq, i + 1)
<1>1. Len(s) \in Nat /\ i \in Nat
    BY LenProperties
<1>2. (e = 0 \/ e \in i + 1 .. Len(s)) /\ (q = 0 \/ q \in i + 1 .. Len(s))
    BY PieceEndIs
<1>3. HasValue(s, i) <=> q # 0 /\ q <= (IF e = 0 THEN Len(s) ELSE e - 1)
    BY DEF HasValue, PieceEnd
<1> HIDE DEF e, q
<1>4. HasValue(s, i) <=> q # 0 /\ (e = 0 \/ q < e)
    BY <1>1, <1>2, <1>3
<1> QED
    BY <1>4 DEF e, q

LEMMA NextPiece ==
    ASSUME ArgsInv, body # "file", bpc = "argument", GoOn, UNCHANGED <<text, form, body, data, room>>,
           LET to == IF AmpAt = 0 THEN Len(data) + 1 ELSE AmpAt IN MeantUpTo(args', data, to)
    PROVE  ArgsInv'
<1> DEFINE i  == pos - 1
           to == IF AmpAt = 0 THEN Len(data) + 1 ELSE AmpAt
<1>1. /\ Arrived /\ data # <<>> /\ pos \in Nat /\ i \in Starts(data) /\ data = Joined
      /\ data \in Seq(Tokens) /\ room = 2 + Cardinality(Amps(data)) /\ i + 1 = pos
    BY JoinedIs DEF ArgsInv
<1>2. /\ AmpAt = IndexFrom(data, Amp, i + 1)
      /\ AmpAt = 0 => Before(WithEq(data), to) = WithEq(data)
      /\ AmpAt # 0 => AmpAt \in Starts(data)
    BY <1>1, NextStart DEF AmpAt
<1>3. UNCHANGED <<Joined, Amps(data), Starts(data)>> /\ Arrived'
    BY <1>1, SentStays DEF Amps, Starts
<1>4. CASE AmpAt = 0
    <2>1. args' = Meant(data) /\ args' \in Seq(Pairs)
        BY <1>1, <1>2, <1>4, MeantAtEnd DEF MeantUpTo
    <2>2. bpc' = "parsed"
        BY <1>4 DEF GoOn
    <2> QED
        BY <1>1, <1>3, <2>1, <2>2 DEF ArgsInv
<1>5. CASE AmpAt # 0
    <2>1. AmpAt \in Nat /\ AmpAt + 1 - 1 = AmpAt
        BY <1>1, <1>2, <1>5, ValuesAre
    <2>2. bpc' = "argument" /\ pos' = AmpAt + 1
        BY <1>5 DEF GoOn
    <2>3. pos' \in Nat /\ pos' - 1 = AmpAt
        BY <2>1, <2>2
    <2>4. MeantUpTo(args', data, AmpAt)
        BY <1>5
    <2>5. (pos - 1 \in Starts(data))' /\ MeantUpTo(args, data, pos - 1)'
        <3>1. (pos - 1)' = AmpAt
            BY <2>3
        <3> QED
            BY <1>2, <1>5, <2>4, <3>1 DEF MeantUpTo, Starts, Amps
    <2> QED
        BY <1>1, <1>3, <2>2, <2>3, <2>5 DEF ArgsInv
<1> QED
    BY <1>4, <1>5

LEMMA NoValueStep ==
    ASSUME ArgsInv, body # "file", NoValue
    PROVE  ArgsInv'
<1> DEFINE i  == pos - 1
           to == IF AmpAt = 0 THEN Len(data) + 1 ELSE AmpAt
<1>1. /\ Arrived /\ pos \in Nat /\ i \in Starts(data) /\ data = Joined
      /\ data \in Seq(Tokens) /\ i + 1 = pos /\ MeantUpTo(args, data, i)
    BY JoinedIs DEF ArgsInv, NoValue
<1>2. i \in 0 .. Len(data)
    BY <1>1, ValuesAre
<1>3. AmpAt = IndexFrom(data, Amp, i + 1) /\ EqAt = IndexFrom(data, Eq, i + 1)
    BY <1>1 DEF AmpAt, EqAt
<1>4. ~ HasValue(data, i)
    <2>1. EqAt = 0 \/ (AmpAt # 0 /\ EqAt > AmpAt)
        BY DEF NoValue
    <2>2. (AmpAt = 0 \/ AmpAt \in Nat) /\ (EqAt = 0 \/ EqAt \in Nat)
        BY <1>1, <1>2, <1>3, PieceEndIs, LenProperties
    <2> QED
        BY <1>1, <1>2, <1>3, <2>1, <2>2, SeesValue
<1>5. Before(WithEq(data), to) = Before(WithEq(data), i)
    BY <1>1, <1>3, <1>4, NextStart
<1>6. MeantUpTo(args', data, to)
    BY <1>1, <1>5 DEF NoValue, MeantUpTo
<1>7. UNCHANGED <<text, form, body, data, room>> /\ GoOn /\ bpc = "argument"
    BY DEF NoValue
<1> QED
    BY <1>6, <1>7, NextPiece

LEMMA WithValueStep ==
    ASSUME ArgsInv, body # "file", WithValue
    PROVE  ArgsInv'
<1> DEFINE i  == pos - 1
           to == IF AmpAt = 0 THEN Len(data) + 1 ELSE AmpAt
           V  == WithEq(data)
           n  == Len(args)
           kv == <<SubSeq(data, pos, EqAt - 1), SubSeq(data, EqAt + 1, IF AmpAt = 0 THEN Len(data) ELSE AmpAt - 1)>>
<1>1. /\ Arrived /\ pos \in Nat /\ i \in Starts(data) /\ data = Joined
      /\ data \in Seq(Tokens) /\ i + 1 = pos /\ MeantUpTo(args, data, i) /\ NoEscape(data)
    BY JoinedIs DEF ArgsInv, WithValue
<1>2. i \in 0 .. Len(data) /\ i \in Nat /\ V \in SUBSET Nat /\ IsFiniteSet(V) /\ Len(data) \in Nat
    BY <1>1, ValuesAre
<1>3. AmpAt = IndexFrom(data, Amp, i + 1) /\ EqAt = IndexFrom(data, Eq, i + 1)
    BY <1>1 DEF AmpAt, EqAt
<1>4. HasValue(data, i)
    <2>1. EqAt # 0 /\ (AmpAt = 0 \/ EqAt < AmpAt)
        BY DEF WithValue
    <2> QED
        BY <1>1, <1>2, <1>3, <2>1, SeesValue
<1>5. Before(V, to) = Before(V, i) \cup {i} /\ i \in V
    BY <1>1, <1>3, <1>4, NextStart
<1>6. args \in Seq(Pairs) /\ n \in Nat /\ n = Cardinality(Before(V, i))
    BY <1>1, LenProperties DEF MeantUpTo
<1>7. Cardinality(Before(V, to)) = n + 1 /\ Nth(V, n + 1) = i
    BY <1>2, <1>5, <1>6, OneMoreBefore, NthIs
<1>8. kv = KeyValue(PieceAfter(data, i))
    BY <1>1, <1>2, <1>3, <1>4, KeyValueIs DEF PieceEnd
<1>9. kv \in Pairs
    <2> DEFINE h == IF AmpAt = 0 THEN Len(data) ELSE AmpAt - 1
    <2>1. h \in i .. Len(data) /\ EqAt \in i + 1 .. Len(data)
        BY <1>1, <1>2, <1>3, <1>4, PieceEndIs DEF PieceEnd, HasValue
    <2> HIDE DEF h
    <2>2. 1 <= pos /\ EqAt - 1 \in Int /\ EqAt - 1 <= Len(data) /\ pos \in Int
          /\ 1 <= EqAt + 1 /\ EqAt + 1 \in Int /\ h \in Int /\ h <= Len(data)
        BY <1>1, <1>2, <2>1
    <2>3. SubSeq(data, pos, EqAt - 1) \in Seq(Tokens)
        BY <1>1, <2>2, PartOfSeq
    <2>4. SubSeq(data, EqAt + 1, h) \in Seq(Tokens)
        BY <1>1, <2>2, PartOfSeq
    <2> QED
        BY <2>3, <2>4 DEF Pairs, h
<1> HIDE DEF kv, V, to
<1>10. args' = Append(args, kv)
    BY DEF WithValue, kv
<1>11. /\ args' \in Seq(Pairs) /\ Len(args') = n + 1
       /\ (\A k \in 1 .. n : args'[k] = args[k]) /\ args'[n + 1] = kv
    BY <1>6, <1>9, <1>10, AppendProperties
<1>12. ASSUME NEW k \in 1 .. n + 1 PROVE args'[k] = KeyValue(PieceAfter(data, Nth(V, k)))
    <2>1. CASE k \in 1 .. n
        BY <1>1, <1>11, <2>1 DEF MeantUpTo, V
    <2>2. CASE k = n + 1
        BY <1>7, <1>8, <1>11, <2>2
    <2> QED
        BY <1>6, <2>1, <2>2
<1>13. MeantUpTo(args', data, to)
    BY <1>7, <1>11, <1>12 DEF MeantUpTo, V
<1>14. UNCHANGED <<text, form, body, data, room>> /\ GoOn /\ bpc = "argument"
    BY DEF WithValue
<1> QED
    BY <1>13, <1>14, NextPiece DEF to

-----------------------------------------------------------------------------
(* The "&" that was to join a body to the query means nothing by itself.      *)

LEMMA MeantOfNothing == Meant(<<>>) = <<>>
<1>1. <<>> \in Seq(Tokens) /\ Len(<<>>) = 0
    OBVIOUS
<1>2. Starts(<<>>) \subseteq {0}
    BY DEF Starts, Amps
<1>3. ~ HasValue(<<>>, 0)
    <2> DEFINE none == <<>>
    <2>1. none \in Seq(Tokens) /\ Len(none) = 0 /\ 0 \in 0 .. 0
        BY <1>1
    <2> HIDE DEF none
    <2>2. IndexFrom(none, Eq, 0 + 1) = 0 \/ IndexFrom(none, Eq, 0 + 1) \in 0 + 1 .. Len(none)
        BY <2>1, PieceEndIs
    <2> QED
        BY <2>1, <2>2 DEF HasValue, none
<1>4. WithEq(<<>>) = {}
    BY <1>1, <1>2, <1>3, ValuesAre
<1>5. Cardinality(WithEq(<<>>)) = 0
    BY <1>4, FS_EmptySet
<1> QED
    BY <1>5 DEF Meant

LEMMA MeantOfJoined ==
    ASSUME NEW t \in Seq(Tokens)
    PROVE  Meant(t \o <<Amp>>) = Meant(t)
<1> DEFINE s == t \o <<Amp>>
           n == Len(t)
<1>1. /\ n \in Nat /\ s \in Seq(Tokens) /\ Len(s) = n + 1 /\ s[n + 1] = Amp
      /\ \A j \in 1 .. n : s[j] = t[j]
      /\ DOMAIN t = 1 .. n /\ DOMAIN s = 1 .. n + 1
    <2>1. Amp \in Tokens
        BY SpecialTokens
    <2>2. s = Append(t, Amp)
        BY <2>1, AppendIsConcat
    <2> HIDE DEF s
    <2> QED
        BY <2>1, <2>2, AppendProperties, LenProperties
<1> HIDE DEF s, n
<1>2. Starts(t) \subseteq 0 .. n /\ Starts(s) = Starts(t) \cup {n + 1}
    BY <1>1 DEF Starts, Amps
<1>3. ~ HasValue(s, n + 1)
    <2>1. n + 1 \in 0 .. Len(s)
        BY <1>1
    <2>2. IndexFrom(s, Eq, n + 1 + 1) = 0 \/ IndexFrom(s, Eq, n + 1 + 1) \in n + 1 + 1 .. Len(s)
        BY <1>1, <2>1, PieceEndIs
    <2> QED
        BY <1>1, <2>2 DEF HasValue
<1>4. ASSUME NEW i \in 0 .. n PROVE PieceAfter(s, i) = PieceAfter(t, i)
    <2> DEFINE e == IndexFrom(t, Amp, i + 1)
               h == IF e = 0 THEN n ELSE e - 1
    <2>1. i + 1 \in Nat \ {0} /\ i \in Nat
        BY <1>1
    <2>2. Finds(t, Amp, i + 1, e)
        BY <2>1, IndexFinds
    <2> HIDE DEF e
    <2>3. Finds(s, Amp, i + 1, IF e = 0 THEN n + 1 ELSE e)
        <3>1. CASE e = 0
            <4>1. \A j \in i + 1 .. n + 1 - 1 : s[j] # Amp
                BY <1>1, <2>1, <2>2, <3>1 DEF Finds, n
            <4>2. n + 1 \in i + 1 .. Len(s)
                BY <1>1, <2>1
            <4> QED
                BY <1>1, <3>1, <4>1, <4>2 DEF Finds
        <3>2. CASE e # 0
            <4>1. e \in i + 1 .. n /\ t[e] = Amp /\ \A j \in i + 1 .. e - 1 : t[j] # Amp
                BY <2>2, <3>2 DEF Finds, n
            <4>2. e \in i + 1 .. Len(s) /\ s[e] = Amp
                BY <1>1, <2>1, <4>1
            <4>3. \A j \in i + 1 .. e - 1 : s[j] # Amp
                BY <1>1, <2>1, <4>1
            <4> QED
                BY <3>2, <4>2, <4>3 DEF Finds
        <3> QED
            BY <3>1, <3>2
    <2>4. IndexFrom(s, Amp, i + 1) = IF e = 0 THEN n + 1 ELSE e
        BY <1>1, <2>1, <2>3, FindsOne
    <2>5. h \in Int /\ h <= n /\ n + 1 # 0 /\ n + 1 - 1 = n
        BY <1>1, <2>1, <2>2 DEF Finds, n
    <2>6. PieceAfter(s, i) = SubSeq(s, i + 1, h) /\ PieceAfter(t, i) = SubSeq(t, i + 1, h)
        BY <2>4, <2>5 DEF PieceAfter, e, n
    <2> HIDE DEF h
    <2>7. PICK a \in Nat : a = i + 1
        BY <2>1
    <2>8. /\ SubSeq(s, a, h) \in Seq(Tokens) /\ Len(SubSeq(s, a, h)) = IF a <= h THEN h - a + 1 ELSE 0
          /\ \A j \in 1 .. h - a + 1 : SubSeq(s, a, h)[j] = s[a + j - 1]
        <3>1. 1 <= a /\ h <= Len(s)
            BY <1>1, <2>1, <2>5, <2>7
        <3> QED
            BY <1>1, <2>5, <3>1, PartOfSeq
    <2>9. /\ SubSeq(t, a, h) \in Seq(Tokens) /\ Len(SubSeq(t, a, h)) = IF a <= h THEN h - a + 1 ELSE 0
          /\ \A j \in 1 .. h - a + 1 : SubSeq(t, a, h)[j] = t[a + j - 1]
        <3>1. 1 <= a /\ h <= Len(t)
            BY <1>1, <2>1, <2>5, <2>7 DEF n
        <3> QED
            BY <1>1, <2>5, <3>1, PartOfSeq
    <2>10. ASSUME NEW j \in 1 .. Len(SubSeq(s, a, h)) PROVE SubSeq(s, a, h)[j] = SubSeq(t, a, h)[j]
        <3>1. j \in 1 .. h - a + 1 /\ a + j - 1 \in 1 .. n
            BY <1>1, <2>1, <2>5, <2>7, <2>8
        <3> QED
            BY <1>1, <2>8, <2>9, <3>1
    <2>11. SubSeq(s, a, h) = SubSeq(t, a, h)
        BY <2>8, <2>9, <2>10, SeqEqual
    <2> QED
        BY <2>6, <2>7, <2>11
<1>5. WithEq(s) = WithEq(t)
    <2>1. WithEq(t) = {i \in Starts(t) : IndexFrom(PieceAfter(t, i), Eq, 1) # 0}
          /\ WithEq(s) = {i \in Starts(s) : IndexFrom(PieceAfter(s, i), Eq, 1) # 0}
        BY DEF WithEq, Starts, Amps
    <2>2. n + 1 \notin WithEq(s)
        BY <1>1, <1>3, ValuesAre
    <2> QED
        BY <1>2, <1>4, <2>1, <2>2
<1>6. ASSUME NEW k \in 1 .. Cardinality(WithEq(t))
      PROVE  PieceAfter(s, Nth(WithEq(s), k)) = PieceAfter(t, Nth(WithEq(t), k))
    <2>1. WithEq(t) \in SUBSET Nat /\ IsFiniteSet(WithEq(t)) /\ WithEq(t) \subseteq 0 .. n
        BY ValuesAre DEF n
    <2>2. Nth(WithEq(t), k) \in WithEq(t)
        BY <2>1, NthExists
    <2> QED
        BY <1>4, <1>5, <2>1, <2>2
<1> QED
    BY <1>5, <1>6 DEF Meant, s

-----------------------------------------------------------------------------
(* The end of the arguments.                                                  *)

LEMMA WhenParsed ==
    ASSUME ArgsInv, body # "file", bpc = "parsed"
    PROVE  /\ args \in Seq(Pairs) /\ Len(args) \in Nat /\ room \in Nat /\ Len(args) + 1 <= room
           /\ CutAsWritten => args = Meant(Whole)
<1>1. /\ Arrived /\ data = Joined /\ args \in Seq(Pairs)
      /\ room = IF data = <<>> THEN 1 ELSE 2 + Cardinality(Amps(data))
      /\ args = IF data = <<>> THEN <<>> ELSE Meant(data)
    BY DEF ArgsInv
<1>2. data \in Seq(Tokens) /\ text \in Seq(Tokens) /\ form \in Seq(Tokens)
      /\ (CutAsWritten => data = text \o Joint \o form)
    BY <1>1, JoinedIs, SentIs
<1>3. Len(args) \in Nat /\ room \in Nat /\ Len(args) + 1 <= room
    <2>1. CASE data = <<>>
        <3>1. args = <<>> /\ room = 1
            BY <1>1, <2>1
        <3>2. Len(args) = 0
            BY <3>1
        <3> QED
            BY <3>1, <3>2
    <2>2. CASE data # <<>>
        <3>1. Cardinality(WithEq(data)) \in 0 .. Cardinality(Amps(data)) + 1 /\ Cardinality(Amps(data)) \in Nat
            BY <1>2, ValuesAre
        <3>2. DOMAIN args = 1 .. Cardinality(WithEq(data))
            BY <1>1, <2>2 DEF Meant
        <3>3. DOMAIN args = 1 .. Len(args) /\ Len(args) \in Nat
            BY <1>1, LenProperties
        <3>4. Len(args) = Cardinality(WithEq(data))
            BY <3>1, <3>2, <3>3
        <3> QED
            BY <1>1, <2>2, <3>1, <3>4
    <2> QED
        BY <2>1, <2>2
<1>4. args = Meant(data)
    BY <1>1, MeantOfNothing
<1>5. ASSUME CutAsWritten PROVE Meant(data) = Meant(Whole)
    <2>1. CASE Joint = <<>>
        <3>1. data = text \o form
            BY <1>2, <1>5, <2>1, ConcatEmptySeq
        <3>2. text = <<>> \/ form = <<>>
            BY <1>1, <2>1 DEF Joint, Arrived
        <3>3. data = Whole
            BY <1>2, <3>1, <3>2, ConcatEmptySeq DEF Whole
        <3> QED
            BY <3>3
    <2>2. CASE Joint = <<Amp>> /\ form = <<>>
        <3>1. text \o <<Amp>> \in Seq(Tokens)
            BY <1>2, NoEscapeConcat, NoEscapeAmp
        <3>2. data = text \o <<Amp>>
            BY <1>2, <1>5, <2>2, <3>1, ConcatEmptySeq
        <3>3. Whole = text
            BY <2>2 DEF Whole
        <3> QED
            BY <1>2, <3>2, <3>3, MeantOfJoined
    <2>3. CASE Joint = <<Amp>> /\ form # <<>>
        <3>1. text # <<>>
            BY <2>3 DEF Joint
        <3>2. data = Whole
            BY <1>2, <1>5, <2>3, <3>1 DEF Whole
        <3> QED
            BY <3>2
    <2> QED
        BY <1>1, <2>1, <2>2, <2>3, SentIs
<1> QED
    BY <1>1, <1>3, <1>4, <1>5

LEMMA WholeIsText == Arrived /\ body # "encoded" => Whole = text
BY DEF Arrived, Whole

LEMMA NoBodyStep ==
    ASSUME ArgsInv, body # "file", NoBody
    PROVE  ArgsInv'
<1>1. /\ bpc = "parsed" /\ bpc' = "done" /\ UNCHANGED <<text, form, body, args, room>>
      /\ body \in {"none", "encoded"} /\ Arrived
    BY DEF NoBody, textVars, ArgsInv
<1>2. Len(args) \in Nat /\ room \in Nat /\ Len(args) + 1 <= room /\ (CutAsWritten => args = Meant(Whole))
    BY <1>1, WhenParsed
<1>3. Arrived' /\ CutAsWritten' = CutAsWritten /\ Whole' = Whole
    BY <1>1, SentStays
<1>4. ArgsFound'
    <2>1. Len(args') <= room' /\ (CutAsWritten' => args' = Meant(Whole)')
        BY <1>1, <1>2, <1>3 DEF Meant
    <2> QED
        BY <1>1, <2>1 DEF ArgsFound
<1> QED
    BY <1>1, <1>3, <1>4 DEF ArgsInv

LEMMA PlainBodyStep ==
    ASSUME ArgsInv, body # "file", PlainBody
    PROVE  ArgsInv'
<1> DEFINE elt == <<<<"plain">>, <<"body">>>>
           S   == Pairs \cup {elt}
<1>1. /\ bpc = "parsed" /\ bpc' = "done" /\ UNCHANGED <<text, form, body, room>>
      /\ body = "plain" /\ args' = Append(args, elt) /\ Arrived
    BY DEF PlainBody, ArgsInv
<1>2. args \in Seq(Pairs) /\ Len(args) \in Nat /\ room \in Nat /\ Len(args) + 1 <= room
      /\ (CutAsWritten => args = Meant(text))
    BY <1>1, WhenParsed, WholeIsText
<1> HIDE DEF elt
<1>3. args \in Seq(S) /\ elt \in S
    BY <1>2, SeqMonotonic
<1> HIDE DEF S
<1>4. /\ args' \in Seq(S) /\ Len(args') = Len(args) + 1
      /\ \A i \in 1 .. Len(args) : args'[i] = args[i]
    BY <1>1, <1>3, AppendProperties
<1>5. Front(args') = args
    <2>1. PICK n \in Nat : n = Len(args)
        BY <1>2
    <2>2. Front(args') = SubSeq(args', 1, n)
        <3>1. n + 1 - 1 = n
            BY <2>1
        <3> QED
            BY <1>4, <2>1, <3>1 DEF Front
    <2>3. 1 <= 1 /\ n <= Len(args') /\ n - 1 + 1 = n /\ (IF 1 <= n THEN n - 1 + 1 ELSE 0) = n /\ \A i \in 1 .. n : 1 + i - 1 = i
        BY <1>4, <2>1
    <2>4. /\ SubSeq(args', 1, n) \in Seq(S) /\ Len(SubSeq(args', 1, n)) = IF 1 <= n THEN n - 1 + 1 ELSE 0
          /\ \A i \in 1 .. n - 1 + 1 : SubSeq(args', 1, n)[i] = args'[1 + i - 1]
        BY <1>4, <2>3, PartOfSeq
    <2>5. ASSUME NEW i \in 1 .. n PROVE SubSeq(args', 1, n)[i] = args[i]
        BY <1>4, <2>1, <2>3, <2>4
    <2>6. SubSeq(args', 1, n) = args
        BY <1>3, <2>1, <2>3, <2>4, <2>5, SeqEqual
    <2> QED
        BY <2>2, <2>6
<1>6. ArgsFound'
    <2>1. (Len(args) <= room)' /\ (CutAsWritten => Front(args) = Meant(text))'
        BY <1>1, <1>2, <1>4, <1>5, SentStays
    <2> QED
        BY <1>1, <2>1 DEF ArgsFound
<1> QED
    BY <1>1, <1>6, SentStays DEF ArgsInv

LEMMA MinOfTwo ==
    ASSUME NEW a \in Int, NEW b \in Int
    PROVE  Min({a, b}) = IF a < b THEN a ELSE b
<1> DEFINE m == IF a < b THEN a ELSE b
<1>1. m \in {a, b} /\ \A y \in {a, b} : m <= y
    OBVIOUS
<1>2. Min({a, b}) \in {a, b} /\ \A y \in {a, b} : Min({a, b}) <= y
    <2> HIDE DEF m
    <2> QED
        BY <1>1, Zenon DEF Min
<1> QED
    BY <1>1, <1>2

LEMMA FormBodyStep ==
    ASSUME ArgsInv, body # "file", FormBody
    PROVE  ArgsInv'
<1>1. /\ bpc = "parsed" /\ bpc' = "done" /\ UNCHANGED <<text, form, body>> /\ body = "multipart" /\ room' = Slots
      /\ Arrived
    BY DEF FormBody, ArgsInv
<1>2. args \in Seq(Pairs) /\ Len(args) \in Nat /\ (CutAsWritten => args = Meant(text))
    BY <1>1, WhenParsed, WholeIsText
<1>3. PICK n \in FormFields :
         n <= Slots /\ args' = [i \in 1 .. n |-> <<<<"field">>, <<i>>>>]
                 \o SubSeq(args, 1, IF Slots - n < Len(args) THEN Slots - n ELSE Len(args))
    BY DEF FormBody
<1>4. n \in 0 .. Slots /\ n \in Nat /\ Slots \in Nat
    BY <1>3, BodyAssumption
<1>5. PICK more \in Nat : more = IF Slots - n < Len(args) THEN Slots - n ELSE Len(args)
    BY <1>2, <1>4
<1> DEFINE fields == [i \in 1 .. n |-> <<<<"field">>, <<i>>>>]
           F == {<<<<"field">>, <<i>>>> : i \in 1 .. n}
           S == Pairs \cup F
           cut == SubSeq(args, 1, more)
<1>6. fields \in Seq(S) /\ Len(fields) = n
    <2>1. fields \in [1 .. n -> S]
        OBVIOUS
    <2> QED
        BY <1>4, <2>1
<1>7. args \in Seq(S)
    <2> HIDE DEF F
    <2> QED
        BY <1>2, SeqMonotonic
<1> HIDE DEF fields, S
<1>8. more <= Len(args) /\ more - 1 + 1 = more /\ (IF 1 <= more THEN more - 1 + 1 ELSE 0) = more
    BY <1>2, <1>4, <1>5
<1>9. cut \in Seq(S) /\ Len(cut) = more
    <2>1. cut \in Seq(S) /\ Len(cut) = IF 1 <= more THEN more - 1 + 1 ELSE 0
        BY <1>7, <1>8, PartOfSeq
    <2> QED
        BY <1>8, <2>1
<1>10. args' = fields \o cut
    BY <1>3, <1>5 DEF fields
<1> HIDE DEF cut
<1>11. /\ args' \in Seq(S) /\ Len(args') = n + more
       /\ \A i \in 1 .. n + more : args'[i] = IF i <= n THEN fields[i] ELSE cut[i - n]
    BY <1>6, <1>9, <1>10, ConcatProperties
<1>12. Len(args') <= room'
    BY <1>1, <1>2, <1>4, <1>5, <1>11
<1>13. Len(args') = Min({Slots, n + Len(args)})
    <2>1. PICK l \in Nat : l = n + Len(args)
        BY <1>2, <1>4
    <2>2. Min({Slots, l}) = IF Slots < l THEN Slots ELSE l
        BY <1>4, MinOfTwo
    <2>3. n + more = IF Slots < l THEN Slots ELSE l
        BY <1>2, <1>4, <1>5, <2>1
    <2> QED
        BY <1>11, <2>1, <2>2, <2>3
<1>14. SubSeq(args', n + 1, Len(args')) = cut
    <2>1. PICK a \in Nat, b \in Nat : a = n + 1 /\ b = n + more
        <3>1. n + 1 \in Nat /\ n + more \in Nat
            BY <1>4
        <3> QED
            BY <3>1
    <2>2. /\ 1 <= a /\ b <= Len(args') /\ b - a + 1 = more /\ (IF a <= b THEN b - a + 1 ELSE 0) = more
        BY <1>4, <1>11, <2>1
    <2>3. /\ SubSeq(args', a, b) \in Seq(S) /\ Len(SubSeq(args', a, b)) = IF a <= b THEN b - a + 1 ELSE 0
          /\ \A i \in 1 .. b - a + 1 : SubSeq(args', a, b)[i] = args'[a + i - 1]
        BY <1>11, <2>2, PartOfSeq
    <2>4. ASSUME NEW i \in 1 .. more PROVE SubSeq(args', a, b)[i] = cut[i]
        <3>1. SubSeq(args', a, b)[i] = args'[a + i - 1]
            BY <2>2, <2>3
        <3>2. PICK j \in Int : j = a + i - 1
            BY <2>1
        <3>3. j \in 1 .. n + more /\ ~ (j <= n) /\ j - n = i
            BY <1>4, <2>1, <3>2
        <3>4. args'[j] = cut[j - n]
            BY <1>11, <3>3
        <3> QED
            BY <3>1, <3>2, <3>3, <3>4
    <2>5. SubSeq(args', a, b) = cut
        BY <1>9, <2>2, <2>3, <2>4, SeqEqual
    <2> QED
        BY <1>11, <2>1, <2>5
<1>15. IsPrefix(cut, args)
    <2>1. SubSeq(cut, 1, Len(cut)) = cut
        BY <1>9, SubSeqFull
    <2> QED
        BY <1>8, <1>9, <2>1 DEF IsPrefix, cut
<1>16. ArgsFound'
    <2>1. (CutAsWritten => \E m \in FormFields :
             /\ m <= Slots
             /\ Len(args) = Min({Slots, m + Len(Meant(text))})
             /\ IsPrefix(SubSeq(args, m + 1, Len(args)), Meant(text)))'
        BY <1>1, <1>2, <1>3, <1>13, <1>14, <1>15, SentStays
    <2> QED
        BY <1>1, <1>12, <2>1 DEF ArgsFound
<1> QED
    BY <1>1, <1>16, SentStays DEF ArgsInv

LEMMA FormOverrunsStep == ASSUME ArgsInv, body # "file", FormOverruns PROVE ArgsInv'
<1>1. Arrived /\ bpc' = "overrun" /\ UNCHANGED <<text, form, body>>
    BY DEF FormOverruns, ArgsInv, textVars
<1> QED
    BY <1>1, SentStays DEF ArgsInv

LEMMA ArgsStart == BodyInit => ArgsInv
BY DEF BodyInit, ArgsInit, FileInit, ArgsInv, Arrived

LEMMA ArgsStep == ArgsInv /\ [BodyNext]_bodyVars => ArgsInv'
<1> SUFFICES ASSUME ArgsInv, BodyNext \/ UNCHANGED bodyVars PROVE ArgsInv'
    OBVIOUS
<1>1. CASE UNCHANGED bodyVars
    BY <1>1, SentStays DEF bodyVars, textVars, fileVars, ArgsInv, ArgsFound, MeantUpTo, Starts, Amps
<1> SUFFICES ASSUME BodyNext PROVE ArgsInv'
    BY <1>1
<1>2. CASE /\ UNCHANGED textVars
           /\ bpc \notin {"decode", "argument", "parsed", "done", "overrun"}
    BY <1>2 DEF ArgsInv, textVars
<1>3. CASE body = "file"
    <2>1. UNCHANGED body
        BY DEF BodyNext, Decode, NoValue, WithValue, PlainBody, FormBody, FormOverruns, NoBody, textVars,
           FirstByte, ReadsNothing, ReadFile, ReadCr, NotLf, ReadLf, NotDash, ReadDash, NotTwoDashes, FileEnds,
           FileGoesOn, GoesOnAfter, KeepsText
    <2> QED
        BY <1>3, <2>1 DEF ArgsInv
<1>4. CASE body # "file" /\ (Decode \/ NoValue \/ WithValue \/ PlainBody \/ FormBody \/ FormOverruns \/ NoBody)
    BY <1>4, DecodeStep, NoValueStep, WithValueStep, PlainBodyStep, FormBodyStep, FormOverrunsStep, NoBodyStep
<1>5. CASE FirstByte \/ ReadsNothing \/ ReadFile \/ ReadCr \/ NotLf \/ ReadLf \/ NotDash \/ ReadDash
           \/ NotTwoDashes \/ FileEnds \/ FileGoesOn
    BY <1>2, <1>5 DEF FirstByte, ReadsNothing, ReadFile, ReadCr, NotLf, ReadLf, NotDash, ReadDash, NotTwoDashes,
       FileEnds, FileGoesOn, GoesOnAfter, KeepsText
<1> QED
    BY <1>3, <1>4, <1>5 DEF BodyNext

-----------------------------------------------------------------------------

(* Whatever the queries, forms and files, however many arguments there is     *)
(* room for and however long the buffer and the delimiter are: a handler      *)
(* finds the arguments that were meant, in their order, unless a form         *)
(* overran its array, and is given exactly the file that was sent.            *)
THEOREM ReadsBodyAsSent == BodySpec => []BodyAsSent
<1>1. BodyInit => FileInv /\ ArgsInv
    BY FileStarts, ArgsStart
<1>2. FileInv /\ ArgsInv /\ [BodyNext]_bodyVars => (FileInv /\ ArgsInv)'
    BY FileStep, ArgsStep
<1>3. FileInv /\ ArgsInv => BodyAsSent
    BY DEF FileInv, ArgsInv, ArgsFound, BodyAsSent
<1> QED
    BY <1>1, <1>2, <1>3, PTL DEF BodySpec

-----------------------------------------------------------------------------
(* Sums.                                                                      *)

AddsUp(f, v, n) ==
    /\ f \in [0 .. n -> Int]
    /\ f[0] = 0
    /\ \A i \in 1 .. n : f[i] = f[i - 1] + v[i]

LEMMA SumsExist ==
    ASSUME NEW v \in Seq(Int)
    PROVE  \A n \in 0 .. Len(v) : \E f : AddsUp(f, v, n)
<1> DEFINE Bad == {n \in 0 .. Len(v) : ~ \E f : AddsUp(f, v, n)}
<1>1. Len(v) \in Nat /\ \A i \in 1 .. Len(v) : v[i] \in Int
    BY LenProperties, ElementOfSeq
<1>2. SUFFICES ASSUME Bad # {} PROVE FALSE
    OBVIOUS
<1>3. Bad \in SUBSET Nat
    BY <1>1
<1>4. PICK n \in Bad : \A m \in Bad : n <= m
    <2> HIDE DEF Bad
    <2> QED
        BY <1>2, <1>3, LeastOne
<1>5. n # 0
    <2>1. AddsUp([i \in 0 .. 0 |-> 0], v, 0)
        BY DEF AddsUp
    <2> QED
        BY <2>1
<1>6. PICK m \in 0 .. Len(v) : n = m + 1 /\ m = n - 1
    BY <1>1, <1>5
<1>7. PICK f : AddsUp(f, v, m)
    BY <1>4, <1>6
<1> DEFINE g == [i \in 0 .. n |-> IF i = n THEN f[m] + v[n] ELSE f[i]]
<1>8. f[m] \in Int /\ v[n] \in Int
    BY <1>1, <1>4, <1>5, <1>7 DEF AddsUp
<1>9. AddsUp(g, v, n)
    <2>1. g \in [0 .. n -> Int]
        BY <1>6, <1>7, <1>8 DEF AddsUp
    <2>2. g[0] = 0
        BY <1>6, <1>7 DEF AddsUp
    <2>3. ASSUME NEW i \in 1 .. n PROVE g[i] = g[i - 1] + v[i]
        <3>1. CASE i = n
            BY <3>1, <1>6
        <3>2. CASE i # n
            BY <3>2, <1>6, <1>7 DEF AddsUp
        <3> QED
            BY <3>1, <3>2
    <2> QED
        BY <2>1, <2>2, <2>3 DEF AddsUp
<1> QED
    BY <1>9

LEMMA SumsAddUp ==
    ASSUME NEW v \in Seq(Int)
    PROVE  AddsUp(Sums(v), v, Len(v))
<1>1. Len(v) \in Nat
    BY LenProperties
<1>2. PICK f : AddsUp(f, v, Len(v))
    BY <1>1, SumsExist
<1>3. f = [i \in 0 .. Len(v) |-> IF i = 0 THEN 0 ELSE f[i - 1] + v[i]]
    BY <1>1, <1>2 DEF AddsUp
<1> DEFINE Is(g) == g = [i \in 0 .. Len(v) |-> IF i = 0 THEN 0 ELSE g[i - 1] + v[i]]
<1>4. Sums(v) = CHOOSE g : Is(g)
    BY DEF Sums
<1>5. Is(Sums(v))
    <2>1. \E g : Is(g)
        BY <1>3
    <2> HIDE DEF Is
    <2> QED
        BY <1>4, <2>1
<1>6. Is(Sums(v)) => AddsUp(Sums(v), v, Len(v))
    <2> DEFINE g == Sums(v)
    <2>1. SUFFICES ASSUME NEW h, Is(h) PROVE AddsUp(h, v, Len(v))
        OBVIOUS
    <2>2. h[0] = 0 /\ \A i \in 1 .. Len(v) : h[i] = h[i - 1] + v[i]
        BY <1>1, <2>1
    <2> DEFINE Bad == {i \in 0 .. Len(v) : h[i] \notin Int}
    <2>3. Bad = {}
        <3>1. SUFFICES ASSUME Bad # {} PROVE FALSE
            OBVIOUS
        <3>2. Bad \in SUBSET Nat
            BY <1>1
        <3>3. PICK n \in Bad : \A m \in Bad : n <= m
            <4> HIDE DEF Bad
            <4> QED
                BY <3>1, <3>2, LeastOne
        <3>4. n # 0 /\ n \in 1 .. Len(v)
            BY <2>2, <1>1
        <3>5. n - 1 \notin Bad /\ n - 1 \in 0 .. Len(v)
            BY <3>3, <3>4, <1>1
        <3>6. h[n - 1] \in Int /\ v[n] \in Int
            BY <3>4, <3>5, ElementOfSeq
        <3> QED
            BY <3>4, <3>6, <2>2
    <2>4. h = [i \in 0 .. Len(v) |-> h[i]]
        BY <2>1
    <2> QED
        BY <2>2, <2>3, <2>4 DEF AddsUp
<1> QED
    BY <1>5, <1>6

(* Numbers that begin alike add up alike so far.                              *)
LEMMA SumsAgree ==
    ASSUME NEW v \in Seq(Int), NEW w \in Seq(Int), NEW n \in Nat,
           n <= Len(v), n <= Len(w), \A i \in 1 .. n : v[i] = w[i]
    PROVE  Sums(v)[n] = Sums(w)[n]
<1> DEFINE Bad == {i \in 0 .. n : Sums(v)[i] # Sums(w)[i]}
<1>1. SUFFICES ASSUME Bad # {} PROVE FALSE
    OBVIOUS
<1>2. PICK m \in Bad : \A i \in Bad : m <= i
    <2>1. Bad \in SUBSET Nat
        OBVIOUS
    <2> HIDE DEF Bad
    <2> QED
        BY <1>1, <2>1, LeastOne
<1>3. AddsUp(Sums(v), v, Len(v)) /\ AddsUp(Sums(w), w, Len(w)) /\ Len(v) \in Nat /\ Len(w) \in Nat
    BY SumsAddUp, LenProperties
<1>4. m # 0
    BY <1>3 DEF AddsUp
<1>5. m \in 1 .. n /\ m - 1 \in 0 .. n
    BY <1>4
<1>6. m - 1 \notin Bad
    BY <1>2
<1>7. Sums(v)[m] = Sums(v)[m - 1] + v[m] /\ Sums(w)[m] = Sums(w)[m - 1] + w[m]
    BY <1>3, <1>5 DEF AddsUp
<1> QED
    BY <1>5, <1>6, <1>7

(* Zeros add nothing.                                                         *)
LEMMA SumsRest ==
    ASSUME NEW v \in Seq(Int), NEW m \in Nat, NEW n \in m .. Len(v), \A i \in m + 1 .. n : v[i] = 0
    PROVE  Sums(v)[n] = Sums(v)[m]
<1> DEFINE Bad == {i \in m .. n : Sums(v)[i] # Sums(v)[m]}
<1>1. SUFFICES ASSUME Bad # {} PROVE FALSE
    OBVIOUS
<1>2. Len(v) \in Nat
    BY LenProperties
<1>3. PICK k \in Bad : \A i \in Bad : k <= i
    <2>1. Bad \in SUBSET Nat
        BY <1>2
    <2> HIDE DEF Bad
    <2> QED
        BY <1>1, <2>1, LeastOne
<1>4. k \in m + 1 .. n /\ k - 1 \in m .. n /\ k - 1 \notin Bad /\ k \in 1 .. Len(v) /\ k - 1 \in 0 .. Len(v)
    BY <1>2, <1>3
<1>5. Sums(v)[k] = Sums(v)[k - 1] + v[k] /\ Sums(v)[k - 1] \in Int
    BY <1>2, <1>4, SumsAddUp DEF AddsUp
<1> QED
    BY <1>4, <1>5

LEMMA SumOfAppend ==
    ASSUME NEW v \in Seq(Int), NEW w \in Seq(Int), NEW x \in Int,
           Len(w) = Len(v) + 1, \A i \in 1 .. Len(v) : w[i] = v[i], w[Len(v) + 1] = x
    PROVE  SumOf(v) \in Int /\ SumOf(w) = SumOf(v) + x
<1> DEFINE k == Len(v)
           n == Len(w)
<1>1. /\ k \in Nat /\ n \in Nat /\ n = k + 1 /\ n - 1 = k /\ w[n] = x
      /\ \A i \in 1 .. k : v[i] = w[i]
    BY LenProperties
<1>2. k <= Len(v) /\ k <= Len(w)
    BY <1>1
<1>3. AddsUp(Sums(v), v, k) /\ AddsUp(Sums(w), w, n)
    BY SumsAddUp
<1>4. SumOf(v) = Sums(v)[k] /\ SumOf(w) = Sums(w)[n]
    BY DEF SumOf
<1> HIDE DEF k, n
<1>5. Sums(v)[k] = Sums(w)[k]
    BY <1>1, <1>2, SumsAgree
<1>6. Sums(w)[n] = Sums(w)[n - 1] + w[n] /\ Sums(v)[k] \in Int
    BY <1>1, <1>3 DEF AddsUp
<1> QED
    BY <1>1, <1>4, <1>5, <1>6

LEMMA SumOfNothing ==
    ASSUME NEW v \in Seq(Int), \A i \in 1 .. Len(v) : v[i] = 0
    PROVE  SumOf(v) = 0
<1>1. Len(v) \in Nat
    BY LenProperties
<1>2. Sums(v)[Len(v)] = Sums(v)[0]
    BY <1>1, SumsRest
<1> QED
    BY <1>1, <1>2, SumsAddUp DEF SumOf, AddsUp

-----------------------------------------------------------------------------
(* Replies.                                                                   *)

Names   == HeaderNames \cup {Unnamed, "Content-Length", "Transfer-Encoding"}
Headers == [is : {"header"}, name : Names, n : Int, by : Int]
Pieces  == [is : {"blank", "chunk", "bytes"}, n : Int]
Items   == Headers \cup Pieces

ValuesIn(w, name) == {w[i].n : i \in {j \in DOMAIN w : w[j].is = "header" /\ w[j].name = name}}
SizeOf(w)         == SumOf(Bodies(w))
PieceOf(asChunk)  == IF asChunk THEN "chunk" ELSE "bytes"

Framed(w, by, asChunk) ==
    \E b \in DOMAIN w :
        /\ w[b].is = "blank"
        /\ \A i \in 1 .. b - 1 : w[i].is = "header" /\ w[i].by = by
        /\ \A i \in b + 1 .. Len(w) : w[i].is = PieceOf(asChunk)

Sets(c, name, k) == \E i \in 1 .. k : c[i].do = "sendHeader" /\ c[i].name = name

(* Nothing went out: the headers that were set wait.                          *)
NotSent(c, j) ==
    /\ wire = <<>> /\ chunked = FALSE /\ meant.n = 0 /\ broken = FALSE
    /\ contentLength = NotSet \/ contentLength \in Says(c)
    /\ (\E i \in 1 .. j - 1 : c[i].do = "setContentLength") => contentLength \in Says(c)
    /\ \A i \in DOMAIN responseHeaders :
          /\ responseHeaders[i].by = served
          /\ \E k \in 1 .. j - 1 : /\ c[k].do = "sendHeader"
                                   /\ responseHeaders[i].name = c[k].name /\ responseHeaders[i].n = c[k].n
    /\ \A k \in 1 .. j - 1 : c[k].do = "sendHeader" =>
          \E i \in DOMAIN responseHeaders : responseHeaders[i].name = c[k].name

(* The headers went out and some of the content: w, for the m bytes given.    *)
Sent(w, by, asChunk, m, c, j) ==
    /\ Framed(w, by, asChunk)
    /\ asChunk <=> ValuesIn(w, "Transfer-Encoding") # {}
    /\ m = Sums(Gives(c))[j - 1]
    /\ asChunk =>
          /\ Unknown \in Says(c) /\ ValuesIn(w, "Content-Length") = {}
          /\ \A i \in DOMAIN w : w[i].is = "chunk" => (w[i].n = 0 <=> i = Len(w) /\ j = Len(c) + 1)
          /\ j = Len(c) + 1 => w[Len(w)].is = "chunk"
    /\ ~asChunk => ValuesIn(w, "Content-Length") \subseteq {Amount(c)}
    /\ Sets(c, "Content-Encoding", Len(c)) => ValuesIn(w, "Content-Encoding") # {}

SentUpTo(c, j) ==
    /\ responseHeaders = <<>> /\ Sent(wire, served, chunked, meant.n, c, j)
    /\ broken \/ SizeOf(wire) = meant.n

(* The handler's calls are c, of which those before j are made.               *)
Calling(c, j, p) ==
    /\ FitsReply(c) /\ SendsAt(c, p)
    /\ calls = SubSeq(c, j, Len(c))
    /\ (meant.packed /\ FileType[Path] = "known") => Sets(c, "Content-Encoding", Len(c))
    /\ IF j <= p THEN NotSent(c, j) ELSE SentUpTo(c, j)

ReplyTypes ==
    /\ served \in Nat
    /\ responseHeaders \in Seq(Headers) /\ wire \in Seq(Items)
    /\ contentLength \in Int /\ chunked \in BOOLEAN /\ broken \in BOOLEAN
    /\ meant \in [n : Int, packed : BOOLEAN]

ReplyInv ==
    /\ ReplyTypes
    /\ rpc \in {"idle", "choose", "calls", "done"}
    /\ rpc # "calls" => responseHeaders = <<>>
    /\ rpc = "choose" => /\ wire = <<>> /\ chunked = FALSE /\ contentLength = NotSet /\ broken = FALSE
                         /\ meant = [n |-> 0, packed |-> FALSE]
    /\ rpc = "calls" => \E c : \E p \in DOMAIN c : \E j \in 1 .. Len(c) + 1 : Calling(c, j, p)
    /\ ReplyReadsBack

LEMMA ItemsAre ==
    ASSUME NEW w \in Seq(Items)
    PROVE  /\ Len(w) \in Nat /\ DOMAIN w = 1 .. Len(w)
           /\ \A i \in 1 .. Len(w) : w[i] \in Items
           /\ Bodies(w) \in Seq(Int) /\ Len(Bodies(w)) = Len(w)
           /\ \A i \in 1 .. Len(w) : Bodies(w)[i] = IF w[i].is \in {"chunk", "bytes"} THEN w[i].n ELSE 0
<1>1. Len(w) \in Nat /\ DOMAIN w = 1 .. Len(w)
    BY LenProperties
<1>2. \A i \in 1 .. Len(w) : w[i] \in Items
    BY ElementOfSeq
<1>3. ASSUME NEW x \in Items PROVE x.n \in Int
    BY DEF Items, Headers, Pieces
<1>4. Bodies(w) \in [1 .. Len(w) -> Int]
    BY <1>1, <1>2, <1>3 DEF Bodies
<1>5. Bodies(w) \in Seq(Int)
    BY <1>1, <1>4, SeqDef
<1>6. Len(Bodies(w)) = Len(w)
    BY <1>1, <1>4, <1>5, LenProperties
<1> QED
    BY <1>1, <1>2, <1>5, <1>6 DEF Bodies

(* One more item at the end.                                                  *)
OneMore(v, w, x) ==
    /\ v \in Seq(Items) /\ Len(v) = Len(w) + 1
    /\ \A i \in 1 .. Len(w) : v[i] = w[i]
    /\ v[Len(w) + 1] = x
    /\ SizeOf(v) = SizeOf(w) + (IF x.is \in {"chunk", "bytes"} THEN x.n ELSE 0)
    /\ \A name : ValuesIn(v, name) = ValuesIn(w, name) \cup (IF x.is = "header" /\ x.name = name THEN {x.n} ELSE {})

LEMMA OneMoreItem ==
    ASSUME NEW w \in Seq(Items), NEW x \in Items, NEW v, v = w \o <<x>>
    PROVE  OneMore(v, w, x)
<1>1. /\ v \in Seq(Items) /\ Len(v) = Len(w) + 1
      /\ \A i \in 1 .. Len(w) : v[i] = w[i]
      /\ v[Len(w) + 1] = x
    <2>1. v = Append(w, x)
        BY AppendIsConcat
    <2> QED
        BY <2>1, AppendProperties
<1>2. PICK y \in Int : y = IF x.is \in {"chunk", "bytes"} THEN x.n ELSE 0
    <2>1. (IF x.is \in {"chunk", "bytes"} THEN x.n ELSE 0) \in Int
        BY DEF Items, Headers, Pieces
    <2> QED
        BY <2>1
<1>3. SizeOf(v) = SizeOf(w) + y
    <2>1. /\ Bodies(w) \in Seq(Int) /\ Len(Bodies(w)) = Len(w) /\ Len(w) \in Nat
          /\ Bodies(v) \in Seq(Int) /\ Len(Bodies(v)) = Len(v)
        BY <1>1, ItemsAre
    <2>2. ASSUME NEW i \in 1 .. Len(w) PROVE Bodies(v)[i] = Bodies(w)[i]
        <3>1. i \in 1 .. Len(v)
            BY <1>1, <2>1
        <3> QED
            BY <1>1, <3>1, ItemsAre
    <2>3. Bodies(v)[Len(w) + 1] = y
        <3>1. PICK k : k = Len(w) + 1 /\ k \in 1 .. Len(v)
            BY <1>1, <2>1
        <3>2. Bodies(v)[k] = IF v[k].is \in {"chunk", "bytes"} THEN v[k].n ELSE 0
            BY <1>1, <3>1, ItemsAre
        <3>3. v[k] = x
            BY <1>1, <3>1
        <3>4. Bodies(v)[k] = y
            BY <1>2, <3>2, <3>3, Zenon
        <3> QED
            BY <3>1, <3>4, Zenon
    <2>4. SumOf(Bodies(v)) = SumOf(Bodies(w)) + y
        <3> DEFINE a == Bodies(w)
                   b == Bodies(v)
        <3>1. /\ a \in Seq(Int) /\ b \in Seq(Int) /\ Len(b) = Len(a) + 1
              /\ \A i \in 1 .. Len(a) : b[i] = a[i]
            BY <1>1, <2>1, <2>2
        <3>2. b[Len(a) + 1] = y
            BY <2>1, <2>3, Zenon
        <3> HIDE DEF a, b
        <3>3. SumOf(b) = SumOf(a) + y
            BY <1>2, <3>1, <3>2, SumOfAppend
        <3> QED
            BY <3>3 DEF a, b
    <2> QED
        BY <2>4 DEF SizeOf
<1>4. ASSUME NEW name
      PROVE  ValuesIn(v, name) = ValuesIn(w, name) \cup (IF x.is = "header" /\ x.name = name THEN {x.n} ELSE {})
    <2>1. DOMAIN w = 1 .. Len(w) /\ DOMAIN v = 1 .. Len(v) /\ Len(w) \in Nat
        BY LenProperties
    <2>2. DOMAIN v = (DOMAIN w) \cup {Len(w) + 1} /\ Len(w) + 1 \notin DOMAIN w
        BY <1>1, <2>1
    <2>3. \A i \in DOMAIN w : v[i] = w[i]
        BY <1>1, <2>1
    <2>4. ASSUME NEW m
          PROVE  m \in ValuesIn(v, name) <=> m \in ValuesIn(w, name) \/ (x.is = "header" /\ x.name = name /\ m = x.n)
        <3>1. m \in ValuesIn(v, name) <=> \E i \in DOMAIN v : v[i].is = "header" /\ v[i].name = name /\ m = v[i].n
            BY Zenon DEF ValuesIn
        <3>2. m \in ValuesIn(w, name) <=> \E i \in DOMAIN w : w[i].is = "header" /\ w[i].name = name /\ m = w[i].n
            BY Zenon DEF ValuesIn
        <3>3. v[Len(w) + 1] = x
            BY <1>1
        <3> QED
            BY <2>2, <2>3, <3>1, <3>2, <3>3, Zenon
    <2>5. ASSUME NEW m
          PROVE  m \in (IF x.is = "header" /\ x.name = name THEN {x.n} ELSE {})
                 <=> x.is = "header" /\ x.name = name /\ m = x.n
        OBVIOUS
    <2> QED
        BY <2>4, <2>5, Zenon
<1> QED
    BY <1>1, <1>2, <1>3, <1>4, Zenon DEF OneMore

(* A handler's calls, and what they give up to each.                          *)
LEMMA GivesAre ==
    ASSUME NEW c \in Seq(CallRecord)
    PROVE  /\ Len(c) \in Nat /\ DOMAIN c = 1 .. Len(c)
           /\ \A i \in 1 .. Len(c) : c[i] \in CallRecord
           /\ Gives(c) \in Seq(Int) /\ Len(Gives(c)) = Len(c)
           /\ \A i \in 1 .. Len(c) : Gives(c)[i] = IF c[i].do \in {"send", "sendContent", "write"} THEN c[i].n ELSE 0
           /\ \A i \in 0 .. Len(c) : Sums(Gives(c))[i] \in Int
           /\ Sums(Gives(c))[0] = 0
           /\ \A i \in 1 .. Len(c) : Sums(Gives(c))[i] = Sums(Gives(c))[i - 1] + Gives(c)[i]
           /\ Amount(c) = Sums(Gives(c))[Len(c)]
<1>1. Len(c) \in Nat /\ DOMAIN c = 1 .. Len(c)
    BY LenProperties
<1>2. \A i \in 1 .. Len(c) : c[i] \in CallRecord
    BY ElementOfSeq
<1>3. Gives(c) \in [1 .. Len(c) -> Int]
    BY <1>1, <1>2 DEF Gives, CallRecord
<1>4. Gives(c) \in Seq(Int)
    BY <1>1, <1>3, SeqDef
<1>5. Len(Gives(c)) = Len(c)
    BY <1>1, <1>3, <1>4, LenProperties
<1>6. \A i \in 1 .. Len(c) : Gives(c)[i] = IF c[i].do \in {"send", "sendContent", "write"} THEN c[i].n ELSE 0
    BY <1>1 DEF Gives
<1>7. AddsUp(Sums(Gives(c)), Gives(c), Len(c))
    <2>1. AddsUp(Sums(Gives(c)), Gives(c), Len(Gives(c)))
        BY <1>4, SumsAddUp
    <2> QED
        BY <1>5, <2>1, Zenon
<1>8. /\ \A i \in 0 .. Len(c) : Sums(Gives(c))[i] \in Int
      /\ Sums(Gives(c))[0] = 0
      /\ \A i \in 1 .. Len(c) : Sums(Gives(c))[i] = Sums(Gives(c))[i - 1] + Gives(c)[i]
    <2> DEFINE f == Sums(Gives(c))
    <2>1. AddsUp(f, Gives(c), Len(c))
        BY <1>7
    <2> HIDE DEF f
    <2>2. /\ \A i \in 0 .. Len(c) : f[i] \in Int
          /\ f[0] = 0
          /\ \A i \in 1 .. Len(c) : f[i] = f[i - 1] + Gives(c)[i]
        BY <2>1 DEF AddsUp
    <2> QED
        BY <2>2, Zenon DEF f
<1>9. Amount(c) = Sums(Gives(c))[Len(c)]
    BY <1>5, Zenon DEF Amount, SumOf
<1> QED
    BY <1>1, <1>2, <1>4, <1>5, <1>6, <1>8, <1>9

LEMMA CallsAre ==
    ASSUME NEW c, FitsReply(c)
    PROVE  /\ c \in Seq(CallRecord) /\ Len(c) \in Nat /\ DOMAIN c = 1 .. Len(c)
           /\ \A i \in 1 .. Len(c) : c[i] \in CallRecord
           /\ Gives(c) \in Seq(Int) /\ Len(Gives(c)) = Len(c)
           /\ \A i \in 1 .. Len(c) : Gives(c)[i] = IF c[i].do \in {"send", "sendContent", "write"} THEN c[i].n ELSE 0
           /\ \A i \in 0 .. Len(c) : Sums(Gives(c))[i] \in Int
           /\ Sums(Gives(c))[0] = 0
           /\ \A i \in 1 .. Len(c) : Sums(Gives(c))[i] = Sums(Gives(c))[i - 1] + Gives(c)[i]
           /\ Amount(c) = Sums(Gives(c))[Len(c)]
BY GivesAre DEF FitsReply

LEMMA NothingBeforeSend ==
    ASSUME NEW c, FitsReply(c), NEW p \in DOMAIN c, SendsAt(c, p)
    PROVE  Sums(Gives(c))[p - 1] = 0 /\ Sums(Gives(c))[p] = c[p].n
<1>1. PICK q : q = p - 1 /\ q \in Nat /\ q \in 0 .. Len(c) /\ q < p /\ p \in 1 .. Len(c)
    BY CallsAre
<1>2. \A i \in 1 .. q : Gives(c)[i] = 0
    <2>1. SUFFICES ASSUME NEW i \in 1 .. q PROVE Gives(c)[i] = 0
        OBVIOUS
    <2>2. i \in 1 .. Len(c) /\ c[i].do \in {"sendHeader", "setContentLength"}
        BY <1>1, CallsAre DEF SendsAt
    <2>3. Gives(c)[i] = IF c[i].do \in {"send", "sendContent", "write"} THEN c[i].n ELSE 0
        BY <2>2, CallsAre
    <2> QED
        BY <2>2, <2>3
<1>3. Sums(Gives(c))[q] = Sums(Gives(c))[0]
    <2> DEFINE v == Gives(c)
    <2>1. v \in Seq(Int) /\ q \in 0 .. Len(v) /\ \A i \in 0 + 1 .. q : v[i] = 0
        BY <1>1, <1>2, CallsAre
    <2> HIDE DEF v
    <2>2. Sums(v)[q] = Sums(v)[0]
        BY <2>1, SumsRest
    <2> QED
        BY <2>2 DEF v
<1>4. Sums(Gives(c))[q] = 0
    BY <1>3, CallsAre
<1>5. Sums(Gives(c))[p] = Sums(Gives(c))[p - 1] + Gives(c)[p] /\ Gives(c)[p] = c[p].n /\ c[p].n \in Int
    <2>1. c[p].do = "send" /\ c[p] \in CallRecord
        BY <1>1, CallsAre DEF SendsAt
    <2>2. Sums(Gives(c))[p] = Sums(Gives(c))[p - 1] + Gives(c)[p]
        BY <1>1, CallsAre
    <2>3. Gives(c)[p] = IF c[p].do \in {"send", "sendContent", "write"} THEN c[p].n ELSE 0
        BY <1>1, CallsAre
    <2> QED
        BY <2>1, <2>2, <2>3 DEF CallRecord
<1>6. Sums(Gives(c))[p - 1] = 0
    BY <1>1, <1>4, Zenon
<1> QED
    BY <1>5, <1>6

LEMMA CallsFrom ==
    ASSUME NEW c, FitsReply(c), NEW j \in 1 .. Len(c) + 1, calls = SubSeq(c, j, Len(c))
    PROVE  /\ calls = <<>> <=> j = Len(c) + 1
           /\ calls # <<>> => /\ j \in 1 .. Len(c) /\ j + 1 \in 1 .. Len(c) + 1
                              /\ Head(calls) = c[j] /\ Tail(calls) = SubSeq(c, j + 1, Len(c))
<1>1. c \in Seq(CallRecord) /\ Len(c) \in Nat
    BY CallsAre
<1>2. CASE j = Len(c) + 1
    <2>1. Len(c) < j /\ j \in Int /\ Len(c) \in Int
        BY <1>1, <1>2
    <2>2. SubSeq(c, j, Len(c)) = <<>>
        BY <2>1, SubSeqEmpty
    <2> QED
        BY <1>2, <2>2
<1>3. CASE j # Len(c) + 1
    <2>1. j \in 1 .. Len(c) /\ Len(c) \in j .. Len(c) /\ j + 1 \in 1 .. Len(c) + 1
        BY <1>1, <1>3
    <2>2. Head(SubSeq(c, j, Len(c))) = c[j] /\ Tail(SubSeq(c, j, Len(c))) = SubSeq(c, j + 1, Len(c))
        BY <1>1, <2>1, HeadTailOfSubSeq
    <2>3. calls # <<>>
        <3>1. Len(SubSeq(c, j, Len(c))) = Len(c) - j + 1
            <4> DEFINE n == Len(c)
            <4>1. n \in Int /\ j \in Int /\ 1 <= j /\ j <= n /\ n <= Len(c)
                BY <1>1, <2>1
            <4> HIDE DEF n
            <4>2. Len(SubSeq(c, j, n)) = IF j <= n THEN n - j + 1 ELSE 0
                BY <1>1, <4>1, PartOfSeq
            <4> QED
                BY <4>1, <4>2 DEF n
        <3>2. Len(<<>>) = 0
            BY EmptySeq
        <3>3. Len(SubSeq(c, j, Len(c))) # 0
            <4> DEFINE m == Len(SubSeq(c, j, Len(c)))
            <4>1. m = Len(c) - j + 1
                BY <3>1
            <4> HIDE DEF m
            <4>2. m # 0
                BY <1>1, <2>1, <4>1
            <4> QED
                BY <4>2 DEF m
        <3> QED
            BY <3>2, <3>3, Zenon
    <2> QED
        BY <1>3, <2>1, <2>2, <2>3
<1> QED
    BY <1>2, <1>3

-----------------------------------------------------------------------------
(* Steps.                                                                     *)

LEMMA ReplyStarts == ReplyInit => ReplyInv
<1> SUFFICES ASSUME ReplyInit PROVE ReplyInv
    OBVIOUS
<1>1. responseHeaders \in Seq(Headers) /\ wire \in Seq(Items)
    BY EmptySeq DEF ReplyInit
<1>2. /\ served \in Nat /\ contentLength \in Int /\ chunked \in BOOLEAN /\ broken \in BOOLEAN
      /\ meant \in [n : Int, packed : BOOLEAN]
    <2>1. served = 0 /\ contentLength = -1 /\ chunked = FALSE /\ broken = FALSE /\ meant = [n |-> 0, packed |-> FALSE]
        BY DEF ReplyInit, NotSet
    <2>2. served \in Nat /\ contentLength \in Int /\ 0 \in Int
        BY <2>1
    <2> QED
        BY <2>1, <2>2, Zenon
<1>3. ReplyTypes
    BY <1>1, <1>2, Zenon DEF ReplyTypes
<1> QED
    BY <1>3 DEF ReplyInit, ReplyInv, ReplyReadsBack

LEMMA BeginRequestStep == ReplyInv /\ BeginRequest => ReplyInv'
<1> SUFFICES ASSUME ReplyInv, BeginRequest PROVE ReplyInv'
    OBVIOUS
<1>1. wire' \in Seq(Items)
    BY EmptySeq DEF BeginRequest
<1>2. /\ served' \in Nat /\ contentLength' \in Int /\ chunked' \in BOOLEAN /\ broken' \in BOOLEAN
      /\ meant' \in [n : Int, packed : BOOLEAN]
    <2>1. /\ served' = served + 1 /\ served \in Nat
          /\ contentLength' = -1 /\ chunked' = FALSE /\ broken' = FALSE /\ meant' = [n |-> 0, packed |-> FALSE]
        BY DEF BeginRequest, ReplyInv, ReplyTypes, NotSet
    <2>2. served' \in Nat /\ contentLength' \in Int /\ 0 \in Int
        BY <2>1
    <2> QED
        BY <2>1, <2>2, Zenon
<1>3. responseHeaders' \in Seq(Headers)
    BY DEF BeginRequest, ReplyInv, ReplyTypes
<1>4. ReplyTypes'
    BY <1>1, <1>2, <1>3, Zenon DEF ReplyTypes
<1> QED
    BY <1>4 DEF BeginRequest, ReplyInv, ReplyReadsBack

(* The first of a handler's calls is the next one.                            *)
LEMMA CallsBegin ==
    ASSUME ReplyInv, rpc = "choose", rpc' = "calls",
           NEW c, FitsReply(c), calls' = c,
           meant' \in [n : Int, packed : BOOLEAN], meant'.n = 0,
           (meant'.packed /\ FileType[Path] = "known") => Sets(c, "Content-Encoding", Len(c)),
           UNCHANGED <<served, request, responseHeaders, contentLength, chunked, wire, broken>>
    PROVE  ReplyInv'
<1>1. PICK p \in DOMAIN c : SendsAt(c, p)
    BY DEF FitsReply
<1>2. c \in Seq(CallRecord) /\ Len(c) \in Nat /\ p \in 1 .. Len(c)
    BY CallsAre
<1>3. calls' = SubSeq(c, 1, Len(c))
    BY <1>2, SubSeqFull
<1>4. /\ responseHeaders' = <<>> /\ wire' = <<>> /\ chunked' = FALSE /\ contentLength' = NotSet /\ broken' = FALSE
    BY DEF ReplyInv
<1>5. 1 .. 1 - 1 = {} /\ DOMAIN responseHeaders' = {}
    BY <1>4
<1>6. NotSent(c, 1)'
    BY <1>4, <1>5, Zenon DEF NotSent
<1>7. Path' = Path
    BY DEF Path
<1>8. Calling(c, 1, p)'
    <2>1. 1 <= p
        BY <1>2
    <2> QED
        BY <1>1, <1>3, <1>6, <1>7, <2>1 DEF Calling
<1>9. ReplyTypes'
    BY DEF ReplyInv, ReplyTypes
<1>10. 1 \in 1 .. Len(c) + 1
    BY <1>2
<1> QED
    BY <1>4, <1>8, <1>9, <1>10 DEF ReplyInv, ReplyReadsBack

(* The handler that is chosen is one of those registered.                     *)
LEMMA ChosenIs ==
    ASSUME Chosen.kind # "none"
    PROVE  Chosen \in ToSet(Handlers) /\ CanHandle(Chosen)
<1> DEFINE can == {i \in DOMAIN Handlers : CanHandle(Handlers[i])}
<1>1. Len(Handlers) \in Nat /\ DOMAIN Handlers = 1 .. Len(Handlers)
    BY ReplyAssumption, LenProperties
<1>2. can # {}
    BY DEF Chosen
<1>3. can \in SUBSET Nat
    BY <1>1
<1> HIDE DEF can
<1>4. \E i \in can : \A k \in can : i <= k
    BY <1>2, <1>3, LeastOne
<1>5. Min(can) \in can
    BY <1>4 DEF Min
<1>6. Chosen = Handlers[Min(can)]
    BY <1>2 DEF Chosen, can
<1> QED
    BY <1>5, <1>6 DEF can, ToSet

LEMMA CallsFunctionStep == ReplyInv /\ CallsFunction => ReplyInv'
<1> SUFFICES ASSUME ReplyInv, CallsFunction PROVE ReplyInv'
    OBVIOUS
<1>1. Chosen \in ToSet(Handlers) /\ Chosen.kind = "function"
    BY ChosenIs DEF CallsFunction
<1>2. PICK c : c = Chosen.calls /\ FitsReply(c)
    BY <1>1, ReplyAssumption
<1>3. meant' = [n |-> 0, packed |-> FALSE]
    BY DEF CallsFunction, ReplyInv
<1>4. /\ calls' = c /\ rpc = "choose" /\ rpc' = "calls"
      /\ UNCHANGED <<served, request, responseHeaders, contentLength, chunked, wire, broken>>
    BY <1>2 DEF CallsFunction
<1> QED
    BY <1>2, <1>3, <1>4, CallsBegin

LEMMA NotFoundStep == ReplyInv /\ NotFound => ReplyInv'
<1> SUFFICES ASSUME ReplyInv, NotFound PROVE ReplyInv'
    OBVIOUS
<1>1. PICK c : c = NotFoundCalls /\ FitsReply(c)
    BY ReplyAssumption
<1>2. meant' = [n |-> 0, packed |-> FALSE]
    BY DEF NotFound, ReplyInv
<1>3. /\ calls' = c /\ rpc = "choose" /\ rpc' = "calls"
      /\ UNCHANGED <<served, request, responseHeaders, contentLength, chunked, wire, broken>>
    BY <1>1 DEF NotFound
<1> QED
    BY <1>1, <1>2, <1>3, CallsBegin

LEMMA FirstThen ==
    ASSUME NEW S, NEW a \in S, NEW s \in Seq(S)
    PROVE  /\ <<a>> \o s \in Seq(S) /\ Len(<<a>> \o s) = Len(s) + 1
           /\ (<<a>> \o s)[1] = a
           /\ \A i \in 2 .. Len(s) + 1 : (<<a>> \o s)[i] = s[i - 1]
<1> DEFINE f == <<a>>
           g == f \o s
<1>1. f \in Seq(S) /\ Len(f) = 1 /\ f[1] = a
    OBVIOUS
<1> HIDE DEF f
<1>2. /\ g \in Seq(S) /\ Len(g) = Len(f) + Len(s) /\ Len(s) \in Nat
      /\ \A i \in 1 .. Len(f) + Len(s) : g[i] = IF i <= Len(f) THEN f[i] ELSE s[i - Len(f)]
    BY <1>1, ConcatProperties, LenProperties
<1> HIDE DEF g
<1>3. \A i \in 2 .. Len(s) + 1 : g[i] = s[i - 1]
    BY <1>1, <1>2
<1>4. g[1] = a /\ Len(g) = Len(s) + 1
    BY <1>1, <1>2
<1> QED
    BY <1>2, <1>3, <1>4 DEF f, g

LEMMA FourCalls ==
    ASSUME NEW S, NEW a \in S, NEW b \in S, NEW s \in S, NEW w \in S,
           NEW c, c = <<a>> \o (<<b>> \o <<>> \o <<s, w>>)
    PROVE  /\ c \in Seq(S)
           /\ Len(c) = 4 /\ c[1] = a /\ c[2] = b /\ c[3] = s /\ c[4] = w
<1>1. PICK e \in Seq(S) : e = <<s, w>> /\ Len(e) = 2 /\ e[1] = s /\ e[2] = w
    <2> DEFINE e == <<s, w>>
    <2>1. e \in Seq(S) /\ Len(e) = 2 /\ e[1] = s /\ e[2] = w
        OBVIOUS
    <2> QED
        BY <2>1
<1>2. PICK d \in Seq(S) : d = <<b>> \o e /\ Len(d) = 3 /\ d[1] = b /\ d[2] = s /\ d[3] = w
    <2> DEFINE d == <<b>> \o e
    <2>1. d \in Seq(S) /\ Len(d) = Len(e) + 1 /\ d[1] = b /\ \A i \in 2 .. Len(e) + 1 : d[i] = e[i - 1]
        BY FirstThen
    <2>2. d = <<b>> \o e
        OBVIOUS
    <2> HIDE DEF d
    <2>3. Len(e) = 2
        BY <1>1
    <2>4. Len(d) = 3 /\ d[2] = e[1] /\ d[3] = e[2]
        BY <2>1, <2>3
    <2> QED
        BY <1>1, <2>1, <2>2, <2>4
<1>3. PICK g \in Seq(S) : g = <<a>> \o d /\ Len(g) = 4 /\ g[1] = a /\ g[2] = b /\ g[3] = s /\ g[4] = w
    <2> DEFINE g == <<a>> \o d
    <2>1. g \in Seq(S) /\ Len(g) = Len(d) + 1 /\ g[1] = a /\ \A i \in 2 .. Len(d) + 1 : g[i] = d[i - 1]
        BY FirstThen
    <2>2. g = <<a>> \o d
        OBVIOUS
    <2> HIDE DEF g
    <2>3. Len(d) = 3
        BY <1>2
    <2>4. Len(g) = 4 /\ g[2] = d[1] /\ g[3] = d[2] /\ g[4] = d[3]
        BY <2>1, <2>3
    <2> QED
        BY <1>2, <2>1, <2>2, <2>4
<1>4. <<b>> \o <<>> = <<b>>
    OBVIOUS
<1>5. c = g
    BY <1>1, <1>2, <1>3, <1>4, Zenon
<1> QED
    BY <1>3, <1>5

LEMMA FiveCalls ==
    ASSUME NEW S, NEW a \in S, NEW b \in S, NEW h \in S, NEW s \in S, NEW w \in S,
           NEW c, c = <<a>> \o (<<b>> \o <<h>> \o <<s, w>>)
    PROVE  /\ c \in Seq(S)
           /\ Len(c) = 5 /\ c[1] = a /\ c[2] = b /\ c[3] = h /\ c[4] = s /\ c[5] = w
<1>1. PICK e \in Seq(S) : e = <<s, w>> /\ Len(e) = 2 /\ e[1] = s /\ e[2] = w
    <2> DEFINE e == <<s, w>>
    <2>1. e \in Seq(S) /\ Len(e) = 2 /\ e[1] = s /\ e[2] = w
        OBVIOUS
    <2> QED
        BY <2>1
<1>2. PICK d \in Seq(S) : d = <<h>> \o e /\ Len(d) = 3 /\ d[1] = h /\ d[2] = s /\ d[3] = w
    <2> DEFINE d == <<h>> \o e
    <2>1. d \in Seq(S) /\ Len(d) = Len(e) + 1 /\ d[1] = h /\ \A i \in 2 .. Len(e) + 1 : d[i] = e[i - 1]
        BY FirstThen
    <2>2. d = <<h>> \o e
        OBVIOUS
    <2> HIDE DEF d
    <2>3. Len(e) = 2
        BY <1>1
    <2>4. Len(d) = 3 /\ d[2] = e[1] /\ d[3] = e[2]
        BY <2>1, <2>3
    <2> QED
        BY <1>1, <2>1, <2>2, <2>4
<1>3. PICK f \in Seq(S) : f = <<b>> \o d /\ Len(f) = 4 /\ f[1] = b /\ f[2] = h /\ f[3] = s /\ f[4] = w
    <2> DEFINE f == <<b>> \o d
    <2>1. f \in Seq(S) /\ Len(f) = Len(d) + 1 /\ f[1] = b /\ \A i \in 2 .. Len(d) + 1 : f[i] = d[i - 1]
        BY FirstThen
    <2>2. f = <<b>> \o d
        OBVIOUS
    <2> HIDE DEF f
    <2>3. Len(d) = 3
        BY <1>2
    <2>4. Len(f) = 4 /\ f[2] = d[1] /\ f[3] = d[2] /\ f[4] = d[3]
        BY <2>1, <2>3
    <2> QED
        BY <1>2, <2>1, <2>2, <2>4
<1>4. PICK g \in Seq(S) : g = <<a>> \o f /\ Len(g) = 5 /\ g[1] = a /\ g[2] = b /\ g[3] = h /\ g[4] = s /\ g[5] = w
    <2> DEFINE g == <<a>> \o f
    <2>1. g \in Seq(S) /\ Len(g) = Len(f) + 1 /\ g[1] = a /\ \A i \in 2 .. Len(f) + 1 : g[i] = f[i - 1]
        BY FirstThen
    <2>2. g = <<a>> \o f
        OBVIOUS
    <2> HIDE DEF g
    <2>3. Len(f) = 4
        BY <1>3
    <2>4. Len(g) = 5 /\ g[2] = f[1] /\ g[3] = f[2] /\ g[4] = f[3] /\ g[5] = f[4]
        BY <2>1, <2>3
    <2> QED
        BY <1>3, <2>1, <2>2, <2>4
<1>5. <<b>> \o <<h>> \o e = <<b>> \o (<<h>> \o e)
    <2>1. <<b>> \in Seq(S) /\ <<h>> \in Seq(S)
        OBVIOUS
    <2> QED
        BY <2>1, ConcatAssociative
<1>6. c = g
    BY <1>1, <1>2, <1>3, <1>4, <1>5, Zenon
<1> QED
    BY <1>4, <1>6

LEMMA FileFits ==
    ASSUME NEW size \in Nat, NEW c \in Seq(CallRecord), NEW p \in {3, 4}, Len(c) = p + 1,
           c[1] = Call("sendHeader", "Cache-Control", 0), c[2] = Call("setContentLength", Unnamed, size),
           p = 4 => c[3] = Call("sendHeader", "Content-Encoding", 0),
           c[p] = Call("send", Unnamed, 0), c[p + 1] = Call("write", Unnamed, size)
    PROVE  FitsReply(c)
<1>1. DOMAIN c = 1 .. p + 1
    BY LenProperties
<1>2. /\ c[1].do = "sendHeader" /\ c[1].name = "Cache-Control"
      /\ c[2].do = "setContentLength" /\ c[2].n = size
      /\ c[p].do = "send" /\ c[p].n = 0 /\ c[p + 1].do = "write" /\ c[p + 1].n = size
    BY DEF Call
<1>3. p = 4 => c[3].do = "sendHeader" /\ c[3].name = "Content-Encoding"
    BY DEF Call
<1>4. \A i \in DOMAIN c : i = 1 \/ i = 2 \/ (i = 3 /\ p = 4) \/ i = p \/ i = p + 1
    BY <1>1
<1>5. Says(c) = {size}
    <2>1. \A i \in DOMAIN c : c[i].do = "setContentLength" <=> i = 2
        BY <1>2, <1>3, <1>4
    <2>2. {j \in DOMAIN c : c[j].do = "setContentLength"} = {2}
        BY <1>1, <2>1
    <2>3. Says(c) = {c[i].n : i \in {2}}
        BY <2>2, Zenon DEF Says
    <2> QED
        BY <1>2, <2>3
<1>6. Amount(c) = size
    <2> DEFINE f == Sums(Gives(c))
               v == Gives(c)
    <2>1. /\ f[0] = 0 /\ \A i \in 1 .. p + 1 : f[i] = f[i - 1] + v[i]
          /\ Amount(c) = f[p + 1]
        BY GivesAre
    <2>2. \A i \in 1 .. p + 1 : v[i] = IF c[i].do \in {"send", "sendContent", "write"} THEN c[i].n ELSE 0
        BY GivesAre
    <2>3. v[1] = 0 /\ v[2] = 0 /\ (p = 4 => v[3] = 0) /\ v[p] = 0 /\ v[p + 1] = size
        BY <1>2, <1>3, <2>2
    <2> HIDE DEF f, v
    <2>4. f[1] = 0 /\ f[2] = 0 /\ f[3] = 0
        BY <2>1, <2>3
    <2>5. f[p] = 0
        BY <2>1, <2>3, <2>4
    <2>6. f[p + 1] = f[p] + v[p + 1]
        BY <2>1
    <2> QED
        BY <2>1, <2>3, <2>5, <2>6
<1>7. SendsAt(c, p)
    <2>1. \A i \in 1 .. p - 1 : c[i].do \in {"sendHeader", "setContentLength"}
        BY <1>2, <1>3
    <2>2. \A i \in p + 1 .. Len(c) : c[i].do \in {"sendContent", "write"}
        BY <1>2
    <2>3. Says(c) # {} /\ Unknown \notin Says(c) /\ Says(c) = {Amount(c)}
        BY <1>5, <1>6 DEF Unknown
    <2> QED
        BY <1>2, <2>1, <2>2, <2>3 DEF SendsAt
<1>8. \A i \in DOMAIN c : c[i].do = "sendHeader" => c[i].name \in {"Cache-Control", "Content-Encoding"}
    BY <1>2, <1>3, <1>4
<1>9. p \in DOMAIN c
    BY <1>1
<1>10. Says(c) \subseteq Nat \cup {Unknown} /\ \A l, m \in Says(c) : l = m
    BY <1>5
<1> QED
    BY <1>7, <1>8, <1>9, <1>10 DEF FitsReply

LEMMA ServesFileStep == ReplyInv /\ ServesFile => ReplyInv'
<1> SUFFICES ASSUME ReplyInv, ServesFile PROVE ReplyInv'
    OBVIOUS
<1>1. Chosen \in ToSet(Handlers) /\ CanHandle(Chosen) /\ Chosen.kind = "static"
    BY ChosenIs DEF ServesFile
<1>2. Path \in Chosen.uri /\ {Path, Gz[Path]} \subseteq DOMAIN FileSize
    BY <1>1, ReplyAssumption DEF CanHandle, Path
<1>3. PICK size \in Nat : size = FileSize[Served]
    BY <1>2, ReplyAssumption DEF Served
<1>4. PICK a, b, h, s, w : /\ a = Call("sendHeader", "Cache-Control", 0)
                           /\ b = Call("setContentLength", Unnamed, size)
                           /\ h = Call("sendHeader", "Content-Encoding", 0)
                           /\ s = Call("send", Unnamed, 0)
                           /\ w = Call("write", Unnamed, size)
    OBVIOUS
<1>5. a \in CallRecord /\ b \in CallRecord /\ h \in CallRecord /\ s \in CallRecord /\ w \in CallRecord
    <2>1. ASSUME NEW do \in {"sendHeader", "setContentLength", "send", "sendContent", "write"},
                 NEW name \in HeaderNames \cup {Unnamed}, NEW n \in Int
          PROVE  Call(do, name, n) \in CallRecord
        BY DEF Call, CallRecord
    <2>2. 0 \in Int /\ size \in Int
        OBVIOUS
    <2>3. {"Cache-Control", "Content-Encoding"} \subseteq HeaderNames \cup {Unnamed}
        BY ReplyAssumption
    <2> QED
        BY <1>4, <2>1, <2>2, <2>3
<1> DEFINE marked == Packed(Served) /\ FileType[Path] = "known"
<1>6. calls' = <<a>> \o (<<b>> \o (IF marked THEN <<h>> ELSE <<>>) \o <<s, w>>)
    BY <1>3, <1>4, Zenon DEF ServesFile, StreamFile
<1>7. PICK c : calls' = c /\ FitsReply(c) /\ (marked => Sets(c, "Content-Encoding", Len(c)))
    <2>1. CASE marked
        <3>1. PICK c : c = <<a>> \o (<<b>> \o <<h>> \o <<s, w>>)
            OBVIOUS
        <3>2. calls' = c
            BY <1>6, <2>1, <3>1, Zenon
        <3>3. c \in Seq(CallRecord) /\ Len(c) = 5 /\ c[1] = a /\ c[2] = b /\ c[3] = h /\ c[4] = s /\ c[5] = w
            BY <1>5, <3>1, FiveCalls
        <3>4. PICK p : p = 4
            OBVIOUS
        <3>5. FitsReply(c)
            <4>1. p \in {3, 4} /\ Len(c) = p + 1 /\ c[p] = s /\ c[p + 1] = w
                BY <3>3, <3>4
            <4> QED
                BY <1>4, <3>3, <4>1, FileFits
        <3>6. Sets(c, "Content-Encoding", Len(c))
            BY <1>4, <3>3 DEF Sets, Call
        <3> QED
            BY <3>2, <3>5, <3>6
    <2>2. CASE ~marked
        <3>1. PICK c : c = <<a>> \o (<<b>> \o <<>> \o <<s, w>>)
            OBVIOUS
        <3>2. calls' = c
            BY <1>6, <2>2, <3>1, Zenon
        <3>3. c \in Seq(CallRecord) /\ Len(c) = 4 /\ c[1] = a /\ c[2] = b /\ c[3] = s /\ c[4] = w
            BY <1>5, <3>1, FourCalls
        <3>4. PICK p : p = 3
            OBVIOUS
        <3>5. FitsReply(c)
            <4>1. p \in {3, 4} /\ p # 4 /\ Len(c) = p + 1 /\ c[p] = s /\ c[p + 1] = w
                BY <3>3, <3>4
            <4> QED
                BY <1>4, <3>3, <4>1, FileFits
        <3> QED
            BY <2>2, <3>2, <3>5
    <2> QED
        BY <2>1, <2>2
<1>8. meant' = [meant EXCEPT !.packed = Packed(Served)] /\ meant = [n |-> 0, packed |-> FALSE]
    BY DEF ServesFile, ReplyInv
<1>9. meant' \in [n : Int, packed : BOOLEAN] /\ meant'.n = 0 /\ meant'.packed = Packed(Served)
    <2>1. Packed(Served) \in BOOLEAN
        BY Zenon DEF Packed
    <2>2. meant' = [n |-> 0, packed |-> Packed(Served)]
        BY <1>8
    <2>3. 0 \in Int
        OBVIOUS
    <2> QED
        BY <2>1, <2>2, <2>3, Zenon
<1>10. Path' = Path
    BY DEF ServesFile, Path
<1>11. (meant'.packed /\ FileType[Path] = "known") => Sets(c, "Content-Encoding", Len(c))
    BY <1>7, <1>9, Zenon
<1>12. /\ rpc = "choose" /\ rpc' = "calls"
       /\ UNCHANGED <<served, request, responseHeaders, contentLength, chunked, wire, broken>>
    BY DEF ServesFile
<1> QED
    BY <1>7, <1>9, <1>11, <1>12, CallsBegin

(* The handler makes c's call j.                                              *)
Makes(c, j, p, do) ==
    /\ FitsReply(c) /\ SendsAt(c, p)
    /\ c[j] = Head(calls) /\ c[j].do = do /\ calls' = SubSeq(c, j + 1, Len(c))
    /\ (meant.packed /\ FileType[Path] = "known") => Sets(c, "Content-Encoding", Len(c))
    /\ IF j <= p THEN NotSent(c, j) ELSE SentUpTo(c, j)

(* Where the handler is, and that it is one call further afterwards.          *)
LEMMA AtCall ==
    ASSUME ReplyInv, NEW do, Calls(do)
    PROVE  \E c : \E p \in DOMAIN c : \E j \in 1 .. Len(c) : Makes(c, j, p, do)
<1>1. PICK c : \E p \in DOMAIN c : \E j \in 1 .. Len(c) + 1 : Calling(c, j, p)
    BY DEF ReplyInv, Calls
<1>2. PICK p \in DOMAIN c : \E j \in 1 .. Len(c) + 1 : Calling(c, j, p)
    BY <1>1
<1>3. PICK j \in 1 .. Len(c) + 1 : Calling(c, j, p)
    BY <1>2
<1>4. FitsReply(c) /\ calls = SubSeq(c, j, Len(c)) /\ calls # <<>>
    BY <1>3, Zenon DEF Calling, Calls
<1>5. j \in 1 .. Len(c) /\ Head(calls) = c[j] /\ Tail(calls) = SubSeq(c, j + 1, Len(c))
    BY <1>4, CallsFrom
<1>6. c[j].do = do /\ calls' = SubSeq(c, j + 1, Len(c))
    BY <1>5, Zenon DEF Calls
<1>7. /\ SendsAt(c, p)
      /\ (meant.packed /\ FileType[Path] = "known") => Sets(c, "Content-Encoding", Len(c))
      /\ IF j <= p THEN NotSent(c, j) ELSE SentUpTo(c, j)
    BY <1>3, Zenon DEF Calling
<1> QED
    BY <1>4, <1>5, <1>6, <1>7, Zenon DEF Makes

LEMMA NextCall ==
    ASSUME ReplyInv, rpc = "calls", KeepsPlace, ReplyTypes', meant'.packed = meant.packed,
           NEW c, NEW p \in DOMAIN c, NEW j \in 1 .. Len(c), NEW k, k = j + 1,
           NEW do, Makes(c, j, p, do),
           IF k <= p THEN NotSent(c, k)' ELSE SentUpTo(c, k)'
    PROVE  ReplyInv'
<1>1. Len(c) \in Nat
    BY CallsAre DEF Makes
<1>2. k \in 1 .. Len(c) + 1
    BY <1>1
<1>3. Path' = Path /\ rpc' = "calls"
    BY DEF Path, KeepsPlace
<1>4. Calling(c, k, p)'
    BY <1>3 DEF Calling, Makes
<1> QED
    BY <1>2, <1>3, <1>4 DEF ReplyInv, ReplyReadsBack

LEMMA SendHeaderStep == ReplyInv /\ SendHeader => ReplyInv'
<1> SUFFICES ASSUME ReplyInv, SendHeader PROVE ReplyInv'
    OBVIOUS
<1>1. PICK c : \E p \in DOMAIN c : \E j \in 1 .. Len(c) : Makes(c, j, p, "sendHeader")
    BY AtCall DEF SendHeader
<1>2. PICK p \in DOMAIN c, j \in 1 .. Len(c) : Makes(c, j, p, "sendHeader")
    BY <1>1
<1>3. /\ FitsReply(c) /\ SendsAt(c, p) /\ c[j] = Head(calls) /\ c[j].do = "sendHeader"
      /\ c[j] \in CallRecord /\ Len(c) \in Nat /\ DOMAIN c = 1 .. Len(c)
    BY <1>2, CallsAre DEF Makes
<1>4. PICK k : k = j + 1 /\ k <= p /\ k - 1 = j /\ j <= p
    <2>1. ~(j > p) /\ j # p
        BY <1>3 DEF SendsAt
    <2> QED
        BY <1>3, <2>1
<1>5. NotSent(c, j)
    BY <1>2, <1>4 DEF Makes
<1> DEFINE x == Header(c[j].name, c[j].n, served)
<1>6. x \in Headers /\ x.by = served /\ x.name = c[j].name /\ x.n = c[j].n
    BY <1>3 DEF Header, Headers, Names, CallRecord, ReplyInv, ReplyTypes
<1>7. /\ responseHeaders' = Append(responseHeaders, x)
      /\ UNCHANGED <<contentLength, chunked, wire, meant, served, broken>> /\ rpc = "calls" /\ KeepsPlace
    BY <1>3 DEF SendHeader, Calls, KeepsPlace
<1> HIDE DEF x
<1>8. PICK old \in Seq(Headers), new \in Seq(Headers) :
        /\ old = responseHeaders /\ new = responseHeaders'
        /\ Len(new) = Len(old) + 1 /\ \A i \in 1 .. Len(old) : new[i] = old[i]
        /\ new[Len(old) + 1] = x
        /\ DOMAIN old = 1 .. Len(old) /\ DOMAIN new = 1 .. Len(new) /\ Len(old) \in Nat
    <2>1. responseHeaders \in Seq(Headers)
        BY DEF ReplyInv, ReplyTypes
    <2>2. /\ Append(responseHeaders, x) \in Seq(Headers)
          /\ Len(Append(responseHeaders, x)) = Len(responseHeaders) + 1
          /\ \A i \in 1 .. Len(responseHeaders) : Append(responseHeaders, x)[i] = responseHeaders[i]
          /\ Append(responseHeaders, x)[Len(responseHeaders) + 1] = x
        BY <1>6, <2>1, AppendProperties
    <2> QED
        BY <1>7, <2>1, <2>2, LenProperties, Zenon
<1>9. \A i \in DOMAIN new : (i \in DOMAIN old /\ new[i] = old[i]) \/ new[i] = x
    BY <1>8
<1>10. \A i \in DOMAIN new :
          /\ new[i].by = served
          /\ \E m \in 1 .. k - 1 : c[m].do = "sendHeader" /\ new[i].name = c[m].name /\ new[i].n = c[m].n
    <2>1. SUFFICES ASSUME NEW i \in DOMAIN new
          PROVE  /\ new[i].by = served
                 /\ \E m \in 1 .. k - 1 : c[m].do = "sendHeader" /\ new[i].name = c[m].name /\ new[i].n = c[m].n
        OBVIOUS
    <2>2. CASE i \in DOMAIN old /\ new[i] = old[i]
        <3>1. /\ old[i].by = served
              /\ \E m \in 1 .. j - 1 : c[m].do = "sendHeader" /\ old[i].name = c[m].name /\ old[i].n = c[m].n
            BY <1>5, <1>8, <2>2, Zenon DEF NotSent
        <3>2. 1 .. j - 1 \subseteq 1 .. k - 1
            BY <1>4
        <3> QED
            BY <2>2, <3>1, <3>2, Zenon
    <2>3. CASE new[i] = x
        <3>1. j \in 1 .. k - 1
            BY <1>4
        <3> QED
            BY <1>3, <1>6, <2>3, <3>1, Zenon
    <2> QED
        BY <1>9, <2>2, <2>3
<1>11. \A m \in 1 .. k - 1 : c[m].do = "sendHeader" => \E i \in DOMAIN new : new[i].name = c[m].name
    <2>1. SUFFICES ASSUME NEW m \in 1 .. k - 1, c[m].do = "sendHeader"
          PROVE  \E i \in DOMAIN new : new[i].name = c[m].name
        OBVIOUS
    <2>2. CASE m = j
        <3>1. Len(old) + 1 \in DOMAIN new
            BY <1>8
        <3> QED
            BY <1>6, <1>8, <2>2, <3>1, Zenon
    <2>3. CASE m # j
        <3>1. m \in 1 .. j - 1
            BY <1>4, <2>3
        <3>2. PICK i \in DOMAIN old : old[i].name = c[m].name
            BY <1>5, <1>8, <2>1, <3>1, Zenon DEF NotSent
        <3>3. i \in DOMAIN new /\ new[i] = old[i]
            BY <1>8
        <3> QED
            BY <3>2, <3>3, Zenon
    <2> QED
        BY <2>2, <2>3
<1>12. (\E i \in 1 .. k - 1 : c[i].do = "setContentLength") => contentLength \in Says(c)
    <2>1. \A i \in 1 .. k - 1 : i \in 1 .. j - 1 \/ i = j
        BY <1>4
    <2> QED
        BY <1>3, <1>5, <2>1 DEF NotSent
<1>13. NotSent(c, k)'
    BY <1>5, <1>7, <1>8, <1>10, <1>11, <1>12, Zenon DEF NotSent
<1>14. ReplyTypes' /\ meant'.packed = meant.packed
    <2>1. responseHeaders' \in Seq(Headers)
        BY <1>8
    <2> QED
        BY <1>7, <2>1, Zenon DEF ReplyInv, ReplyTypes
<1> QED
    BY <1>2, <1>4, <1>7, <1>13, <1>14, NextCall

LEMMA SetContentLengthStep == ReplyInv /\ SetContentLength => ReplyInv'
<1> SUFFICES ASSUME ReplyInv, SetContentLength PROVE ReplyInv'
    OBVIOUS
<1>1. PICK c : \E p \in DOMAIN c : \E j \in 1 .. Len(c) : Makes(c, j, p, "setContentLength")
    BY AtCall DEF SetContentLength
<1>2. PICK p \in DOMAIN c, j \in 1 .. Len(c) : Makes(c, j, p, "setContentLength")
    BY <1>1
<1>3. /\ FitsReply(c) /\ SendsAt(c, p) /\ c[j] = Head(calls) /\ c[j].do = "setContentLength"
      /\ c[j] \in CallRecord /\ Len(c) \in Nat /\ DOMAIN c = 1 .. Len(c)
    BY <1>2, CallsAre DEF Makes
<1>4. PICK k : k = j + 1 /\ k <= p /\ k - 1 = j /\ j <= p
    <2>1. ~(j > p) /\ j # p
        BY <1>3 DEF SendsAt
    <2> QED
        BY <1>3, <2>1
<1>5. NotSent(c, j)
    BY <1>2, <1>4 DEF Makes
<1>6. /\ contentLength' = c[j].n
      /\ UNCHANGED <<responseHeaders, chunked, wire, meant, served, broken>> /\ rpc = "calls" /\ KeepsPlace
    BY <1>3 DEF SetContentLength, Calls, KeepsPlace
<1>7. contentLength' \in Int
    BY <1>3, <1>6 DEF CallRecord
<1>8. contentLength' \in Says(c)
    BY <1>3, <1>6 DEF Says
<1>9. 1 .. j - 1 \subseteq 1 .. k - 1 /\ \A m \in 1 .. k - 1 : m \in 1 .. j - 1 \/ m = j
    BY <1>4
<1>10. \A m \in 1 .. k - 1 : c[m].do = "sendHeader" =>
          \E i \in DOMAIN responseHeaders : responseHeaders[i].name = c[m].name
    BY <1>3, <1>5, <1>9 DEF NotSent
<1>11. \A i \in DOMAIN responseHeaders :
          /\ responseHeaders[i].by = served
          /\ \E m \in 1 .. k - 1 : /\ c[m].do = "sendHeader"
                                   /\ responseHeaders[i].name = c[m].name /\ responseHeaders[i].n = c[m].n
    BY <1>5, <1>9, Zenon DEF NotSent
<1>12. NotSent(c, k)'
    BY <1>5, <1>6, <1>8, <1>10, <1>11, Zenon DEF NotSent
<1>13. ReplyTypes' /\ meant'.packed = meant.packed
    BY <1>6, <1>7, Zenon DEF ReplyInv, ReplyTypes
<1> QED
    BY <1>2, <1>4, <1>6, <1>12, <1>13, NextCall

(* Headers have no size; framing adds one of them or none.                    *)
LEMMA HeadersOnly ==
    ASSUME NEW h \in Seq(Headers)
    PROVE  h \in Seq(Items) /\ SizeOf(h) = 0 /\ \A i \in 1 .. Len(h) : h[i] \in Headers
<1>1. h \in Seq(Items)
    BY SeqMonotonic DEF Items
<1>2. \A i \in 1 .. Len(h) : h[i] \in Headers
    BY ElementOfSeq
<1>3. \A i \in 1 .. Len(h) : h[i].is = "header"
    BY <1>2 DEF Headers
<1>4. \A i \in 1 .. Len(h) : Bodies(h)[i] = 0
    BY <1>1, <1>3, ItemsAre
<1> DEFINE v == Bodies(h)
<1>5. v \in Seq(Int) /\ Len(v) = Len(h)
    BY <1>1, ItemsAre
<1> HIDE DEF v
<1>6. \A i \in 1 .. Len(v) : v[i] = 0
    BY <1>4, <1>5 DEF v
<1>7. SumOf(v) = 0
    BY <1>5, <1>6, SumOfNothing
<1> QED
    BY <1>1, <1>2, <1>7 DEF SizeOf, v

Headed(a, h, by, has, x) ==
    /\ a \in Seq(Items) /\ SizeOf(a) = 0
    /\ \A i \in 1 .. Len(a) : a[i].is = "header" /\ a[i].by = by
    /\ \A name : ValuesIn(a, name) = ValuesIn(h, name) \cup (IF has /\ x.name = name THEN {x.n} ELSE {})

LEMMA WithFraming ==
    ASSUME NEW h \in Seq(Headers), NEW by, \A i \in DOMAIN h : h[i].by = by,
           NEW x \in Headers, x.by = by, NEW has \in BOOLEAN, NEW a,
           a = h \o (IF has THEN <<x>> ELSE <<>>)
    PROVE  Headed(a, h, by, has, x)
<1>1. h \in Seq(Items) /\ SizeOf(h) = 0 /\ Len(h) \in Nat
    BY HeadersOnly, LenProperties
<1>2. \A i \in 1 .. Len(h) : h[i].is = "header" /\ h[i].by = by
    BY HeadersOnly, LenProperties DEF Headers
<1>3. x \in Items /\ x.is = "header"
    BY DEF Items, Headers
<1>4. CASE has
    <2>1. a = h \o <<x>>
        BY <1>4
    <2>2. OneMore(a, h, x)
        BY <1>1, <1>3, <2>1, OneMoreItem
    <2>3. SizeOf(a) = 0
        BY <1>1, <1>3, <2>2 DEF OneMore
    <2>4. \A i \in 1 .. Len(a) : a[i].is = "header" /\ a[i].by = by
        <3>1. \A i \in 1 .. Len(a) : a[i] = x \/ (i \in 1 .. Len(h) /\ a[i] = h[i])
            BY <1>1, <2>2 DEF OneMore
        <3> QED
            BY <1>2, <1>3, <3>1, Zenon
    <2> QED
        BY <1>3, <1>4, <2>2, <2>3, <2>4, Zenon DEF OneMore, Headed
<1>5. CASE ~has
    <2>1. a = h
        BY <1>5, ConcatEmptySeq
    <2>2. \A name : ValuesIn(h, name) \cup {} = ValuesIn(h, name)
        OBVIOUS
    <2> QED
        BY <1>1, <1>2, <1>5, <2>1, <2>2, Zenon DEF Headed
<1> QED
    BY <1>4, <1>5

LEMMA OldOrNew ==
    ASSUME NEW w \in Seq(Items), NEW v, NEW x, OneMore(v, w, x)
    PROVE  \A i \in DOMAIN v : v[i] = x \/ (i \in DOMAIN w /\ v[i] = w[i])
<1>1. /\ Len(w) \in Nat /\ DOMAIN w = 1 .. Len(w) /\ DOMAIN v = 1 .. Len(v) /\ Len(v) = Len(w) + 1
      /\ v[Len(w) + 1] = x /\ \A i \in 1 .. Len(w) : v[i] = w[i]
    BY LenProperties DEF OneMore
<1> QED
    BY <1>1

LEMMA FirstChunk ==
    ASSUME NEW w \in Seq(Items), \A i \in DOMAIN w : w[i].is # "chunk",
           NEW x, x.n # 0, NEW v, OneMore(v, w, x)
    PROVE  \A i \in DOMAIN v : v[i].is = "chunk" => v[i].n # 0
<1>1. \A i \in DOMAIN v : v[i] = x \/ (i \in DOMAIN w /\ v[i] = w[i])
    BY OldOrNew
<1> QED
    BY <1>1, Zenon

(* A piece at the end leaves a reply as it was framed.                        *)
LEMMA FramedMore ==
    ASSUME NEW w \in Seq(Items), NEW by, NEW asChunk \in BOOLEAN, Framed(w, by, asChunk),
           NEW x, x.is = PieceOf(asChunk), NEW v, OneMore(v, w, x)
    PROVE  Framed(v, by, asChunk)
<1>1. PICK b \in DOMAIN w : /\ w[b].is = "blank"
                            /\ \A i \in 1 .. b - 1 : w[i].is = "header" /\ w[i].by = by
                            /\ \A i \in b + 1 .. Len(w) : w[i].is = PieceOf(asChunk)
    BY DEF Framed
<1>2. /\ Len(w) \in Nat /\ b \in 1 .. Len(w) /\ Len(v) = Len(w) + 1 /\ DOMAIN v = 1 .. Len(v)
      /\ v[Len(w) + 1] = x /\ \A i \in 1 .. Len(w) : v[i] = w[i]
    BY LenProperties DEF OneMore
<1>3. b \in DOMAIN v /\ v[b] = w[b] /\ \A i \in 1 .. b - 1 : v[i] = w[i]
    BY <1>2
<1>4. \A i \in b + 1 .. Len(v) : (i \in b + 1 .. Len(w) /\ v[i] = w[i]) \/ v[i] = x
    BY <1>2
<1>5. \A i \in b + 1 .. Len(v) : v[i].is = PieceOf(asChunk)
    BY <1>1, <1>4, Zenon
<1> QED
    BY <1>1, <1>3, <1>5, Zenon DEF Framed

(* The blank line and what send() was given go after the headers.             *)
Opened(w, a, by, n, asChunk) ==
    /\ w \in Seq(Items) /\ SizeOf(w) = n /\ Framed(w, by, asChunk)
    /\ \A name : ValuesIn(w, name) = ValuesIn(a, name)
    /\ \A i \in DOMAIN w : w[i].is = "chunk" => w[i].n # 0

LEMMA AfterHeaders ==
    ASSUME NEW a \in Seq(Items), NEW by, SizeOf(a) = 0,
           \A i \in 1 .. Len(a) : a[i].is = "header" /\ a[i].by = by,
           NEW n \in Int, NEW asChunk \in BOOLEAN,
           NEW b, b = a \o <<Piece("blank", 0)>>,
           NEW w, n = 0 => w = b, n # 0 => w = b \o <<Piece(PieceOf(asChunk), n)>>
    PROVE  Opened(w, a, by, n, asChunk)
<1>1. PICK blank, x : blank = Piece("blank", 0) /\ x = Piece(PieceOf(asChunk), n)
    OBVIOUS
<1>2. /\ blank \in Items /\ blank.is = "blank" /\ blank.is # "header"
      /\ x \in Items /\ x.is = PieceOf(asChunk) /\ x.is \in {"chunk", "bytes"} /\ x.is # "header" /\ x.n = n
    <2>1. PieceOf(asChunk) \in {"chunk", "bytes"}
        BY DEF PieceOf
    <2> QED
        BY <1>1, <2>1 DEF Piece, Pieces, Items
<1>3. OneMore(b, a, blank)
    BY <1>1, <1>2, OneMoreItem
<1>4. CASE n # 0 => OneMore(w, b, x)
    <2>1. b \in Seq(Items) /\ Len(a) \in Nat /\ Len(b) = Len(a) + 1 /\ DOMAIN b = 1 .. Len(b)
        BY <1>3, LenProperties DEF OneMore
    <2>2. ASSUME NEW old, NEW new, NEW more, OneMore(new, old, more), more.is # "header"
          PROVE  \A name : ValuesIn(new, name) = ValuesIn(old, name)
        BY <2>2 DEF OneMore
    <2>3. SizeOf(b) = 0
        BY <1>2, <1>3 DEF OneMore
    <2>4. PICK k : k = Len(a) + 1 /\ k \in 1 .. Len(b) /\ Len(b) = k /\ b[k] = blank
        BY <1>3, <2>1 DEF OneMore
    <2>5. \A i \in 1 .. k - 1 : b[i] = a[i] /\ i \in 1 .. Len(a)
        BY <1>3, <2>1, <2>4 DEF OneMore
    <2>6. \A i \in 1 .. k - 1 : b[i].is = "header" /\ b[i].by = by
        BY <2>5, Zenon
    <2>7. Framed(b, by, asChunk)
        <3>1. k \in DOMAIN b /\ k + 1 .. Len(b) = {}
            BY <2>1, <2>4
        <3> QED
            BY <1>2, <2>4, <2>6, <3>1, Zenon DEF Framed
    <2>8. \A i \in DOMAIN b : b[i].is # "chunk"
        <3>1. \A i \in DOMAIN b : i = k \/ i \in 1 .. k - 1
            BY <2>1, <2>4
        <3> QED
            BY <1>2, <2>4, <2>6, <3>1
    <2>9. \A name : ValuesIn(b, name) = ValuesIn(a, name)
        BY <1>2, <1>3, <2>2
    <2>10. CASE n = 0
        <3>1. w = b
            BY <2>10
        <3> QED
            BY <2>1, <2>3, <2>7, <2>8, <2>9, <2>10, <3>1, Zenon DEF Opened
    <2>11. CASE n # 0
        <3>1. OneMore(w, b, x)
            BY <1>4, <2>11
        <3>2. Framed(w, by, asChunk)
            BY <1>2, <2>1, <2>7, <3>1, FramedMore
        <3>3. SizeOf(w) = n
            BY <1>2, <2>3, <3>1 DEF OneMore
        <3>4. \A name : ValuesIn(w, name) = ValuesIn(b, name)
            BY <1>2, <2>2, <3>1
        <3>5. \A i \in DOMAIN w : w[i].is = "chunk" => w[i].n # 0
            BY <1>2, <2>1, <2>8, <2>11, <3>1, FirstChunk
        <3> QED
            BY <2>9, <3>1, <3>2, <3>3, <3>4, <3>5, Zenon DEF OneMore, Opened
    <2> QED
        BY <2>10, <2>11
<1>5. n # 0 => OneMore(w, b, x)
    <2>1. b \in Seq(Items)
        BY <1>3 DEF OneMore
    <2>2. n # 0 => w = b \o <<x>>
        BY <1>1, Zenon
    <2> QED
        BY <1>2, <2>1, <2>2, OneMoreItem
<1> QED
    BY <1>4, <1>5

(* The length that send() states is what the handler gives in all.            *)
LEMMA LengthIs ==
    ASSUME NEW c, FitsReply(c), NEW p \in DOMAIN c, SendsAt(c, p), NotSent(c, p)
    PROVE  /\ contentLength = Unknown => Unknown \in Says(c) /\ p # Len(c)
           /\ contentLength = NotSet => c[p].n = Amount(c)
           /\ contentLength \notin {NotSet, Unknown} => contentLength = Amount(c)
<1>1. Says(c) \subseteq Nat \cup {Unknown} /\ \A l, m \in Says(c) : l = m
    BY DEF FitsReply
<1>2. NotSet \notin Says(c) /\ NotSet # Unknown
    BY <1>1 DEF NotSet, Unknown
<1>3. contentLength = NotSet \/ contentLength \in Says(c)
    BY DEF NotSent
<1>4. contentLength = NotSet => Says(c) = {}
    <2>1. SUFFICES ASSUME contentLength = NotSet, Says(c) # {} PROVE FALSE
        OBVIOUS
    <2>2. PICK i \in DOMAIN c : c[i].do = "setContentLength"
        BY <2>1 DEF Says
    <2>3. /\ Len(c) \in Nat /\ DOMAIN c = 1 .. Len(c) /\ c[p].do = "send"
          /\ \A k \in p + 1 .. Len(c) : c[k].do \in {"sendContent", "write"}
        BY CallsAre DEF SendsAt
    <2>4. i \in 1 .. p - 1
        BY <2>2, <2>3
    <2>5. contentLength \in Says(c)
        BY <2>2, <2>4 DEF NotSent
    <2> QED
        BY <1>2, <2>1, <2>5
<1>5. CASE contentLength = NotSet
    BY <1>2, <1>4, <1>5 DEF SendsAt
<1>6. CASE contentLength = Unknown
    <2>1. Unknown \in Says(c)
        BY <1>2, <1>3, <1>6
    <2>2. p # Len(c)
        BY <2>1 DEF SendsAt
    <2> QED
        BY <1>2, <1>6, <2>1, <2>2
<1>7. CASE contentLength \notin {NotSet, Unknown}
    <2>1. contentLength \in Says(c) /\ Unknown \notin Says(c)
        BY <1>1, <1>3, <1>7
    <2>2. Says(c) = {Amount(c)}
        BY <2>1 DEF SendsAt
    <2> QED
        BY <1>7, <2>1, <2>2
<1> QED
    BY <1>5, <1>6, <1>7

LEMMA SendStep == ReplyInv /\ Send => ReplyInv'
<1> SUFFICES ASSUME ReplyInv, Send PROVE ReplyInv'
    OBVIOUS
<1>1. PICK c : \E p \in DOMAIN c : \E j \in 1 .. Len(c) : Makes(c, j, p, "send")
    BY AtCall DEF Send
<1>2. PICK p \in DOMAIN c, j \in 1 .. Len(c) : Makes(c, j, p, "send")
    BY <1>1
<1>3. /\ FitsReply(c) /\ SendsAt(c, p) /\ c[j] = Head(calls) /\ c[j].do = "send"
      /\ c[j] \in CallRecord /\ Len(c) \in Nat /\ DOMAIN c = 1 .. Len(c)
    BY <1>2, CallsAre DEF Makes
<1>4. j = p
    <2>1. ~(j > p) /\ ~(j < p)
        BY <1>3 DEF SendsAt
    <2> QED
        BY <1>3, <2>1
<1>5. NotSent(c, p)
    BY <1>2, <1>4 DEF Makes
<1>6. PICK n \in Int : n = c[p].n /\ n = Head(calls).n
    BY <1>3, <1>4 DEF CallRecord
<1>7. PICK size : size = IF contentLength = NotSet THEN n ELSE contentLength
    OBVIOUS
<1>8. PICK x : x = IF contentLength # Unknown THEN Header("Content-Length", size, served)
                                             ELSE Header("Transfer-Encoding", 0, served)
    OBVIOUS
<1>9. PICK has \in BOOLEAN : has = (contentLength # Unknown \/ request.version # 0)
    OBVIOUS
<1>10. /\ served \in Nat /\ responseHeaders \in Seq(Headers) /\ contentLength \in Int /\ size \in Int
       /\ meant \in [n : Int, packed : BOOLEAN] /\ broken \in BOOLEAN
    BY <1>7 DEF ReplyInv, ReplyTypes
<1>11. /\ x \in Headers /\ x.by = served
       /\ contentLength # Unknown => x.name = "Content-Length" /\ x.n = size
       /\ contentLength = Unknown => x.name = "Transfer-Encoding" /\ x.n = 0
    BY <1>8, <1>10 DEF Header, Headers, Names
<1>12. PICK asChunk \in BOOLEAN : chunked' = asChunk /\ asChunk = (contentLength = Unknown /\ request.version # 0)
    <2>1. chunked = FALSE /\ chunked' = (chunked \/ (contentLength = Unknown /\ request.version # 0))
        BY <1>5 DEF Send, NotSent
    <2> QED
        BY <2>1, Zenon
<1>13. /\ meant' = [meant EXCEPT !.n = @ + n]
       /\ responseHeaders' = <<>> /\ UNCHANGED <<contentLength, broken>> /\ rpc = "calls" /\ KeepsPlace
    BY <1>6 DEF Send, MeantToo, Calls
<1>14. PICK h \in Seq(Headers) : h = responseHeaders
    BY <1>10
<1>15. PICK framing : framing = IF has THEN <<x>> ELSE <<>>
    OBVIOUS
<1>16. PICK a : a = h \o framing
    OBVIOUS
<1>17. PICK b : b = a \o <<Piece("blank", 0)>>
    OBVIOUS
<1>18. wire' = b \o (IF n = 0 THEN <<>> ELSE Content(n, asChunk))
    <2>1. wire' = wire \o responseHeaders
                  \o (IF contentLength # Unknown THEN <<Header("Content-Length", size, served)>>
                      ELSE IF request.version = 0 THEN <<>>
                      ELSE <<Header("Transfer-Encoding", 0, served)>>)
                  \o <<Piece("blank", 0)>> \o (IF n = 0 THEN <<>> ELSE Content(n, chunked'))
        BY <1>6, <1>7, Zenon DEF Send
    <2>2. (IF contentLength # Unknown THEN <<Header("Content-Length", size, served)>>
           ELSE IF request.version = 0 THEN <<>>
           ELSE <<Header("Transfer-Encoding", 0, served)>>) = framing
        BY <1>8, <1>9, <1>15
    <2>3. wire \o h = h
        <3>1. wire = <<>>
            BY <1>5 DEF NotSent
        <3> QED
            BY <3>1, <1>14, ConcatEmptySeq
    <2> QED
        BY <1>12, <1>14, <1>16, <1>17, <2>1, <2>2, <2>3, Zenon
<1>19. h \in Seq(Items) /\ \A i \in DOMAIN h : h[i].by = served
    BY <1>5, <1>14, HeadersOnly, Zenon DEF NotSent
<1>20. Headed(a, h, served, has, x)
    <2>1. a = h \o (IF has THEN <<x>> ELSE <<>>)
        BY <1>15, <1>16
    <2> QED
        BY <1>11, <1>19, <2>1, WithFraming
<1>21. PICK w : w = wire'
    OBVIOUS
<1>22. Opened(w, a, served, n, asChunk)
    <2>1. b \in Seq(Items)
        <3>1. Piece("blank", 0) \in Items
            BY DEF Piece, Pieces, Items
        <3> QED
            BY <1>17, <1>20, <3>1, OneMoreItem DEF OneMore, Headed
    <2>2. n = 0 => w = b
        BY <1>18, <1>21, <2>1, ConcatEmptySeq
    <2>3. n # 0 => w = b \o <<Piece(PieceOf(asChunk), n)>>
        BY <1>18, <1>21 DEF Content, PieceOf
    <2>4. /\ a \in Seq(Items) /\ SizeOf(a) = 0
          /\ \A i \in 1 .. Len(a) : a[i].is = "header" /\ a[i].by = served
        BY <1>20 DEF Headed
    <2> QED
        BY <1>17, <2>2, <2>3, <2>4, AfterHeaders
<1>23. /\ \A name : ValuesIn(w, name) = ValuesIn(h, name) \cup (IF has /\ x.name = name THEN {x.n} ELSE {})
       /\ w \in Seq(Items) /\ SizeOf(w) = n /\ Framed(w, served, asChunk)
       /\ \A i \in DOMAIN w : w[i].is = "chunk" => w[i].n # 0
    BY <1>20, <1>22, Zenon DEF Headed, Opened
<1>24. \A i \in DOMAIN h : /\ h[i].name # "Transfer-Encoding"
                           /\ h[i].name = "Content-Length" => Unknown \notin Says(c) /\ h[i].n = Amount(c)
    <2>1. SUFFICES ASSUME NEW i \in DOMAIN h
          PROVE  /\ h[i].name # "Transfer-Encoding"
                 /\ h[i].name = "Content-Length" => Unknown \notin Says(c) /\ h[i].n = Amount(c)
        OBVIOUS
    <2>2. PICK m \in 1 .. p - 1 : c[m].do = "sendHeader" /\ h[i].name = c[m].name /\ h[i].n = c[m].n
        BY <1>5, <1>14, Zenon DEF NotSent
    <2>3. m \in DOMAIN c
        BY <1>3
    <2> QED
        BY <1>3, <2>2, <2>3 DEF FitsReply
<1>25. /\ ValuesIn(h, "Transfer-Encoding") = {} /\ ValuesIn(h, "Content-Length") \subseteq {Amount(c)}
       /\ Unknown \in Says(c) => ValuesIn(h, "Content-Length") = {}
    <2>1. h \in Seq(Headers) /\ DOMAIN h = 1 .. Len(h)
        BY LenProperties
    <2>2. \A v \in ValuesIn(h, "Transfer-Encoding") : FALSE
        <3>1. {i \in DOMAIN h : h[i].is = "header" /\ h[i].name = "Transfer-Encoding"} = {}
            BY <1>24
        <3> QED
            BY <3>1 DEF ValuesIn
    <2>3. \A v \in ValuesIn(h, "Content-Length") : v = Amount(c) /\ Unknown \notin Says(c)
        BY <1>24 DEF ValuesIn
    <2> QED
        BY <2>2, <2>3
<1>26. /\ contentLength = Unknown => Unknown \in Says(c) /\ p # Len(c)
       /\ contentLength # Unknown => size = Amount(c)
    BY <1>3, <1>5, <1>6, <1>7, LengthIs DEF NotSet, Unknown
<1>27. asChunk <=> ValuesIn(w, "Transfer-Encoding") # {}
    <2>1. asChunk <=> has /\ x.name = "Transfer-Encoding"
        BY <1>9, <1>11, <1>12
    <2>2. ValuesIn(w, "Transfer-Encoding")
          = ValuesIn(h, "Transfer-Encoding") \cup (IF has /\ x.name = "Transfer-Encoding" THEN {x.n} ELSE {})
        BY <1>23
    <2> QED
        BY <1>25, <2>1, <2>2
<1>28. /\ asChunk => ValuesIn(w, "Content-Length") = {} /\ Unknown \in Says(c) /\ p # Len(c)
       /\ ValuesIn(w, "Content-Length") \subseteq {Amount(c)}
    <2>1. ValuesIn(w, "Content-Length")
          = ValuesIn(h, "Content-Length") \cup (IF has /\ x.name = "Content-Length" THEN {x.n} ELSE {})
        BY <1>23
    <2>2. x.name = "Content-Length" => contentLength # Unknown /\ x.n = Amount(c)
        BY <1>11, <1>26
    <2>3. asChunk => contentLength = Unknown /\ x.name # "Content-Length"
        BY <1>11, <1>12
    <2> QED
        BY <1>25, <1>26, <2>1, <2>2, <2>3
<1>29. Sets(c, "Content-Encoding", Len(c)) => ValuesIn(w, "Content-Encoding") # {}
    <2>1. SUFFICES ASSUME Sets(c, "Content-Encoding", Len(c)) PROVE ValuesIn(w, "Content-Encoding") # {}
        OBVIOUS
    <2>2. PICK m \in 1 .. Len(c) : c[m].do = "sendHeader" /\ c[m].name = "Content-Encoding"
        BY <2>1 DEF Sets
    <2>3. m \in 1 .. p - 1
        <3>1. m # p /\ ~(m > p)
            BY <1>3, <2>2 DEF SendsAt
        <3> QED
            BY <1>3, <3>1
    <2>4. PICK i \in DOMAIN h : h[i].name = "Content-Encoding"
        <3>1. \E i \in DOMAIN responseHeaders : responseHeaders[i].name = c[m].name
            BY <1>5, <2>2, <2>3, Zenon DEF NotSent
        <3> QED
            BY <1>14, <2>2, <3>1
    <2>5. h[i].is = "header"
        BY HeadersOnly, LenProperties DEF Headers
    <2>6. h[i].n \in ValuesIn(h, "Content-Encoding")
        BY <2>4, <2>5 DEF ValuesIn
    <2>7. ValuesIn(h, "Content-Encoding") \subseteq ValuesIn(w, "Content-Encoding")
        BY <1>23
    <2> QED
        BY <2>6, <2>7
<1>30. PICK k : k = p + 1 /\ k - 1 = p /\ ~(k <= p) /\ (k = Len(c) + 1 => p = Len(c))
    BY <1>3
<1>31. meant'.n = n /\ meant'.packed = meant.packed /\ meant' \in [n : Int, packed : BOOLEAN]
    <2>1. meant.n = 0
        BY <1>5 DEF NotSent
    <2> QED
        BY <1>10, <1>13, <2>1
<1>32. Sums(Gives(c))[k - 1] = n
    BY <1>3, <1>6, <1>30, NothingBeforeSend
<1>33. SentUpTo(c, k)'
    <2>1. served' = served /\ chunked' = asChunk
        BY <1>12, <1>13 DEF KeepsPlace
    <2>2. asChunk => k # Len(c) + 1
        BY <1>28, <1>30
    <2> QED
        BY <1>13, <1>21, <1>23, <1>27, <1>28, <1>29, <1>31, <1>32, <2>1, <2>2, Zenon DEF SentUpTo, Sent
<1>34. ReplyTypes'
    <2>1. responseHeaders' \in Seq(Headers)
        BY <1>13, EmptySeq
    <2>2. served' = served
        BY <1>13 DEF KeepsPlace
    <2> QED
        BY <1>10, <1>12, <1>13, <1>21, <1>23, <1>31, <2>1, <2>2, Zenon DEF ReplyTypes
<1> QED
    BY <1>2, <1>4, <1>13, <1>30, <1>31, <1>33, <1>34, NextCall

(* One more piece of the body.                                                *)
LEMMA SentMore ==
    ASSUME NEW c, FitsReply(c), NEW j \in 1 .. Len(c), NEW w \in Seq(Items), NEW by, NEW asChunk \in BOOLEAN,
           NEW m \in Int, Sent(w, by, asChunk, m, c, j),
           NEW n \in Int, Gives(c)[j] = n, asChunk => (n = 0 <=> j = Len(c)),
           NEW x \in Items, x.is = PieceOf(asChunk), asChunk => x.n = n, NEW v, OneMore(v, w, x)
    PROVE  Sent(v, by, asChunk, m + n, c, j + 1)
<1>1. /\ x.is \in {"chunk", "bytes"} /\ x.is # "header"
    BY DEF PieceOf
<1>2. v \in Seq(Items) /\ Len(c) \in Nat
    BY CallsAre DEF OneMore
<1>3. ASSUME NEW name PROVE ValuesIn(v, name) = ValuesIn(w, name)
    <2>1. ValuesIn(v, name) = ValuesIn(w, name) \cup (IF x.is = "header" /\ x.name = name THEN {x.n} ELSE {})
        BY Zenon DEF OneMore
    <2>2. (IF x.is = "header" /\ x.name = name THEN {x.n} ELSE {}) = {}
        BY <1>1, Zenon
    <2> QED
        BY <2>1, <2>2, Zenon
<1>4. Framed(v, by, asChunk)
    BY FramedMore DEF Sent
<1>6. PICK k : k = j + 1 /\ k - 1 = j /\ (k = Len(c) + 1 <=> j = Len(c)) /\ j # Len(c) + 1
    BY <1>2
<1>7. Sums(Gives(c))[k - 1] = m + n
    <2>1. Sums(Gives(c))[j] = Sums(Gives(c))[j - 1] + Gives(c)[j]
        BY CallsAre
    <2>2. m = Sums(Gives(c))[j - 1]
        BY DEF Sent
    <2> QED
        BY <1>6, <2>1, <2>2
<1>8. asChunk =>
        /\ \A i \in DOMAIN v : v[i].is = "chunk" => (v[i].n = 0 <=> i = Len(v) /\ k = Len(c) + 1)
        /\ v[Len(v)].is = "chunk"
    <2>1. SUFFICES ASSUME asChunk
          PROVE  /\ \A i \in DOMAIN v : v[i].is = "chunk" => (v[i].n = 0 <=> i = Len(v) /\ k = Len(c) + 1)
                 /\ v[Len(v)].is = "chunk"
        OBVIOUS
    <2>2. /\ Len(w) \in Nat /\ Len(v) = Len(w) + 1 /\ DOMAIN v = 1 .. Len(v) /\ DOMAIN w = 1 .. Len(w)
          /\ v[Len(v)] = x /\ \A i \in 1 .. Len(w) : v[i] = w[i]
        BY <1>2, LenProperties DEF OneMore
    <2>3. \A i \in DOMAIN v : i = Len(v) \/ (i # Len(v) /\ i \in DOMAIN w /\ v[i] = w[i])
        BY <2>2
    <2>4. x.is = "chunk" /\ (x.n = 0 <=> k = Len(c) + 1)
        BY <1>6, <2>1 DEF PieceOf
    <2>5. \A i \in DOMAIN w : w[i].is = "chunk" => w[i].n # 0
        BY <1>6, <2>1 DEF Sent
    <2> QED
        BY <2>2, <2>3, <2>4, <2>5, Zenon
<1>9. /\ asChunk <=> ValuesIn(v, "Transfer-Encoding") # {}
      /\ asChunk => Unknown \in Says(c) /\ ValuesIn(v, "Content-Length") = {}
      /\ ~asChunk => ValuesIn(v, "Content-Length") \subseteq {Amount(c)}
      /\ Sets(c, "Content-Encoding", Len(c)) => ValuesIn(v, "Content-Encoding") # {}
    BY <1>3, Zenon DEF Sent
<1>10. Sent(v, by, asChunk, m + n, c, k)
    BY <1>4, <1>7, <1>8, <1>9, Zenon DEF Sent
<1> QED
    BY <1>6, <1>10, Zenon

(* What a content adds to what the handler gave.                              *)
LEMMA MoreMeant ==
    ASSUME NEW old \in [n : Int, packed : BOOLEAN], NEW n \in Int,
           NEW new, new = [old EXCEPT !.n = @ + n]
    PROVE  new.n = old.n + n /\ new.packed = old.packed /\ new \in [n : Int, packed : BOOLEAN]
OBVIOUS

LEMMA HeadIsInt ==
    ASSUME ReplyInv, NEW do, Calls(do)
    PROVE  Head(calls).n \in Int
<1>1. PICK c : \E p \in DOMAIN c : \E j \in 1 .. Len(c) : Makes(c, j, p, do)
    BY AtCall
<1>2. PICK p \in DOMAIN c, j \in 1 .. Len(c) : Makes(c, j, p, do)
    BY <1>1
<1>3. c[j] = Head(calls) /\ c[j] \in CallRecord
    BY <1>2, CallsAre DEF Makes
<1> QED
    BY <1>3 DEF CallRecord

(* sendContent() and streamFile()'s loop, which is to write what it was given *)
(* but may write another number of bytes.                                     *)
LEMMA ContentStep ==
    ASSUME ReplyInv, NEW do \in {"sendContent", "write"}, Calls(do), KeepsPlace,
           NEW asChunk \in BOOLEAN, asChunk = (IF do = "write" THEN FALSE ELSE chunked),
           NEW out \in Int, do = "sendContent" => out = Head(calls).n,
           wire' = wire \o Content(out, asChunk), MeantToo(Head(calls).n),
           broken' = (broken \/ out # Head(calls).n),
           UNCHANGED <<responseHeaders, contentLength, chunked>>
    PROVE  ReplyInv'
<1>1. PICK c : \E p \in DOMAIN c : \E j \in 1 .. Len(c) : Makes(c, j, p, do)
    BY AtCall
<1>2. PICK p \in DOMAIN c, j \in 1 .. Len(c) : Makes(c, j, p, do)
    BY <1>1
<1>3. /\ FitsReply(c) /\ SendsAt(c, p) /\ c[j] = Head(calls) /\ c[j].do = do
      /\ c[j] \in CallRecord /\ Len(c) \in Nat /\ DOMAIN c = 1 .. Len(c)
    BY <1>2, CallsAre DEF Makes
<1>4. j > p
    <2>1. j # p /\ ~(j < p)
        BY <1>3 DEF SendsAt
    <2> QED
        BY <1>3, <2>1
<1>5. /\ responseHeaders = <<>> /\ Sent(wire, served, chunked, meant.n, c, j)
      /\ broken \/ SizeOf(wire) = meant.n
    <2>1. ~(j <= p)
        BY <1>3, <1>4
    <2> QED
        BY <1>2, <2>1 DEF Makes, SentUpTo
<1>6. PICK n \in Int : n = c[j].n
    BY <1>3 DEF CallRecord
<1>7. /\ served \in Nat /\ responseHeaders \in Seq(Headers) /\ contentLength \in Int /\ chunked \in BOOLEAN
      /\ meant \in [n : Int, packed : BOOLEAN] /\ wire \in Seq(Items) /\ broken \in BOOLEAN
    BY DEF ReplyInv, ReplyTypes
<1>8. chunked => do = "sendContent" /\ (n = 0 <=> j = Len(c))
    <2>1. SUFFICES ASSUME chunked PROVE do = "sendContent" /\ (n = 0 <=> j = Len(c))
        OBVIOUS
    <2>2. Unknown \in Says(c)
        BY <1>5, <2>1 DEF Sent
    <2>3. j \in p + 1 .. Len(c)
        BY <1>3, <1>4
    <2>4. \A i \in p + 1 .. Len(c) : c[i].do = "sendContent" /\ (c[i].n = 0 <=> i = Len(c))
        BY <1>3, <2>2 DEF SendsAt
    <2> QED
        BY <1>3, <1>6, <2>3, <2>4
<1>9. asChunk = chunked
    BY <1>7, <1>8
<1>10. PICK x : x = Piece(PieceOf(asChunk), out)
    OBVIOUS
<1>11. x \in Items /\ x.is = PieceOf(asChunk) /\ x.n = out
    <2>1. PieceOf(asChunk) \in {"chunk", "bytes"}
        BY DEF PieceOf
    <2> QED
        BY <1>10, <2>1 DEF Piece, Pieces, Items
<1>12. PICK v, w : v = wire' /\ w = wire
    OBVIOUS
<1>13. OneMore(v, w, x)
    <2>1. v = w \o <<x>>
        <3>1. Content(out, asChunk) = <<x>>
            BY <1>10 DEF Content, PieceOf
        <3> QED
            BY <1>12, <3>1, Zenon
    <2> QED
        BY <1>7, <1>11, <1>12, <2>1, OneMoreItem
<1>14. PICK m \in Int : m = meant.n
    BY <1>7
<1>15. meant'.n = m + n /\ meant'.packed = meant.packed /\ meant' \in [n : Int, packed : BOOLEAN]
    <2>1. meant' = [meant EXCEPT !.n = @ + n]
        BY <1>3, <1>6, Zenon DEF MeantToo
    <2>2. PICK old \in [n : Int, packed : BOOLEAN] : old = meant
        BY <1>7, Zenon
    <2> PICK new : new = meant'
        OBVIOUS
    <2>3. new = [old EXCEPT !.n = @ + n]
        BY <2>1, <2>2, Zenon
    <2>4. new.n = old.n + n /\ new.packed = old.packed /\ new \in [n : Int, packed : BOOLEAN]
        BY <2>3, MoreMeant
    <2> QED
        BY <1>14, <2>2, <2>4, Zenon
<1>16. Sent(w, served, asChunk, m, c, j)
    BY <1>5, <1>9, <1>12, <1>14
<1>17. Gives(c)[j] = n
    <2>1. Gives(c)[j] = IF c[j].do \in {"send", "sendContent", "write"} THEN c[j].n ELSE 0
        BY <1>3, CallsAre
    <2> QED
        BY <1>3, <1>6, <2>1
<1>18. asChunk => (n = 0 <=> j = Len(c))
    BY <1>8, <1>9
<1>19. w \in Seq(Items)
    BY <1>7, <1>12
<1>20. /\ Sent(v, served, asChunk, m + n, c, j + 1)
       /\ out = n /\ SizeOf(w) = m => SizeOf(v) = m + n
    <2>1. asChunk => x.n = n
        <3>1. Head(calls).n = n
            BY <1>3, <1>6, Zenon
        <3>2. asChunk => out = Head(calls).n
            BY <1>8, <1>9, Zenon
        <3> QED
            BY <1>11, <3>1, <3>2, Zenon
    <2>2. x.is = PieceOf(asChunk) /\ x.n = out /\ FitsReply(c) /\ x \in Items
        BY <1>3, <1>11, Zenon
    <2>3. Sent(v, served, asChunk, m + n, c, j + 1)
        BY <1>13, <1>16, <1>17, <1>18, <1>19, <2>1, <2>2, SentMore
    <2>4. SizeOf(v) = SizeOf(w) + (IF x.is \in {"chunk", "bytes"} THEN x.n ELSE 0)
        BY <1>13, Zenon DEF OneMore
    <2>5. x.is \in {"chunk", "bytes"}
        BY <2>2 DEF PieceOf
    <2> QED
        BY <2>2, <2>3, <2>4, <2>5, Zenon
<1>21. PICK k : k = j + 1 /\ ~(k <= p)
    BY <1>3, <1>4
<1>22. SentUpTo(c, k)'
    <2>1. served' = served /\ chunked' = asChunk /\ responseHeaders' = <<>>
        BY <1>5, <1>9 DEF KeepsPlace
    <2>2. Sent(wire', served', chunked', meant'.n, c, k)
        BY <1>12, <1>15, <1>20, <1>21, <2>1, Zenon
    <2>3. broken' \/ SizeOf(wire') = meant'.n
        <3>1. SUFFICES ASSUME ~broken' PROVE SizeOf(wire') = meant'.n
            BY Zenon
        <3>2. ~broken /\ out = Head(calls).n
            BY <3>1, Zenon
        <3>3. Head(calls).n = n
            BY <1>3, <1>6, Zenon
        <3>4. SizeOf(w) = m
            BY <1>5, <1>12, <1>14, <3>2, Zenon
        <3> QED
            BY <1>12, <1>15, <1>20, <3>2, <3>3, <3>4, Zenon
    <2> QED
        BY <2>1, <2>2, <2>3, Zenon DEF SentUpTo
<1>23. ReplyTypes'
    <2>1. v \in Seq(Items)
        BY <1>13 DEF OneMore
    <2>2. broken' \in BOOLEAN
        OBVIOUS
    <2> QED
        BY <1>7, <1>12, <1>15, <2>1, <2>2, Zenon DEF ReplyTypes, KeepsPlace
<1>24. rpc = "calls"
    BY DEF Calls
<1> QED
    BY <1>2, <1>15, <1>21, <1>22, <1>23, <1>24, NextCall

LEMMA SendContentStep == ReplyInv /\ SendContent => ReplyInv'
<1> SUFFICES ASSUME ReplyInv, SendContent PROVE ReplyInv'
    OBVIOUS
<1>1. PICK asChunk \in BOOLEAN : asChunk = chunked
    BY DEF ReplyInv, ReplyTypes
<1>2. PICK do \in {"sendContent", "write"} : do = "sendContent"
    OBVIOUS
<1>3. PICK out \in Int : out = Head(calls).n
    BY HeadIsInt DEF SendContent
<1>4. /\ Calls(do) /\ KeepsPlace /\ MeantToo(Head(calls).n)
      /\ wire' = wire \o Content(out, asChunk)
      /\ UNCHANGED <<responseHeaders, contentLength, chunked, broken>>
    BY <1>1, <1>2, <1>3 DEF SendContent
<1>5. asChunk = (IF do = "write" THEN FALSE ELSE chunked)
    BY <1>1, <1>2
<1>6. broken' = (broken \/ out # Head(calls).n)
    BY <1>3, <1>4 DEF ReplyInv, ReplyTypes
<1> QED
    BY <1>3, <1>4, <1>5, <1>6, ContentStep

LEMMA FileOutStep ==
    ASSUME ReplyInv, Calls("write"), NEW out \in Int, FileOut(out)
    PROVE  ReplyInv'
<1>1. PICK asChunk \in BOOLEAN : asChunk = FALSE
    OBVIOUS
<1>2. PICK do \in {"sendContent", "write"} : do = "write"
    OBVIOUS
<1>3. /\ Calls(do) /\ KeepsPlace /\ MeantToo(Head(calls).n)
      /\ wire' = wire \o Content(out, asChunk)
      /\ UNCHANGED <<responseHeaders, contentLength, chunked>>
      /\ broken' = (broken \/ out # Head(calls).n)
    BY <1>1, <1>2, Zenon DEF FileOut
<1>4. asChunk = (IF do = "write" THEN FALSE ELSE chunked)
    BY <1>1, <1>2
<1>5. do # "sendContent"
    BY <1>2
<1> QED
    BY <1>3, <1>4, <1>5, ContentStep

LEMMA WriteFileStep == ReplyInv /\ (WriteFile \/ WriteAgain \/ WriteStops) => ReplyInv'
<1> SUFFICES ASSUME ReplyInv, WriteFile \/ WriteAgain \/ WriteStops PROVE ReplyInv'
    OBVIOUS
<1>1. Calls("write")
    BY Zenon DEF WriteFile, WriteAgain, WriteStops
<1>2. PICK n \in Int : n = Head(calls).n
    BY <1>1, HeadIsInt
<1>3. \E out \in Int : FileOut(out)
    <2>1. n + 1 .. 2 * n \subseteq Int /\ 0 .. n - 1 \subseteq Int
        OBVIOUS
    <2> QED
        BY <1>2, <2>1, Zenon DEF WriteFile, WriteAgain, WriteStops
<1> QED
    BY <1>1, <1>3, FileOutStep

(* All calls are made, so all that the handler gave is out.                   *)
LEMMA HandlerReturnsStep == ReplyInv /\ HandlerReturns => ReplyInv'
<1> SUFFICES ASSUME ReplyInv, HandlerReturns PROVE ReplyInv'
    OBVIOUS
<1>1. /\ UNCHANGED <<served, request, stored, calls, responseHeaders, contentLength, chunked, wire, meant, broken>>
      /\ rpc' = "done"
    BY DEF HandlerReturns
<1>2. PICK c : \E p \in DOMAIN c : \E j \in 1 .. Len(c) + 1 : Calling(c, j, p)
    BY DEF ReplyInv, HandlerReturns
<1>3. PICK p \in DOMAIN c, j \in 1 .. Len(c) + 1 : Calling(c, j, p)
    BY <1>2
<1>4. FitsReply(c) /\ calls = SubSeq(c, j, Len(c)) /\ calls = <<>>
    BY <1>3, Zenon DEF Calling, HandlerReturns
<1>5. j = Len(c) + 1
    BY <1>4, CallsFrom
<1>6. Len(c) \in Nat /\ DOMAIN c = 1 .. Len(c) /\ Amount(c) = Sums(Gives(c))[Len(c)]
    BY <1>4, CallsAre
<1>7. ~(j <= p) /\ j - 1 = Len(c)
    BY <1>5, <1>6
<1>8. SentUpTo(c, j) /\ ((meant.packed /\ FileType[Path] = "known") => Sets(c, "Content-Encoding", Len(c)))
    BY <1>3, <1>7, Zenon DEF Calling
<1>9. meant.n = Amount(c)
    BY <1>6, <1>7, <1>8 DEF SentUpTo, Sent
<1>10. \A name : Valued(name)' = ValuesIn(wire, name)
    BY <1>1 DEF Valued, ValuesIn
<1>11. InChunks' <=> chunked
    BY <1>8, <1>10 DEF SentUpTo, Sent, InChunks
<1>12. ~broken' => BodySize' = meant'.n
    BY <1>1, <1>8, Zenon DEF BodySize, SentUpTo, SizeOf
<1>13. WellFramed'
    <2>1. PICK b \in DOMAIN wire : /\ wire[b].is = "blank"
                                   /\ \A i \in 1 .. b - 1 : wire[i].is = "header" /\ wire[i].by = served
                                   /\ \A i \in b + 1 .. Len(wire) : wire[i].is = PieceOf(chunked)
        BY <1>8 DEF SentUpTo, Sent, Framed
    <2>2. PieceOf(chunked) = IF InChunks' THEN "chunk" ELSE "bytes"
        BY <1>11 DEF PieceOf
    <2> QED
        BY <1>1, <2>1, <2>2, Zenon DEF WellFramed
<1>14. chunked => EndsInTime' /\ Valued("Content-Length")' = {}
    <2>1. chunked => /\ ValuesIn(wire, "Content-Length") = {}
                     /\ \A i \in DOMAIN wire : wire[i].is = "chunk" => (wire[i].n = 0 <=> i = Len(wire))
                     /\ wire[Len(wire)].is = "chunk"
        BY <1>5, <1>8, Zenon DEF SentUpTo, Sent
    <2> QED
        BY <1>1, <1>10, <2>1, Zenon DEF EndsInTime
<1>15. ~chunked => Valued("Content-Length")' \subseteq {meant'.n}
    BY <1>1, <1>8, <1>9, <1>10 DEF SentUpTo, Sent
<1>16. (meant'.packed /\ FileType[Path'] = "known") => Valued("Content-Encoding")' # {}
    BY <1>1, <1>8, <1>10 DEF SentUpTo, Sent, Path
<1>17. ReplyReadsBack'
    BY <1>11, <1>12, <1>13, <1>14, <1>15, <1>16, Zenon DEF ReplyReadsBack
<1>18. ReplyTypes' /\ responseHeaders' = <<>>
    BY <1>1, <1>8, Zenon DEF ReplyInv, ReplyTypes, SentUpTo
<1> QED
    BY <1>1, <1>17, <1>18 DEF ReplyInv

LEMMA ReplyStep == ReplyInv /\ [ReplyNext]_replyVars => ReplyInv'
<1> SUFFICES ASSUME ReplyInv, [ReplyNext]_replyVars PROVE ReplyInv'
    OBVIOUS
<1>1. CASE UNCHANGED replyVars
    <2>1. /\ served' = served /\ request' = request /\ rpc' = rpc /\ calls' = calls
          /\ responseHeaders' = responseHeaders /\ contentLength' = contentLength
          /\ chunked' = chunked /\ wire' = wire /\ meant' = meant /\ broken' = broken
        BY <1>1, Zenon DEF replyVars
    <2>2. Path' = Path
        BY <2>1, Zenon DEF Path
    <2>3. \A c : \A p \in DOMAIN c : \A j \in 1 .. Len(c) + 1 : Calling(c, j, p) => Calling(c, j, p)'
        <3> SUFFICES ASSUME NEW c, NEW p \in DOMAIN c, NEW j \in 1 .. Len(c) + 1, Calling(c, j, p)
                     PROVE  Calling(c, j, p)'
            BY Zenon
        <3>1. NotSent(c, j) => NotSent(c, j)'
            BY <2>1, Zenon DEF NotSent
        <3>2. SentUpTo(c, j) => SentUpTo(c, j)'
            BY <2>1, Zenon DEF SentUpTo
        <3>3. CASE j <= p
            BY <2>1, <2>2, <3>1, <3>3, Zenon DEF Calling
        <3>4. CASE ~(j <= p)
            BY <2>1, <2>2, <3>2, <3>4, Zenon DEF Calling
        <3> QED
            BY <3>3, <3>4
    <2>4. \A name : Valued(name)' = Valued(name)
        BY <2>1, Zenon DEF Valued
    <2>5. /\ BodySize' = BodySize /\ (InChunks' <=> InChunks) /\ (EndsInTime' <=> EndsInTime)
          /\ (WellFramed' <=> WellFramed)
        BY <2>1, <2>4, Zenon DEF BodySize, InChunks, EndsInTime, WellFramed
    <2>6. ReplyReadsBack'
        <3>1. ReplyReadsBack
            BY Zenon DEF ReplyInv
        <3> QED
            BY <2>1, <2>2, <2>4, <2>5, <3>1, Zenon DEF ReplyReadsBack
    <2>7. ReplyTypes'
        BY <2>1, Zenon DEF ReplyInv, ReplyTypes
    <2>8. rpc' = "calls" => \E c : \E p \in DOMAIN c : \E j \in 1 .. Len(c) + 1 : Calling(c, j, p)'
        BY <2>1, <2>3, Zenon DEF ReplyInv
    <2> QED
        BY <2>1, <2>6, <2>7, <2>8, Zenon DEF ReplyInv
<1>2. CASE ReplyNext
    BY <1>2, BeginRequestStep, CallsFunctionStep, ServesFileStep, NotFoundStep, SendHeaderStep,
       SetContentLengthStep, SendStep, SendContentStep, WriteFileStep, HandlerReturnsStep DEF ReplyNext
<1> QED
    BY <1>1, <1>2

(* Whatever the handlers, the files, the requests and their number: a reply   *)
(* goes out under headers that were set for this request and no other, and    *)
(* states no length but that of what its handler gave to send(),              *)
(* sendContent() and streamFile().  A client that reads it by its length, by  *)
(* its chunks or to its end gets just that, unless streamFile() broke off or  *)
(* wrote a buffer again.                                                      *)
THEOREM RepliesReadBack == ReplySpec => []ReplyReadsBack
<1>1. ReplyInit => ReplyInv
    BY ReplyStarts
<1>2. ReplyInv /\ [ReplyNext]_replyVars => ReplyInv'
    BY ReplyStep
<1>3. ReplyInv => ReplyReadsBack
    BY DEF ReplyInv
<1> QED
    BY <1>1, <1>2, <1>3, PTL DEF ReplySpec
=============================================================================
