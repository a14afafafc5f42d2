------------------------------ MODULE HttpBody ------------------------------
(* WebServer: what a handler finds of a request's arguments and of an         *)
(* uploaded file.  The text of a query or form is a sequence of tokens: a     *)
(* letter, "&", "=", or one of the two written as an escape.  A file is a     *)
(* sequence of bytes of which only those of the delimiter are told apart.     *)
EXTENDS Integers, Sequences, SequencesExt

CONSTANTS
    Queries,      \* texts of a query
    FormTexts,    \* texts of an encoded form
    Files,        \* contents of uploaded files
    Boundary,     \* the delimiter's bytes after CR LF - -
    BufLen,       \* HTTP_UPLOAD_BUFLEN
    Slots,        \* the size of postArgs
    FormFields    \* numbers of text fields a form has

CR == "CR"   LF == "LF"   Dash == "-"
Amp == "&"   Eq == "="    EscAmp == "%26"   EscEq == "%3D"

ASSUME BodyAssumption ==
    /\ BufLen \in Nat \ {0} /\ Slots \in Nat
    /\ FormFields \subseteq Nat
    /\ <<>> \notin FormTexts
    /\ \A s \in Queries \cup FormTexts \cup Files \cup {Boundary} : s \in Seq(ToSet(s))

VARIABLES
    text,     \* the query, or the file, the peer sent
    form,     \* the encoded form it sent, empty when it sent none
    body,     \* "plain" text after the query, "encoded", "multipart", or none
    data,     \* searchStr
    pos,      \* _parseArguments: where the next argument starts
    args,     \* _currentArgs up to _currentArgCount: pairs of key and value
    room,     \* how many arguments the array holds
    coming,   \* bytes of the file's part the server has not read
    closes,   \* the peer closes after those it has sent
    byte,     \* argByte
    upload,   \* _currentUpload: buf, totalSize; history: got, what the handler was given
    bpc       \* where _parseRequest() is

textVars == <<text, form, body, data, pos, args, room>>
fileVars == <<coming, closes, byte, upload>>
bodyVars == <<textVars, fileVars, bpc>>

Delimiter == <<CR, LF, Dash, Dash>> \o Boundary
PartOf(file) == file \o Delimiter \o <<Dash, Dash, CR, LF>>
NoUpload  == [buf |-> <<>>, totalSize |-> 0, got |-> <<>>]

ArgsInit ==
    /\ text \in Queries
    /\ body \in {"none", "plain", "encoded", "multipart"}
    /\ IF body = "encoded" THEN form \in FormTexts ELSE form = <<>>
    /\ coming = <<>> /\ closes = FALSE
    /\ bpc = "decode"

(* The peer sends the whole part, or closes anywhere in it.                   *)
FileInit ==
    /\ text \in Files
    /\ body = "file" /\ form = <<>>
    /\ \/ coming = PartOf(text) /\ closes = FALSE
       \/ closes = TRUE /\ coming \in Prefixes(PartOf(text))
    /\ bpc = "first"

BodyInit ==
    /\ ArgsInit \/ FileInit
    /\ data = <<>> /\ pos = 1 /\ args = <<>> /\ room = 0
    /\ byte = "" /\ upload = NoUpload

-----------------------------------------------------------------------------
(* Arguments.                                                                 *)

(* urlDecode()                                                                *)
Decoded(s) == [i \in DOMAIN s |-> IF s[i] = EscAmp THEN Amp ELSE IF s[i] = EscEq THEN Eq ELSE s[i]]

(* String.indexOf(), 0 for -1                                                 *)
IndexFrom(s, x, from) ==
    LET at == {i \in from .. Len(s) : s[i] = x}
    IN  IF at = {} THEN 0 ELSE Min(at)

(* The "&" that joins a body to the query, also one that is not encoded.      *)
Joint == IF text # <<>> /\ body \in {"plain", "encoded"} THEN <<Amp>> ELSE <<>>

(* Query and form are decoded, the "&" are counted and the array is made.     *)
Decode ==
    /\ bpc = "decode"
    /\ data' = Decoded(text) \o Joint \o Decoded(form)
    /\ room' = IF data' = <<>> THEN 1 ELSE 2 + Cardinality({i \in DOMAIN data' : data'[i] = Amp})
    /\ bpc' = IF data' = <<>> THEN "parsed" ELSE "argument"
    /\ UNCHANGED <<text, form, body, pos, args, fileVars>>

EqAt  == IndexFrom(data, Eq, pos)
AmpAt == IndexFrom(data, Amp, pos)
GoOn  ==
    /\ bpc' = IF AmpAt = 0 THEN "parsed" ELSE "argument"
    /\ pos' = IF AmpAt = 0 THEN pos ELSE AmpAt + 1

(* No "=" before the next "&": no argument.                                   *)
NoValue ==
    /\ bpc = "argument" /\ (EqAt = 0 \/ (AmpAt # 0 /\ EqAt > AmpAt))
    /\ GoOn
    /\ UNCHANGED <<text, form, body, data, args, room, fileVars>>

WithValue ==
    /\ bpc = "argument" /\ EqAt # 0 /\ (AmpAt = 0 \/ EqAt < AmpAt)
    /\ args' = Append(args, <<SubSeq(data, pos, EqAt - 1),
                              SubSeq(data, EqAt + 1, IF AmpAt = 0 THEN Len(data) ELSE AmpAt - 1)>>)
    /\ GoOn
    /\ UNCHANGED <<text, form, body, data, room, fileVars>>

(* A body that is not encoded becomes one more argument.                      *)
PlainBody ==
    /\ bpc = "parsed" /\ body = "plain"
    /\ args' = Append(args, <<<<"plain">>, <<"body">>>>)
    /\ bpc' = "done"
    /\ UNCHANGED <<text, form, body, data, pos, room, fileVars>>

(* _parseForm(), after its last field: the fields, and as many arguments of   *)
(* the query as there is room for.                                            *)
FormBody == \E n \in FormFields :
    /\ bpc = "parsed" /\ body = "multipart" /\ n <= Slots
    /\ LET fields == [i \in 1 .. n |-> <<<<"field">>, <<i>>>>]
           more   == IF Slots - n < Len(args) THEN Slots - n ELSE Len(args)
       IN  args' = fields \o SubSeq(args, 1, more)
    /\ room' = Slots
    /\ bpc' = "done"
    /\ UNCHANGED <<text, form, body, data, pos, fileVars>>

(* A field more than there are slots is stored behind postArgs: nothing that  *)
(* happens after that is known.                                               *)
FormOverruns ==
    /\ bpc = "parsed" /\ body = "multipart"
    /\ \E n \in FormFields : n > Slots
    /\ bpc' = "overrun"
    /\ UNCHANGED <<textVars, fileVars>>

NoBody ==
    /\ bpc = "parsed" /\ body \in {"none", "encoded"}
    /\ bpc' = "done"
    /\ UNCHANGED <<textVars, fileVars>>

-----------------------------------------------------------------------------
(* Files.                                                                     *)

(* _uploadWriteByte() for one byte after the other: a full buffer goes to the *)
(* handler when there is one more byte.                                       *)
WriteBytes(u, bs) ==
    LET all  == u.buf \o bs
        full == IF all = <<>> THEN 0 ELSE BufLen * ((Len(all) - 1) \div BufLen)
    IN  [buf |-> SubSeq(all, full + 1, Len(all)), totalSize |-> u.totalSize + full,
         got |-> u.got \o SubSeq(all, 1, full)]

(* client.connected(): bytes that have arrived count as a connection.         *)
Gone == closes /\ Tail(coming) = <<>>

(* _uploadReadByte(), and the test of the connection after it.                *)
NextByte(then) ==
    /\ coming # <<>>
    /\ coming' = Tail(coming)
    /\ byte' = Head(coming)
    /\ bpc' = IF Gone THEN "aborted" ELSE then

KeepsText == UNCHANGED <<textVars, closes>>

FirstByte ==
    /\ bpc = "first"
    /\ NextByte("readfile")
    /\ UNCHANGED upload /\ KeepsText

ReadFile ==
    /\ bpc = "readfile" /\ byte # CR
    /\ NextByte("readfile")
    /\ upload' = WriteBytes(upload, <<byte>>)
    /\ KeepsText

ReadCr ==
    /\ bpc = "readfile" /\ byte = CR
    /\ NextByte("cr")
    /\ UNCHANGED upload /\ KeepsText

(* The bytes held back turn out to be part of the file.                       *)
GoesOnAfter(held) ==
    /\ upload' = WriteBytes(upload, held)
    /\ bpc' = "readfile"
    /\ UNCHANGED <<textVars, coming, closes, byte>>

NotLf ==
    /\ bpc = "cr" /\ byte # LF
    /\ GoesOnAfter(<<CR>>)

ReadLf ==
    /\ bpc = "cr" /\ byte = LF
    /\ NextByte("crlf")
    /\ UNCHANGED upload /\ KeepsText

(* Mutant: the line break held back is forgotten.                             *)
NotDash_Forgets ==
    /\ bpc = "crlf" /\ byte # Dash
    /\ GoesOnAfter(<<>>)

NotDash ==
    /\ bpc = "crlf" /\ byte # Dash
    /\ GoesOnAfter(<<CR, LF>>)

ReadDash ==
    /\ bpc = "crlf" /\ byte = Dash
    /\ NextByte("dash")
    /\ UNCHANGED upload /\ KeepsText

NotTwoDashes ==
    /\ bpc = "dash" /\ byte # Dash
    /\ GoesOnAfter(<<CR, LF, Dash>>)

(* As many bytes as the boundary has are read, or fewer after a timeout.      *)
EndLen == IF Len(coming) < Len(Boundary) THEN Len(coming) ELSE Len(Boundary)
EndBuf == SubSeq(coming, 1, EndLen)
Rest   == SubSeq(coming, EndLen + 1, Len(coming))

(* strstr() in a buffer without a terminator: unless it begins with the       *)
(* boundary, the answer depends on the memory behind it.                      *)
MayGoOn == EndBuf # Boundary

(* The peer went away where a byte was waited for.                            *)
ReadsNothing ==
    /\ closes
    /\ \/ bpc = "first" /\ coming = <<>>
       \/ bpc = "dash" /\ byte = Dash /\ MayGoOn /\ Rest = <<>>
    /\ bpc' = "aborted"
    /\ UNCHANGED <<textVars, fileVars>>

(* The last buffer is handed over, then the end is announced.                 *)
FileEnds ==
    /\ bpc = "dash" /\ byte = Dash
    /\ upload' = [upload EXCEPT !.got = @ \o upload.buf, !.totalSize = @ + Len(upload.buf)]
    /\ coming' = Rest
    /\ bpc' = "done"
    /\ UNCHANGED byte /\ KeepsText

FileGoesOn ==
    /\ bpc = "dash" /\ byte = Dash /\ MayGoOn /\ Rest # <<>>
    /\ upload' = WriteBytes(upload, <<CR, LF, Dash, Dash>> \o EndBuf)
    /\ byte' = Head(Rest)
    /\ coming' = Tail(Rest)
    /\ bpc' = IF closes /\ coming' = <<>> THEN "aborted" ELSE "readfile"
    /\ KeepsText

BodyNext ==
    \/ Decode \/ NoValue \/ WithValue \/ PlainBody \/ FormBody \/ FormOverruns \/ NoBody
    \/ FirstByte \/ ReadsNothing \/ ReadFile \/ ReadCr \/ NotLf \/ ReadLf \/ NotDash \/ ReadDash
    \/ NotTwoDashes \/ FileEnds \/ FileGoesOn

BodySpec == BodyInit /\ [][BodyNext]_bodyVars

-----------------------------------------------------------------------------
(* The reference: what an argument list means.                                *)

(* The piece of s that starts behind i and ends at an "&" or with s, and its  *)
(* first "=" as the end of its key.                                           *)
PieceAfter(s, i) ==
    LET e == IndexFrom(s, Amp, i + 1)
    IN  SubSeq(s, i + 1, IF e = 0 THEN Len(s) ELSE e - 1)

KeyValue(p) ==
    LET e == IndexFrom(p, Eq, 1)
    IN  <<Decoded(SubSeq(p, 1, e - 1)), Decoded(SubSeq(p, e + 1, Len(p)))>>

(* Where the pieces with an "=" start, and what they mean in their order.     *)
WithEq(s) == {i \in {0} \cup {j \in DOMAIN s : s[j] = Amp} : IndexFrom(PieceAfter(s, i), Eq, 1) # 0}

Before(S, i) == {j \in S : j < i}
Nth(S, k)    == CHOOSE i \in S : Cardinality(Before(S, i)) = k - 1

Meant(s) == [k \in 1 .. Cardinality(WithEq(s)) |-> KeyValue(PieceAfter(s, Nth(WithEq(s), k)))]

(* The code decodes before it cuts (Parsing.cpp 94, 189): only a text without *)
(* an escaped "&" or "=" is read as meant.                                    *)
CutAsWritten == {EscAmp, EscEq} \cap ToSet(text \o form) = {}

(* A query and a form, as one text.                                           *)
Whole == IF form = <<>> THEN text ELSE IF text = <<>> THEN form ELSE text \o <<Amp>> \o form

(* A file that holds no CR LF - - is not taken for its own end (469-539).     *)
NoFalseEnd(file) ==
    \A i \in 1 .. Len(file) - 3 : SubSeq(file, i, i + 3) # <<CR, LF, Dash, Dash>>

(* A handler finds the arguments the text means, in its order: those of the   *)
(* query and then those of an encoded form, or after the fields of a          *)
(* multipart form that has no more than fit, as many as still fit (178-209,   *)
(* 268-341, 546-560); and an upload that ends has given it the whole file and *)
(* its size (343-351, 463-539), however the file's line breaks and dashes lie *)
(* across buffers and wherever the peer may leave.  Of a form with more       *)
(* fields it says nothing: they are stored without a test (441).              *)
BodyAsSent ==
    /\ (bpc = "done" /\ body # "file") =>
        /\ Len(args) <= room
        /\ (CutAsWritten /\ body \in {"none", "encoded"}) => args = Meant(Whole)
        /\ (CutAsWritten /\ body = "plain") => Front(args) = Meant(text)
        /\ (CutAsWritten /\ body = "multipart") =>
             \E n \in FormFields :
                 /\ n <= Slots
                 /\ Len(args) = Min({Slots, n + Len(Meant(text))})
                 /\ IsPrefix(SubSeq(args, n + 1, Len(args)), Meant(text))
    /\ (bpc = "done" /\ body = "file" /\ NoFalseEnd(text)) =>
        /\ upload.got = text
        /\ upload.totalSize = Len(text)
=============================================================================
