----------------------------- MODULE MqttProofs -----------------------------
(* PubSubClient on the wire, for packets of any length, any message ids, buffer *)
(* and calls of the client from within the callback: that a packet says on the *)
(* wire what was asked for and the reader finds the next one; that the client *)
(* acknowledges what it handed to the callback; that requests carry the server, *)
(* the strings and the ids they were made with, inside the buffer.            *)
EXTENDS MqttPacket, MqttSession, FiniteSetTheorems, SequenceTheorems, TLAPS

(* What the length field is to hold; beginPublish cuts it to its width.       *)
Coded == IF op = "beginPublish" THEN Body % Word ELSE Body

(* The digits of a length that a uint16_t holds, and its length field.        *)
Low(b)  == b % 128
Mid(b)  == (b \div 128) % 128
High(b) == b \div 16384

Code(b) ==
    IF Mid(b) = 0 /\ High(b) = 0 THEN <<Low(b)>>
    ELSE IF High(b) = 0 THEN <<Low(b) + 128, Mid(b)>>
    ELSE <<Low(b) + 128, Mid(b) + 128, High(b)>>

(* The digits put so far, and what is left.                                   *)
Partial(b) ==
    \/ digits = <<>> /\ rest = b
    \/ digits = <<Low(b) + 128>> /\ rest = Mid(b) + 128 * High(b) /\ rest > 0
    \/ digits = <<Low(b) + 128, Mid(b) + 128>> /\ rest = High(b) /\ rest > 0

PacketType ==
    /\ op \in Writers \cup {"receive", "garbled"}
    /\ tl \in TopicLens /\ pl \in PayloadLens
    /\ idlen \in {0, 2} /\ (op # "receive" => idlen = 0)
    /\ stream \in BOOLEAN
    /\ digits \in Seq(Nat) /\ rest \in Nat
    /\ op \in Writers => ppc \in {"call", "encode", "write", "done"}
    /\ op = "receive" => ppc \in {"call", "encode", "read", "digit", "body", "done", "closed"}
    /\ op = "garbled" => ppc \in {"digit", "closed"}

WriteInv ==
    /\ ppc = "call" => digits = <<>> /\ ret = FALSE
    /\ ppc = "encode" /\ Coded < Word => Partial(Coded)
    /\ ppc \in {"write", "read"} => digits # <<>>
    /\ op # "garbled" /\ ppc \in {"write", "read", "digit", "body"} /\ Coded < Word
       => digits = Code(Coded)
    /\ op = "publish" /\ ppc \in {"encode", "write"} => HeaderMax + Body <= MaxPacket

(* The digits read so far of the length field of b.                           *)
ReadSoFar(b) ==
    /\ len \in 1 .. Len(digits)
    /\ len = 1 => length = 0 /\ weight = 1
    /\ len = 2 => length = Low(b) /\ weight = 128
    /\ len = 3 => length = Low(b) + 128 * Mid(b) /\ weight = 16384

(* readPacket's state for a packet whose length fits.                         *)
ReadInv ==
    op = "receive" /\ Body < Word =>
        /\ ppc \in {"call", "encode", "read"} => length = 0 /\ weight = 1
        /\ ppc = "digit" => ReadSoFar(Body) /\ eaten = len
        /\ ppc = "body" => length = Body /\ len = 1 + Len(digits) /\ eaten = 1 + Len(digits)

(* readPacket's state for a length field without an end.                      *)
GarbledInv ==
    op = "garbled" =>
        /\ digits = <<128, 128, 128, 128, 1>>
        /\ len \in Nat /\ eaten <= 5 /\ (ppc = "digit" => len \in 1 .. 5 /\ eaten = len)

(* What a call says, and what readPacket hands over, at its end.              *)
SaidInv ==
    (op \in Writers /\ ppc = "done" /\ (op = "publish_P" => Body < Base)) =>
        (ret <=> (digits # <<>> /\ taken = Given))

HandedInv ==
    op = "receive" /\ ppc = "done" =>
        /\ Body < Word => eaten = 1 + Len(digits) + Body
        /\ HeaderLength + Body < Word =>
             /\ CallbackRuns <=> (stream \/ HeaderLength + Body <= MaxPacket)
             /\ CallbackRuns => CallbackLen = pl
             /\ stream => Streamed = pl

PacketInv == PacketType /\ WriteInv /\ ReadInv /\ GarbledInv /\ SaidInv /\ HandedInv

-----------------------------------------------------------------------------
(* The three digits make up the length, and division takes them apart.        *)
LEMMA DigitArith ==
    ASSUME NEW b \in Nat, b < Word
    PROVE  /\ Low(b) \in 0 .. 127 /\ Mid(b) \in 0 .. 127 /\ High(b) \in 0 .. 3
           /\ b = Low(b) + 128 * (Mid(b) + 128 * High(b))
           /\ b \div 128 = Mid(b) + 128 * High(b)
<1>1. Low(b) \in 0 .. 127
    BY SMT DEF Low, Word
<1>2. Mid(b) \in 0 .. 127
  <2>1. b \div 128 \in Nat
    BY SMT DEF Word
  <2> QED
    BY <2>1, SMT DEF Mid
<1>3. High(b) \in 0 .. 3
    BY SMT DEF High, Word
<1>4. b = Low(b) + 128 * (Mid(b) + 128 * High(b))
    BY SMT DEF Low, Mid, High, Word
<1>5. b \div 128 = Mid(b) + 128 * High(b)
    BY SMT DEF Mid, High, Word
<1> QED
    BY <1>1, <1>2, <1>3, <1>4, <1>5, SMT

LEMMA RestArith ==
    ASSUME NEW y \in 0 .. 127, NEW z \in 0 .. 3
    PROVE  /\ (y + 128 * z) % 128 = y /\ (y + 128 * z) \div 128 = z
           /\ z % 128 = z /\ z \div 128 = 0
<1>1. (y + 128 * z) % 128 = y
    BY SMT
<1>2. (y + 128 * z) \div 128 = z
    BY SMT
<1>3. z % 128 = z /\ z \div 128 = 0
    BY SMT
<1> QED
    BY <1>1, <1>2, <1>3

(* The three lengths of a length field, digit by digit.                       *)
LEMMA CodeFacts ==
    ASSUME NEW b \in Nat, b < Word
    PROVE  /\ Code(b) \in Seq(Nat) /\ Len(Code(b)) \in 1 .. 3
           /\ DOMAIN Code(b) = 1 .. Len(Code(b)) /\ Code(b) # <<>>
           /\ Mid(b) = 0 /\ High(b) = 0 => Len(Code(b)) = 1 /\ Code(b)[1] = Low(b)
           /\ ~(Mid(b) = 0 /\ High(b) = 0) => Code(b)[1] = Low(b) + 128 /\ Len(Code(b)) > 1
           /\ Mid(b) # 0 /\ High(b) = 0 => Len(Code(b)) = 2 /\ Code(b)[2] = Mid(b)
           /\ High(b) # 0 => Len(Code(b)) = 3 /\ Code(b)[2] = Mid(b) + 128 /\ Code(b)[3] = High(b)
<1>1. PICK x \in 0 .. 127, y \in 0 .. 127, z \in 0 .. 3 : x = Low(b) /\ y = Mid(b) /\ z = High(b)
    BY DigitArith
<1>2. CASE y = 0 /\ z = 0
  <2>1. Code(b) = <<x>>
    BY <1>1, <1>2 DEF Code
  <2> QED
    BY <1>1, <1>2, <2>1
<1>3. CASE y # 0 /\ z = 0
  <2>1. Code(b) = <<x + 128, y>>
    BY <1>1, <1>3 DEF Code
  <2> QED
    BY <1>1, <1>3, <2>1
<1>4. CASE z # 0
  <2>1. Code(b) = <<x + 128, y + 128, z>>
    BY <1>1, <1>4 DEF Code
  <2> QED
    BY <1>1, <1>4, <2>1
<1> QED
    BY <1>2, <1>3, <1>4

(* A complete length field is well formed and announces what it codes.        *)
LEMMA CodeIsRead ==
    ASSUME NEW b \in Nat, b < Word, digits = Code(b)
    PROVE  WellFormed /\ Announced = b
<1> DEFINE digit(i) == IF i \in DOMAIN digits THEN Value(digits[i]) ELSE 0
<1>0. PICK x \in 0 .. 127, y \in 0 .. 127, z \in 0 .. 3 : x = Low(b) /\ y = Mid(b) /\ z = High(b)
    BY DigitArith
<1>1. x = Low(b) /\ y = Mid(b) /\ z = High(b) /\ b = x + 128 * (y + 128 * z)
  <2>1. b = Low(b) + 128 * (Mid(b) + 128 * High(b))
    BY DigitArith
  <2> QED
    BY <1>0, <2>1
<1>2. /\ x % 128 = x /\ (x + 128) % 128 = x /\ y % 128 = y /\ (y + 128) % 128 = y /\ z % 128 = z
      /\ ~(x >= 128) /\ x + 128 >= 128 /\ ~(y >= 128) /\ y + 128 >= 128 /\ ~(z >= 128)
    OBVIOUS
<1>3. Announced = digit(1) + 128 * (digit(2) + 128 * (digit(3) + 128 * digit(4)))
    BY DEF Announced, Base
<1>4. CASE y = 0 /\ z = 0
  <2>1. Len(digits) = 1 /\ DOMAIN digits = 1 .. 1 /\ digits[1] = x
    BY <1>1, <1>4, CodeFacts
  <2>2. WellFormed
    BY <1>2, <2>1 DEF WellFormed, Continues, Base
  <2>3. digit(1) = x /\ digit(2) = 0 /\ digit(3) = 0 /\ digit(4) = 0
    BY <1>2, <2>1 DEF Value, Base
  <2> HIDE DEF digit
  <2>4. Announced = b
    BY <1>1, <1>3, <1>4, <2>3
  <2> QED
    BY <2>2, <2>4
<1>5. CASE y # 0 /\ z = 0
  <2>1. Len(digits) = 2 /\ DOMAIN digits = 1 .. 2 /\ digits[1] = x + 128 /\ digits[2] = y
    BY <1>1, <1>5, CodeFacts
  <2>2. WellFormed
    BY <1>2, <2>1 DEF WellFormed, Continues, Base
  <2>3. digit(1) = x /\ digit(2) = y /\ digit(3) = 0 /\ digit(4) = 0
    BY <1>2, <2>1 DEF Value, Base
  <2> HIDE DEF digit
  <2>4. Announced = b
    BY <1>1, <1>3, <1>5, <2>3
  <2> QED
    BY <2>2, <2>4
<1>6. CASE z # 0
  <2>1. /\ Len(digits) = 3 /\ DOMAIN digits = 1 .. 3
        /\ digits[1] = x + 128 /\ digits[2] = y + 128 /\ digits[3] = z
    BY <1>1, <1>6, CodeFacts
  <2>2. WellFormed
    BY <1>2, <2>1 DEF WellFormed, Continues, Base
  <2>3. digit(1) = x /\ digit(2) = y /\ digit(3) = z /\ digit(4) = 0
    BY <1>2, <2>1 DEF Value, Base
  <2> HIDE DEF digit
  <2>4. Announced = b
    BY <1>1, <1>3, <2>3
  <2> QED
    BY <2>2, <2>4
<1> QED
    BY <1>4, <1>5, <1>6

-----------------------------------------------------------------------------
(* The invariant.                                                             *)

LEMMA WordMod == \A n \in Nat : /\ n % Word \in Nat /\ n % Word < Word
                                /\ n < Word => n % Word = n
BY SMT DEF Word

LEMMA SizeFacts ==
    ASSUME PacketType
    PROVE  /\ tl \in Nat /\ pl \in Nat /\ idlen \in 0 .. 2 /\ MaxPacket \in Nat /\ HeaderMax = 5
           /\ tl + 7 <= MaxPacket /\ MaxPacket < Word
           /\ Body \in Nat /\ Coded \in Nat /\ Body = 2 + tl + idlen + pl
           /\ op # "beginPublish" => Coded = Body
           /\ op = "beginPublish" => Coded < Word
           /\ Body < Word => Coded = Body
<1>1. tl \in Nat /\ HeaderMax + 2 + tl <= MaxPacket /\ pl \in Nat /\ HeaderMax = 5
    BY PacketAssumption DEF PacketType
<1>2. MaxPacket \in Nat /\ MaxPacket < Word
  <2>1. MaxPacket \in HeaderMax + 2 .. Word - 1
    BY PacketAssumption
  <2>2. Word \in Nat
    BY SMT DEF Word
  <2> QED
    BY <1>1, <2>1, <2>2
<1>3. idlen \in 0 .. 2
    BY DEF PacketType
<1>4. Body = 2 + tl + idlen + pl /\ Body \in Nat
    BY <1>1, <1>3 DEF Body
<1>5. Body % Word \in Nat /\ Body % Word < Word /\ (Body < Word => Body % Word = Body)
    BY <1>4, WordMod
<1> QED
    BY <1>1, <1>2, <1>3, <1>4, <1>5 DEF Coded

LEMMA CallKept == UNCHANGED callVars => UNCHANGED <<op, tl, pl, idlen, stream, Body, Coded>>
BY DEF callVars, Body, Coded

LEMMA PacketInvInit == PacketInit => PacketInv
<1> SUFFICES ASSUME PacketInit PROVE PacketInv
    OBVIOUS
<1> USE DEF PacketInit
<1>1. CASE op = "garbled"
  <2>1. digits = <<128, 128, 128, 128, 1>> /\ len = 1 /\ eaten = 1 /\ ppc = "digit" /\ rest = 0
    BY <1>1 DEF Base
  <2>2. digits \in Seq(Nat)
    BY <2>1
  <2> QED
    BY <1>1, <2>1, <2>2 DEF PacketInv, PacketType, WriteInv, ReadInv, GarbledInv, SaidInv,
       HandedInv, Writers
<1>2. CASE op # "garbled"
  <2>1. ppc = "call" /\ digits = <<>> /\ ret = FALSE /\ length = 0 /\ weight = 1 /\ rest = 0
    BY <1>2
  <2>2. digits \in Seq(Nat)
    BY <2>1
  <2>3. idlen \in {0, 2} /\ (op # "receive" => idlen = 0) /\ stream \in BOOLEAN
    BY <1>2
  <2>4. op \in Writers \cup {"receive", "garbled"} /\ tl \in TopicLens /\ pl \in PayloadLens
    OBVIOUS
  <2>5. PacketType
    BY <1>2, <2>1, <2>2, <2>3, <2>4 DEF PacketType
  <2> QED
    BY <1>2, <2>1, <2>5 DEF PacketInv, WriteInv, ReadInv, GarbledInv, SaidInv, HandedInv, Writers
<1> QED
    BY <1>1, <1>2

(* A call of a writer, or the broker's: the length to encode.                 *)
LEMMA CallStep ==
    PacketInv /\ (PublishBuffered \/ PublishP \/ BeginPublish \/ BrokerSends) => PacketInv'
<1> SUFFICES ASSUME PacketInv, PublishBuffered \/ PublishP \/ BeginPublish \/ BrokerSends
             PROVE  PacketInv'
    OBVIOUS
<1> USE DEF PacketInv
<1>1. /\ ppc = "call" /\ digits = <<>> /\ ret = FALSE
      /\ UNCHANGED <<op, tl, pl, idlen, stream, Body, Coded, digits, ret, taken, len, length,
         weight, eaten>>
    BY CallKept DEF PublishBuffered, PublishP, BeginPublish, BrokerSends, WriteInv, readVars
<1>2. /\ tl \in Nat /\ pl \in Nat /\ idlen \in 0 .. 2 /\ MaxPacket \in Nat /\ HeaderMax = 5
         /\ MaxPacket < Word
      /\ Body \in Nat /\ Coded \in Nat /\ Body = 2 + tl + idlen + pl
      /\ op # "beginPublish" => Coded = Body
    BY SizeFacts
<1>3. op \in Writers \cup {"receive"} /\ (op \in Writers => idlen = 0)
    BY <1>1 DEF PacketType, Writers
(* Refused: nothing is written and the call says so. *)
<1>4. CASE ppc' = "done"
  <2>1. op = "publish" /\ UNCHANGED rest
    BY <1>4 DEF PublishBuffered, PublishP, BeginPublish, BrokerSends
  <2>2. PacketType'
    BY <1>1, <1>4, <2>1 DEF PacketType, Writers
  <2> QED
    BY <1>1, <1>4, <2>1, <2>2 DEF WriteInv, ReadInv, GarbledInv, SaidInv, HandedInv
<1>5. CASE ppc' # "done"
  <2>1. ppc' = "encode" /\ rest' = Coded
    <3>1. CASE PublishBuffered
      <4>1. ppc' = "encode" /\ rest' = (HeaderMax + 2 + tl + pl) - HeaderMax /\ op = "publish"
        BY <1>5, <3>1 DEF PublishBuffered
      <4> QED
        BY <1>2, <1>3, <4>1 DEF Writers
    <3>2. CASE PublishP
      <4>1. ppc' = "encode" /\ rest' = pl + 2 + tl /\ op = "publish_P"
        BY <3>2 DEF PublishP
      <4> QED
        BY <1>2, <1>3, <4>1 DEF Writers
    <3>3. CASE BeginPublish
      <4>1. /\ ppc' = "encode" /\ op = "beginPublish"
            /\ rest' = (pl + (HeaderMax + 2 + tl) - HeaderMax) % Word
        BY <3>3 DEF BeginPublish
      <4>2. pl + (HeaderMax + 2 + tl) - HeaderMax = Body
        BY <1>2, <1>3, <4>1 DEF Writers
      <4> QED
        BY <4>1, <4>2 DEF Coded
    <3>4. CASE BrokerSends
      BY <1>2, <3>4 DEF BrokerSends
    <3> QED
      BY <3>1, <3>2, <3>3, <3>4
  <2>2. op = "publish" => HeaderMax + Body <= MaxPacket
    <3> SUFFICES ASSUME op = "publish" PROVE HeaderMax + Body <= MaxPacket
      OBVIOUS
    <3>1. ~(MaxPacket < HeaderMax + 2 + tl + pl)
      BY <1>5 DEF PublishBuffered, PublishP, BeginPublish, BrokerSends
    <3> QED
      BY <1>2, <1>3, <3>1 DEF Writers
  <2>3. PacketType'
    BY <1>1, <1>2, <1>3, <2>1 DEF PacketType, Writers
  <2>4. WriteInv'
    BY <1>1, <2>1, <2>2 DEF WriteInv, Partial
  <2>5. ReadInv' /\ GarbledInv' /\ SaidInv' /\ HandedInv'
    BY <1>1, <1>3, <2>1 DEF ReadInv, GarbledInv, SaidInv, HandedInv, Writers
  <2> QED
    BY <2>3, <2>4, <2>5
<1> QED
    BY <1>4, <1>5

LEMMA AppendTuples ==
    ASSUME NEW a \in Nat, NEW c \in Nat, NEW e \in Nat
    PROVE  Append(<<>>, a) = <<a>> /\ Append(<<a>>, c) = <<a, c>>
           /\ Append(<<a, c>>, e) = <<a, c, e>>
<1>1. /\ Append(<<a>>, c) \in Seq(Nat) /\ Len(Append(<<a>>, c)) = 2
      /\ Append(<<a>>, c)[1] = a /\ Append(<<a>>, c)[2] = c
  <2>1. <<a>> \in Seq(Nat) /\ Len(<<a>>) = 1 /\ <<a>>[1] = a
    OBVIOUS
  <2> QED
    BY <2>1
<1>2. /\ <<a, c>> \in Seq(Nat) /\ Len(<<a, c>>) = 2
      /\ <<a, c>>[1] = a /\ <<a, c>>[2] = c
    OBVIOUS
<1>3. /\ Append(<<a, c>>, e) \in Seq(Nat) /\ Len(Append(<<a, c>>, e)) = 3
      /\ Append(<<a, c>>, e)[1] = a /\ Append(<<a, c>>, e)[2] = c /\ Append(<<a, c>>, e)[3] = e
    BY <1>2
<1>4. /\ <<a, c, e>> \in Seq(Nat) /\ Len(<<a, c, e>>) = 3
      /\ <<a, c, e>>[1] = a /\ <<a, c, e>>[2] = c /\ <<a, c, e>>[3] = e
    OBVIOUS
<1>5. Append(<<a>>, c) = <<a, c>>
  <2> DEFINE s == Append(<<a>>, c)
             t == <<a, c>>
  <2>1. s \in Seq(Nat) /\ t \in Seq(Nat) /\ Len(s) = 2 /\ Len(t) = 2 /\ s[1] = t[1] /\ s[2] = t[2]
    BY <1>1, <1>2
  <2> HIDE DEF s, t
  <2>2. s = t
    BY <2>1, SeqEqual
  <2> QED
    BY <2>2 DEF s, t
<1>6. Append(<<a, c>>, e) = <<a, c, e>>
  <2> DEFINE s == Append(<<a, c>>, e)
             t == <<a, c, e>>
  <2>1. s \in Seq(Nat) /\ t \in Seq(Nat) /\ Len(s) = 3 /\ Len(t) = 3 /\ s[1] = t[1] /\ s[2] = t[2]
        /\ s[3] = t[3]
    BY <1>3, <1>4
  <2> HIDE DEF s, t
  <2>2. s = t
    <3>1. \A i \in 1 .. 3 : i = 1 \/ i = 2 \/ i = 3
      OBVIOUS
    <3>2. \A i \in 1 .. 3 : s[i] = t[i]
      BY <2>1, <3>1
    <3> QED
      BY <2>1, <3>2, SeqEqual
  <2> QED
    BY <2>2 DEF s, t
<1>7. Append(<<>>, a) = <<a>>
    OBVIOUS
<1> QED
    BY <1>5, <1>6, <1>7

(* One digit more, and the length field is complete when nothing is left.     *)
LEMMA DigitPut ==
    ASSUME NEW b \in Nat, b < Word, Partial(b),
           digits' = Append(digits, (rest % Base) + (IF rest \div Base > 0 THEN Base ELSE 0)),
           rest' = rest \div Base
    PROVE  /\ rest' > 0 => \/ digits' = <<Low(b) + 128>> /\ rest' = Mid(b) + 128 * High(b)
                           \/ digits' = <<Low(b) + 128, Mid(b) + 128>> /\ rest' = High(b)
           /\ ~(rest' > 0) => digits' = Code(b)
<1> SUFFICES ASSUME NEW d, NEW r,
                    d = Append(digits, (rest % Base) + (IF rest \div Base > 0 THEN Base ELSE 0)),
                    r = rest \div Base
             PROVE  /\ r > 0 => \/ d = <<Low(b) + 128>> /\ r = Mid(b) + 128 * High(b)
                                \/ d = <<Low(b) + 128, Mid(b) + 128>> /\ r = High(b)
                    /\ ~(r > 0) => d = Code(b)
    OBVIOUS
<1>0. PICK x \in 0 .. 127, y \in 0 .. 127, z \in 0 .. 3 : x = Low(b) /\ y = Mid(b) /\ z = High(b)
    BY DigitArith
<1>1. b % 128 = x /\ b \div 128 = y + 128 * z
    BY <1>0, DigitArith DEF Low
<1>2. /\ (y + 128 * z) % 128 = y /\ (y + 128 * z) \div 128 = z
      /\ z % 128 = z /\ z \div 128 = 0
    BY RestArith
<1>3. r = rest \div 128 /\ d = Append(digits, (rest % 128) + (IF r > 0 THEN 128 ELSE 0))
    BY DEF Base
<1>4. ASSUME NEW v \in 0 .. 127, rest % 128 = v
      PROVE  d = IF r > 0 THEN Append(digits, v + 128) ELSE Append(digits, v)
  <2>1. CASE r > 0
    BY <1>3, <1>4, <2>1
  <2>2. CASE ~(r > 0)
    <3>1. v + 0 = v
      OBVIOUS
    <3> QED
      BY <1>3, <1>4, <2>2, <3>1
  <2> QED
    BY <2>1, <2>2
<1>5. PICK xc \in Nat, yc \in Nat : xc = x + 128 /\ yc = y + 128
    OBVIOUS
<1>6. CASE digits = <<>> /\ rest = b
  <2>1. rest % 128 = x /\ r = y + 128 * z
    BY <1>1, <1>3, <1>6
  <2>2. d = IF r > 0 THEN Append(<<>>, xc) ELSE Append(<<>>, x)
    BY <1>4, <1>5, <1>6, <2>1
  <2>3. d = IF r > 0 THEN <<xc>> ELSE <<x>>
    BY <2>2, AppendTuples
  <2>4. ~(r > 0) => y = 0 /\ z = 0
    BY <2>1
  <2> QED
    BY <1>0, <1>5, <2>1, <2>3, <2>4 DEF Code
<1>7. CASE digits = <<Low(b) + 128>> /\ rest = Mid(b) + 128 * High(b) /\ rest > 0
  <2>1. digits = <<xc>> /\ rest = y + 128 * z /\ y + 128 * z > 0
    BY <1>0, <1>5, <1>7
  <2>2. rest % 128 = y /\ r = z
    BY <1>2, <1>3, <2>1
  <2>3. d = IF r > 0 THEN Append(<<xc>>, yc) ELSE Append(<<xc>>, y)
    BY <1>4, <1>5, <2>1, <2>2
  <2>4. d = IF r > 0 THEN <<xc, yc>> ELSE <<xc, y>>
    <3>1. Append(<<xc>>, yc) = <<xc, yc>> /\ Append(<<xc>>, y) = <<xc, y>>
      <4>1. y \in Nat /\ z \in Nat
        OBVIOUS
      <4> QED
        BY <4>1, AppendTuples
    <3> QED
      BY <2>3, <3>1
  <2>5. ~(r > 0) => z = 0 /\ y # 0
    BY <2>1, <2>2
  <2> QED
    BY <1>0, <1>5, <2>2, <2>4, <2>5 DEF Code
<1>8. CASE digits = <<Low(b) + 128, Mid(b) + 128>> /\ rest = High(b) /\ rest > 0
  <2>1. digits = <<xc, yc>> /\ rest = z /\ z > 0
    BY <1>0, <1>5, <1>8
  <2>2. rest % 128 = z /\ r = 0 /\ z \in 0 .. 127
    BY <1>2, <1>3, <2>1
  <2>3. d = Append(<<xc, yc>>, z)
    <3>1. d = IF r > 0 THEN Append(digits, z + 128) ELSE Append(digits, z)
      BY <1>4, <2>2
    <3>2. ~(r > 0)
      BY <2>2
    <3> QED
      BY <2>1, <3>1, <3>2
  <2>4. d = <<xc, yc, z>>
    <3>1. z \in Nat
      OBVIOUS
    <3> QED
      BY <2>3, <3>1, AppendTuples
  <2> QED
    BY <1>0, <1>5, <2>1, <2>2, <2>4 DEF Code
<1> QED
    BY <1>6, <1>7, <1>8 DEF Partial

LEMMA EncodeStep == PacketInv /\ EncodeDigit => PacketInv'
<1> SUFFICES ASSUME PacketInv, EncodeDigit PROVE PacketInv'
    OBVIOUS
<1> USE DEF PacketInv
<1>1. /\ ppc = "encode"
         /\ UNCHANGED <<op, tl, pl, idlen, stream, Body, Coded, ret, taken, len, length,
            weight, eaten>>
      /\ digits' = Append(digits, (rest % Base) + (IF rest \div Base > 0 THEN Base ELSE 0))
      /\ rest' = rest \div Base
      /\ ppc' = IF rest \div Base > 0 THEN "encode" ELSE IF op = "receive" THEN "read" ELSE "write"
    BY CallKept DEF EncodeDigit, PutDigit, readVars
<1>2. digits \in Seq(Nat) /\ rest \in Nat /\ op \in Writers \cup {"receive"} /\ Coded \in Nat
    BY <1>1, SizeFacts DEF PacketType
<1>3. /\ (rest % Base) + (IF rest \div Base > 0 THEN Base ELSE 0) \in Nat
      /\ rest \div Base \in Nat
    BY <1>2 DEF Base
<1>4. digits' \in Seq(Nat) /\ digits' # <<>> /\ rest' \in Nat
    BY <1>1, <1>2, <1>3
<1>5. PacketType'
    BY <1>1, <1>2, <1>4 DEF PacketType, Writers
<1>6. Coded < Word => (ppc' = "encode" => Partial(Coded)')
      /\ (ppc' # "encode" => digits' = Code(Coded))
  <2> SUFFICES ASSUME Coded < Word
               PROVE  (ppc' = "encode" => Partial(Coded)')
                      /\ (ppc' # "encode" => digits' = Code(Coded))
    OBVIOUS
  <2>1. Partial(Coded)
    BY <1>1 DEF WriteInv
  <2>2. /\ rest' > 0 => \/ digits' = <<Low(Coded) + 128>> /\ rest' = Mid(Coded) + 128 * High(Coded)
                        \/ digits' = <<Low(Coded) + 128, Mid(Coded) + 128>> /\ rest' = High(Coded)
        /\ ~(rest' > 0) => digits' = Code(Coded)
    <3> HIDE DEF Coded, Partial
    <3> QED
      BY <1>1, <1>2, <2>1, DigitPut
  <2>3. ppc' = "encode" <=> rest' > 0
    BY <1>1
  <2>4. Partial(Coded)' <=> \/ digits' = <<>> /\ rest' = Coded
                            \/ digits' = <<Low(Coded) + 128>>
                               /\ rest' = Mid(Coded) + 128 * High(Coded) /\ rest' > 0
                            \/ digits' = <<Low(Coded) + 128, Mid(Coded) + 128>>
                               /\ rest' = High(Coded) /\ rest' > 0
    BY <1>1 DEF Partial, Low, Mid, High
  <2> QED
    BY <2>2, <2>3, <2>4
<1>7. WriteInv'
  <2>1. ppc' \in {"encode", "read", "write"} /\ digits' # <<>> /\ op' = op /\ Coded' = Coded
        /\ Body' = Body
    BY <1>1, <1>4
  <2>2. (Coded < Word)' <=> Coded < Word
    BY <2>1
  <2>3. (digits = Code(Coded))' <=> digits' = Code(Coded)
    BY <2>1 DEF Code, Low, Mid, High
  <2>4. (ppc = "encode" /\ Coded < Word => Partial(Coded))'
    BY <1>6, <2>2
  <2>5. (op # "garbled" /\ ppc \in {"write", "read", "digit", "body"} /\ Coded < Word
        => digits = Code(Coded))'
    <3> HIDE DEF Coded, Code
    <3> QED
      BY <1>6, <2>1, <2>2, <2>3
  <2>6. (op = "publish" /\ ppc \in {"encode", "write"} => HeaderMax + Body <= MaxPacket)'
    BY <1>1, <2>1 DEF WriteInv
  <2>7. (ppc = "call" => digits = <<>> /\ ret = FALSE)'
        /\ (ppc \in {"write", "read"} => digits # <<>>)'
    BY <2>1
  <2> HIDE DEF Coded, Code, Partial
  <2> QED
    BY <2>4, <2>5, <2>6, <2>7 DEF WriteInv
<1>8. ReadInv' /\ GarbledInv' /\ SaidInv' /\ HandedInv'
    BY <1>1, <1>2 DEF ReadInv, GarbledInv, SaidInv, HandedInv, Writers
<1> QED
    BY <1>5, <1>7, <1>8

(* The socket takes no more than the call has, which a uint16_t can count.    *)
LEMMA WriteStep == PacketInv /\ Write => PacketInv'
<1> SUFFICES ASSUME PacketInv, Write PROVE PacketInv'
    OBVIOUS
<1> USE DEF PacketInv
<1>1. /\ ppc = "write" /\ ppc' = "done" /\ taken' \in Takes
      /\ ret' = IF op = "publish_P" THEN taken' = tl + 4 + pl ELSE taken' % Word = Given
      /\ UNCHANGED <<op, tl, pl, idlen, stream, Body, Coded, rest, digits, len, length,
         weight, eaten>>
    BY CallKept DEF Write, readVars
<1>2. op \in Writers /\ idlen = 0 /\ digits # <<>> /\ digits \in Seq(Nat)
    BY <1>1 DEF PacketType, WriteInv, Writers
<1>3. PacketType'
    BY <1>1, <1>2 DEF PacketType, Writers
<1>4. WriteInv' /\ ReadInv' /\ GarbledInv' /\ HandedInv'
    BY <1>1, <1>2 DEF WriteInv, ReadInv, GarbledInv, HandedInv, Writers
<1>5. SaidInv'
  <2> SUFFICES ASSUME op = "publish_P" => Body < Base
               PROVE  ret' <=> taken' = Given
    BY <1>1, <1>2 DEF SaidInv, Given, HeaderLength
  <2>1. /\ tl \in Nat /\ pl \in Nat /\ MaxPacket \in Nat /\ MaxPacket < Word /\ tl + 7 <= MaxPacket
        /\ Body = 2 + tl + pl /\ Body \in Nat /\ Coded \in Nat /\ HeaderMax = 5
        /\ op # "beginPublish" => Coded = Body
        /\ op = "beginPublish" => Coded < Word
    BY <1>2, SizeFacts
  <2>2. CASE op = "publish_P"
    <3>1. Body < 128 /\ Coded = Body /\ Coded < Word
      BY <2>1, <2>2 DEF Base, Word
    <3>2. Len(digits) = 1
      <4>1. digits = Code(Coded)
        BY <1>1, <2>2, <3>1 DEF WriteInv
      <4>2. Mid(Coded) = 0 /\ High(Coded) = 0
        <5>1. PICK x \in 0 .. 127, y \in 0 .. 127, z \in 0 .. 3 :
                  x = Low(Coded) /\ y = Mid(Coded) /\ z = High(Coded)
          BY <2>1, <3>1, DigitArith
        <5>2. Coded = x + 128 * (y + 128 * z)
          <6>1. Coded = Low(Coded) + 128 * (Mid(Coded) + 128 * High(Coded))
            BY <2>1, <3>1, DigitArith
          <6> QED
            BY <5>1, <6>1
        <5>3. PICK c \in Nat : c = Coded /\ c < 128
          BY <2>1, <3>1
        <5>4. c = x + 128 * (y + 128 * z) => y = 0 /\ z = 0
          BY <5>3
        <5> QED
          BY <5>1, <5>2, <5>3, <5>4
      <4> QED
        BY <2>1, <3>1, <4>1, <4>2, CodeFacts
    <3>3. Given = tl + 4 + pl
      BY <2>1, <2>2, <3>2 DEF Given, HeaderLength
    <3> QED
      BY <1>1, <2>2, <3>3
  <2>3. CASE op # "publish_P"
    <3>1. op \in {"publish", "beginPublish"} /\ (op = "publish" => HeaderMax + Body <= MaxPacket)
      BY <1>1, <1>2, <2>3 DEF WriteInv, Writers
    <3>2. Coded < Word
      <4>1. Word \in Nat
        BY SMT DEF Word
      <4>2. op = "publish" => Body < Word
        BY <2>1, <3>1, <4>1
      <4> QED
        BY <2>1, <3>1, <4>2
    <3>3. Len(digits) \in 1 .. 3
      <4>1. digits = Code(Coded)
        BY <1>1, <1>2, <3>2 DEF WriteInv, Writers
      <4> QED
        BY <2>1, <3>2, <4>1, CodeFacts
    <3>4. Given \in Nat /\ Given < Word
      <4>1. PICK k \in 1 .. 3 : k = Len(digits)
        BY <3>3
      <4>2. Word \in Nat
        BY SMT DEF Word
      <4>3. CASE op = "publish"
        <5>1. Given = 1 + k + 2 + tl + pl
          BY <4>1, <4>3 DEF Given, HeaderLength
        <5>2. 5 + (2 + tl + pl) <= MaxPacket
          BY <2>1, <3>1, <4>3
        <5>3. tl \in Nat /\ pl \in Nat /\ MaxPacket \in Nat /\ MaxPacket < Word
          BY <2>1
        <5> QED
          BY <4>1, <4>2, <5>1, <5>2, <5>3
      <4>4. CASE op = "beginPublish"
        <5>1. Given = 1 + k + 2 + tl
          BY <2>1, <4>1, <4>4 DEF Given, HeaderLength
        <5> QED
          BY <2>1, <4>1, <4>2, <5>1
      <4> QED
        BY <3>1, <4>3, <4>4
    <3>5. taken' \in Nat /\ taken' < Word
      <4>1. taken' \in {0, Given - 1, Given} /\ taken' >= 0
        BY <1>1 DEF Takes
      <4> QED
        BY <3>4, <4>1 DEF Word
    <3>6. taken' % Word = taken'
      BY <3>5, WordMod
    <3> QED
      BY <1>1, <2>3, <3>6
  <2> QED
    BY <2>2, <2>3
<1> QED
    BY <1>3, <1>4, <1>5

LEMMA ReadTypeStep == PacketInv /\ ReadType => PacketInv'
<1> SUFFICES ASSUME PacketInv, ReadType PROVE PacketInv'
    OBVIOUS
<1> USE DEF PacketInv
<1>1. /\ ppc = "read" /\ ppc' = "digit" /\ len' = 1 /\ eaten' = 1
      /\ UNCHANGED <<op, tl, pl, idlen, stream, Body, Coded, rest, digits, ret, taken,
         length, weight>>
    BY CallKept DEF ReadType, writeVars
<1>2. op = "receive" /\ digits # <<>> /\ digits \in Seq(Nat)
    BY <1>1 DEF PacketType, WriteInv, Writers
<1>3. Len(digits) \in Nat /\ Len(digits) > 0
    BY <1>2
<1>4. PacketType'
    BY <1>1, <1>2 DEF PacketType, Writers
<1>5. WriteInv' /\ GarbledInv' /\ SaidInv' /\ HandedInv'
    BY <1>1, <1>2 DEF WriteInv, GarbledInv, SaidInv, HandedInv, Writers
<1>6. ReadInv'
    BY <1>1, <1>3 DEF ReadInv, ReadSoFar
<1> QED
    BY <1>4, <1>5, <1>6

(* One digit less: what was read and what is still to come make up the length.*)
LEMMA DigitTaken ==
    ASSUME NEW b \in Nat, b < Word, digits = Code(b), ReadSoFar(b), NEW n
    PROVE  n = (length + Value(digits[len]) * weight) % Word =>
               /\ Continues(digits[len]) => /\ len < Len(digits)
                                            /\ len = 1 => n = Low(b)
                                            /\ len = 2 => n = Low(b) + 128 * Mid(b)
               /\ ~Continues(digits[len]) => n = b /\ len = Len(digits)
<1>1. PICK x \in 0 .. 127, y \in 0 .. 127, z \in 0 .. 3 : x = Low(b) /\ y = Mid(b) /\ z = High(b)
  <2>1. Low(b) \in 0 .. 127 /\ Mid(b) \in 0 .. 127 /\ High(b) \in 0 .. 3
    BY DigitArith
  <2> QED
    BY <2>1
<1>2. b = x + 128 * (y + 128 * z)
  <2>1. b = Low(b) + 128 * (Mid(b) + 128 * High(b))
    BY DigitArith
  <2> QED
    BY <1>1, <2>1
<1>3. /\ x % 128 = x /\ (x + 128) % 128 = x /\ y % 128 = y /\ (y + 128) % 128 = y /\ z % 128 = z
      /\ ~(x >= 128) /\ x + 128 >= 128 /\ ~(y >= 128) /\ y + 128 >= 128 /\ ~(z >= 128)
    OBVIOUS
<1>4. x < Word /\ x + 128 * y < Word /\ x + 128 * (y + 128 * z) < Word
    BY SMT DEF Word
<1>5. x % Word = x /\ (x + 128 * y) % Word = x + 128 * y /\ b % Word = b
  <2>1. x \in Nat /\ x + 128 * y \in Nat
    OBVIOUS
  <2> QED
    BY <1>4, <2>1, WordMod
<1>d. /\ Len(digits) \in 1 .. 3
      /\ y = 0 /\ z = 0 <=> Len(digits) = 1
      /\ z # 0 <=> Len(digits) = 3
  <2>1. Len(digits) \in 1 .. 3
    BY CodeFacts
  <2>2. CASE y = 0 /\ z = 0
    <3>1. Len(digits) = 1
      BY <1>1, <2>2, CodeFacts
    <3> QED
      BY <2>2, <3>1
  <2>3. CASE y # 0 /\ z = 0
    <3>1. Len(digits) = 2
      BY <1>1, <2>3, CodeFacts
    <3> QED
      BY <2>3, <3>1
  <2>4. CASE z # 0
    <3>1. Len(digits) = 3
      BY <1>1, <2>4, CodeFacts
    <3> QED
      BY <2>4, <3>1
  <2> QED
    BY <2>1, <2>2, <2>3, <2>4
<1>e. len \in 1 .. Len(digits)
    BY DEF ReadSoFar
<1>f. /\ len = 1 \/ len = 2 \/ len = 3
      /\ len = 2 => Len(digits) # 1
      /\ len = 3 => Len(digits) = 3
  <2>1. PICK k \in 1 .. 3 : k = Len(digits)
    BY <1>d
  <2>2. PICK l \in 1 .. k : l = len
    BY <1>e, <2>1
  <2>3. (l = 1 \/ l = 2 \/ l = 3) /\ (l = 2 => k # 1) /\ (l = 3 => k = 3)
    OBVIOUS
  <2> QED
    BY <2>1, <2>2, <2>3
<1> DEFINE sum == length + Value(digits[len]) * weight
<1>6. CASE len = 1
  <2>1. digits[1] = IF y = 0 /\ z = 0 THEN x ELSE x + 128
    BY <1>1, CodeFacts
  <2>2. Value(digits[1]) = x /\ (Continues(digits[1]) <=> ~(y = 0 /\ z = 0))
    BY <1>3, <2>1 DEF Value, Continues, Base
  <2>3. sum = x
    <3>1. sum = 0 + x * 1
      BY <1>6, <2>2 DEF ReadSoFar
    <3> QED
      BY <3>1
  <2>4. IF y = 0 /\ z = 0 THEN Len(digits) = 1 /\ b = x ELSE Len(digits) > 1
    BY <1>2, <1>d
  <2> HIDE DEF sum
  <2>5. n = sum % Word => n = x
    BY <1>5, <2>3
  <2> QED
    BY <1>1, <1>6, <2>2, <2>4, <2>5 DEF sum
<1>7. CASE len = 2
  <2>1. ~(y = 0 /\ z = 0)
    BY <1>7, <1>d, <1>f
  <2>2. /\ digits[2] = (IF z = 0 THEN y ELSE y + 128)
        /\ Len(digits) = (IF z = 0 THEN 2 ELSE 3)
    BY <1>1, <2>1, CodeFacts
  <2>3. Value(digits[2]) = y /\ (Continues(digits[2]) <=> z # 0)
    BY <1>3, <2>2 DEF Value, Continues, Base
  <2>4. sum = x + 128 * y
    <3>1. sum = x + y * 128
      BY <1>1, <1>7, <2>3 DEF ReadSoFar
    <3> QED
      BY <3>1
  <2>5. z = 0 => b = x + 128 * y
    BY <1>2
  <2> HIDE DEF sum
  <2>6. n = sum % Word => n = x + 128 * y
    BY <1>5, <2>4
  <2> QED
    BY <1>1, <1>7, <2>2, <2>3, <2>5, <2>6 DEF sum
<1>8. CASE len = 3
  <2>1. z # 0
    BY <1>8, <1>d, <1>f
  <2>2. Len(digits) = 3 /\ digits[3] = z
    BY <1>1, <2>1, CodeFacts
  <2>3. Value(digits[3]) = z /\ ~Continues(digits[3])
    BY <1>3, <2>2 DEF Value, Continues, Base
  <2>4. sum = b
    <3>1. sum = (x + 128 * y) + z * 16384
      BY <1>1, <1>8, <2>3 DEF ReadSoFar
    <3> QED
      BY <1>2, <3>1
  <2> HIDE DEF sum
  <2>5. n = sum % Word => n = b
    BY <1>5, <2>4
  <2> QED
    BY <1>8, <2>2, <2>3, <2>5 DEF sum
<1> QED
    BY <1>6, <1>7, <1>8, <1>f

(* A length field without an end closes the connection; one that fits is read.*)
LEMMA ReadDigitStep == PacketInv /\ ReadDigit => PacketInv'
<1> SUFFICES ASSUME PacketInv, ReadDigit PROVE PacketInv'
    OBVIOUS
<1> USE DEF PacketInv
<1>1. /\ ppc = "digit"
      /\ UNCHANGED <<op, tl, pl, idlen, stream, Body, Coded, rest, digits, ret, taken>>
    BY CallKept DEF ReadDigit, writeVars
<1>2. op \in {"receive", "garbled"} /\ digits \in Seq(Nat)
    BY <1>1 DEF PacketType, Writers
<1>3. /\ len = 5 => ppc' = "closed" /\ eaten' = eaten /\ len' = 0
      /\ len # 5 => /\ len' = len + 1 /\ eaten' = eaten + 1 /\ weight' = weight * Base
                    /\ length' = (length + Value(digits[len]) * weight) % Word
                    /\ ppc' = IF Continues(digits[len]) THEN "digit" ELSE "body"
    BY DEF ReadDigit, CloseInvalid, TakeDigit
<1>4. CASE op = "garbled"
  <2>1. digits = <<128, 128, 128, 128, 1>> /\ len \in 1 .. 5 /\ eaten = len
    BY <1>1, <1>4 DEF GarbledInv
  <2>2. len # 5 => Continues(digits[len])
    <3>1. len # 5 => len = 1 \/ len = 2 \/ len = 3 \/ len = 4
      BY <2>1
    <3>2. digits[1] = 128 /\ digits[2] = 128 /\ digits[3] = 128 /\ digits[4] = 128
      BY <2>1
    <3> QED
      BY <3>1, <3>2 DEF Continues, Base
  <2>3. ppc' \in {"digit", "closed"}
    BY <1>3, <2>2
  <2>4. PacketType'
    BY <1>1, <1>4, <2>3 DEF PacketType, Writers
  <2>5. WriteInv' /\ ReadInv' /\ SaidInv' /\ HandedInv'
    BY <1>1, <1>4, <2>3 DEF WriteInv, ReadInv, SaidInv, HandedInv, Writers
  <2>6. GarbledInv'
    <3>1. CASE len = 5
      BY <1>1, <1>3, <2>1, <3>1 DEF GarbledInv
    <3>2. CASE len # 5
      <4>1. PICK l \in 1 .. 4 : l = len
        BY <2>1, <3>2
      <4>2. len' = l + 1 /\ eaten' = l + 1 /\ ppc' = "digit"
        BY <1>3, <2>1, <2>2, <3>2, <4>1
      <4> QED
        BY <1>1, <2>1, <4>2 DEF GarbledInv
    <3> QED
      BY <3>1, <3>2
  <2> QED
    BY <2>4, <2>5, <2>6
<1>5. CASE op = "receive"
  <2>1. ppc' \in {"closed", "digit", "body"}
    BY <1>3
  <2>2. PacketType'
    BY <1>1, <1>5, <2>1 DEF PacketType, Writers
  <2>3. WriteInv' /\ GarbledInv' /\ SaidInv' /\ HandedInv'
    BY <1>1, <1>5, <2>1 DEF WriteInv, GarbledInv, SaidInv, HandedInv, Writers, Code, Low, Mid, High
  <2>4. ReadInv'
    <3> SUFFICES ASSUME Body < Word PROVE ReadInv'
      BY <1>1 DEF ReadInv
    <3>1. ReadSoFar(Body) /\ eaten = len
      BY <1>1, <1>5 DEF ReadInv
    <3>2. Body \in Nat /\ Coded = Body
      BY SizeFacts
    <3>3. digits = Code(Body)
      BY <1>1, <1>5, <3>2 DEF WriteInv
    <3>4. len \in 1 .. Len(digits) /\ Len(digits) \in 1 .. 3
      BY <3>1, <3>2, <3>3, CodeFacts DEF ReadSoFar
    <3>5. PICK l \in 1 .. 3 : l = len
      <4>1. PICK k \in 1 .. 3 : k = Len(digits)
        BY <3>4
      <4>2. len \in 1 .. k
        BY <3>4, <4>1
      <4> QED
        BY <4>2
    <3>6. /\ len' = l + 1 /\ eaten' = l + 1 /\ weight' = weight * Base
          /\ length' = (length + Value(digits[len]) * weight) % Word
          /\ ppc' = IF Continues(digits[len]) THEN "digit" ELSE "body"
      BY <1>3, <3>1, <3>5
    <3>7. PICK n : n = (length + Value(digits[len]) * weight) % Word
      OBVIOUS
    <3>8. /\ Continues(digits[len]) => /\ len < Len(digits)
                                       /\ len = 1 => n = Low(Body)
                                       /\ len = 2 => n = Low(Body) + 128 * Mid(Body)
          /\ ~Continues(digits[len]) => n = Body /\ len = Len(digits)
      <4> HIDE DEF Body
      <4> QED
        BY <3>1, <3>2, <3>3, <3>7, DigitTaken
    <3>9. length' = n
      BY <3>6, <3>7
    <3>10. CASE Continues(digits[len])
      <4>1. ppc' = "digit" /\ l < Len(digits)
        BY <3>5, <3>6, <3>8, <3>10
      <4>2. l + 1 \in 1 .. Len(digits)
        BY <3>4, <4>1
      <4>3. l = 1 => length' = Low(Body) /\ weight' = 128
        BY <3>1, <3>5, <3>6, <3>8, <3>9, <3>10 DEF ReadSoFar, Base
      <4>4. l = 2 => length' = Low(Body) + 128 * Mid(Body) /\ weight' = 16384
        <5>1. l = 2 => weight = 128
          BY <3>1, <3>5 DEF ReadSoFar
        <5>2. l = 2 => weight' = 128 * 128
          BY <3>6, <5>1 DEF Base
        <5> QED
          BY <3>5, <3>8, <3>9, <3>10, <5>2
      <4>5. ReadSoFar(Body)'
        <5>1. UNCHANGED <<Body, digits, Low(Body), Mid(Body)>>
          BY <1>1 DEF Low, Mid
        <5>2. /\ len' = 1 => l = 0
              /\ len' = 2 => l = 1
              /\ len' = 3 => l = 2
          BY <3>6
        <5> HIDE DEF Body
        <5> QED
          BY <3>6, <4>2, <4>3, <4>4, <5>1, <5>2 DEF ReadSoFar
      <4> QED
        BY <1>1, <3>6, <4>1, <4>5 DEF ReadInv
    <3>11. CASE ~Continues(digits[len])
      <4>1. ppc' = "body" /\ l = Len(digits) /\ length' = Body
        BY <3>5, <3>6, <3>8, <3>9, <3>11
      <4>2. len' = 1 + Len(digits) /\ eaten' = 1 + Len(digits)
        BY <3>6, <4>1
      <4> QED
        BY <1>1, <4>1, <4>2 DEF ReadInv
    <3> QED
      BY <3>10, <3>11
  <2> QED
    BY <2>2, <2>3, <2>4
<1> QED
    BY <1>2, <1>4, <1>5

(* What follows the length field is read whole, and handed over if it fits.   *)
LEMMA ReadBodyStep == PacketInv /\ ReadBody => PacketInv'
<1> SUFFICES ASSUME PacketInv, ReadBody PROVE PacketInv'
    OBVIOUS
<1> USE DEF PacketInv
<1>1. /\ ppc = "body" /\ ppc' = "done"
      /\ UNCHANGED <<op, tl, pl, idlen, stream, Body, Coded, rest, digits, ret, taken,
         length, weight>>
    BY CallKept DEF ReadBody, TakeBytes, writeVars
<1>2. op = "receive" /\ digits \in Seq(Nat)
    BY <1>1 DEF PacketType, Writers
<1>3. PacketType'
    BY <1>1, <1>2 DEF PacketType, Writers
<1>4. WriteInv' /\ ReadInv' /\ GarbledInv' /\ SaidInv'
    BY <1>1, <1>2 DEF WriteInv, ReadInv, GarbledInv, SaidInv, Writers
<1>5. /\ tl \in Nat /\ pl \in Nat /\ idlen \in 0 .. 2 /\ MaxPacket \in Nat /\ MaxPacket < Word
      /\ tl + 7 <= MaxPacket /\ Body = 2 + tl + idlen + pl /\ Body \in Nat
    BY SizeFacts
<1>6. PICK k \in Nat : k = Len(digits)
    BY <1>2
<1>7. Word \in Nat
    BY SMT DEF Word
<1>8. ASSUME Body < Word
      PROVE  /\ length = Body /\ len = 1 + k /\ eaten = 1 + k
             /\ eaten' = 1 + k + Body
             /\ len' = IF ~stream /\ (1 + k + Body) % Word > MaxPacket THEN 0
                ELSE (1 + k + Body) % Word
  <2>1. length = Body /\ len = 1 + k /\ eaten = 1 + k
    BY <1>1, <1>2, <1>6, <1>8 DEF ReadInv
  <2>2. 2 + AtLeastZero(length - 2) = Body
    <3>1. Body - 2 \in Nat /\ 2 + (Body - 2) = Body
      BY <1>5
    <3> QED
      BY <2>1, <3>1 DEF AtLeastZero
  <2>3. TakeBytes(Body)
    BY <2>2 DEF ReadBody
  <2> QED
    BY <2>1, <2>3 DEF TakeBytes
<1>9. ASSUME 1 + k + Body < Word
      PROVE  /\ CallbackRuns' <=> (stream \/ 1 + k + Body <= MaxPacket)
             /\ CallbackRuns' => CallbackLen' = pl
             /\ stream => Streamed' = pl
  <2>1. Body < Word /\ 1 + k + Body \in Nat /\ (1 + k + Body) % Word = 1 + k + Body
    <3>1. Body < Word /\ 1 + k + Body \in Nat
      BY <1>5, <1>7, <1>9
    <3> QED
      BY <1>9, <3>1, WordMod
  <2>2. length = Body /\ len' = IF ~stream /\ 1 + k + Body > MaxPacket THEN 0 ELSE 1 + k + Body
    BY <1>8, <2>1
  <2>3. CallbackRuns' <=> (stream \/ 1 + k + Body <= MaxPacket)
    <3>1. CallbackRuns' <=> len' > 0
      BY <1>1, <1>2 DEF CallbackRuns
    <3>2. PICK e \in Nat : e = 1 + k + Body /\ e > 0
      BY <1>5
    <3>3. len' = IF ~stream /\ e > MaxPacket THEN 0 ELSE e
      BY <2>2, <3>2
    <3>4. len' > 0 <=> (stream \/ e <= MaxPacket)
      BY <1>5, <3>2, <3>3
    <3> QED
      BY <3>1, <3>2, <3>4
  <2>4. CallbackRuns' => CallbackLen' = pl
    <3>1. CallbackRuns' => len' = 1 + k + Body
      BY <2>2, <2>3, <1>5
    <3>2. CallbackLen' = len' - k - 3 - tl - idlen
      BY <1>1, <1>6 DEF CallbackLen
    <3>3. (1 + k + Body) - k - 3 - tl - idlen = pl
      BY <1>5
    <3> QED
      BY <3>1, <3>2, <3>3
  <2>5. Streamed' = pl
    <3>1. Streamed' = Streamed
      BY <1>1 DEF Streamed
    <3>2. (tl + idlen) % Word = tl + idlen
      <4>1. tl + idlen \in Nat /\ tl + idlen < Word
        BY <1>5, <1>7
      <4> QED
        BY <4>1, WordMod
    <3>3. 1 + Len(digits) + 2 + AtLeastZero(length - 2) = 1 + k + Body
      <4>1. Body - 2 \in Nat /\ 1 + k + 2 + (Body - 2) = 1 + k + Body
        BY <1>5
      <4> QED
        BY <1>6, <2>2, <4>1 DEF AtLeastZero
    <3>4. Streamed = AtLeastZero((1 + k + Body) - (k + 3 + (tl + idlen)))
      BY <1>6, <1>9, <3>2, <3>3 DEF Streamed
    <3>5. (1 + k + Body) - (k + 3 + (tl + idlen)) = pl
      BY <1>5
    <3> QED
      BY <1>5, <3>1, <3>4, <3>5 DEF AtLeastZero
  <2> QED
    BY <2>3, <2>4, <2>5
<1>10. HandedInv'
  <2>1. HeaderLength' = 1 + k /\ Len(digits') = k
    BY <1>1, <1>6 DEF HeaderLength
  <2>2. Body < Word => eaten' = 1 + k + Body
    BY <1>8
  <2> QED
    BY <1>1, <1>9, <2>1, <2>2 DEF HandedInv
<1> QED
    BY <1>3, <1>4, <1>10

LEMMA PacketInvStep == PacketInv /\ [PacketNext]_packetVars => PacketInv'
<1>1. PacketInv /\ UNCHANGED packetVars => PacketInv'
  <2> SUFFICES ASSUME PacketInv, UNCHANGED packetVars PROVE PacketInv'
    OBVIOUS
  <2>1. UNCHANGED <<op, tl, pl, idlen, stream, ppc, rest, digits, ret, taken, len, length,
        weight, eaten>>
    BY DEF packetVars, callVars, writeVars, readVars
  <2>2. UNCHANGED <<Body, Coded>>
    BY <2>1 DEF Body, Coded
  <2>3. PacketType' /\ GarbledInv' /\ SaidInv'
    BY <2>1, <2>2 DEF PacketInv, PacketType, GarbledInv, SaidInv, Given, HeaderLength
  <2>4. WriteInv'
    BY <2>1, <2>2 DEF PacketInv, WriteInv, Partial, Code, Low, Mid, High
  <2>5. ReadInv'
    BY <2>1, <2>2 DEF PacketInv, ReadInv, ReadSoFar, Low, Mid
  <2>6. HandedInv'
    BY <2>1, <2>2 DEF PacketInv, HandedInv, HeaderLength, CallbackRuns, CallbackLen, Streamed
  <2> QED
    BY <2>3, <2>4, <2>5, <2>6 DEF PacketInv
<1> QED
    BY <1>1, CallStep, EncodeStep, WriteStep, ReadTypeStep, ReadDigitStep, ReadBodyStep
       DEF PacketNext

LEMMA PacketInvariant == PacketSpec => []PacketInv
BY PacketInvInit, PacketInvStep, PTL DEF PacketSpec

(* Every packet on the wire announces what follows it, what publish() accepts *)
(* fits a subscriber's buffer, and a call says what became of its bytes, for  *)
(* every topic and payload (382, 427-526).                                    *)
THEOREM PacketsAsMeant == PacketSpec => []WrittenAsMeant
<1>1. PacketInv => WrittenAsMeant
  <2> SUFFICES ASSUME PacketInv PROVE WrittenAsMeant
    OBVIOUS
  <2> USE DEF PacketInv
  <2>1. /\ Body \in Nat /\ Coded \in Nat /\ MaxPacket \in Nat /\ MaxPacket < Word /\ HeaderMax = 5
        /\ (op # "beginPublish" => Coded = Body) /\ (Body < Word => Coded = Body)
    BY SizeFacts
  <2>2. op = "garbled" => ppc \notin {"write", "read"}
    BY DEF PacketType
  <2>3. ppc \in {"write", "read"} /\ Body < Word => WellFormed /\ Announced = Body
    <3> SUFFICES ASSUME ppc \in {"write", "read"}, Body < Word PROVE WellFormed /\ Announced = Body
      OBVIOUS
    <3>1. digits = Code(Body)
      BY <2>1, <2>2 DEF WriteInv
    <3> HIDE DEF Body
    <3> QED
      BY <2>1, <3>1, CodeIsRead
  <2>4. op = "publish" /\ ppc = "write" => HeaderLength + Body <= MaxPacket
    <3> SUFFICES ASSUME op = "publish", ppc = "write" PROVE HeaderLength + Body <= MaxPacket
      OBVIOUS
    <3>1. 5 + Body <= MaxPacket /\ Coded = Body
      BY <2>1 DEF WriteInv
    <3>2. Body < Word
      <4>1. Word \in Nat
        BY SMT DEF Word
      <4> QED
        BY <2>1, <3>1, <4>1
    <3>3. digits = Code(Body)
      BY <2>1, <3>1, <3>2 DEF WriteInv
    <3>4. Len(digits) \in 1 .. 3
      BY <2>1, <3>2, <3>3, CodeFacts
    <3>5. HeaderLength \in 2 .. 4
      <4>1. PICK k \in 1 .. 3 : k = Len(digits)
        BY <3>4
      <4>2. 1 + k \in 2 .. 4
        OBVIOUS
      <4> QED
        BY <4>1, <4>2 DEF HeaderLength
    <3> QED
      BY <2>1, <3>1, <3>5
  <2> QED
    BY <2>3, <2>4 DEF WrittenAsMeant, SaidInv
<1> QED
    BY <1>1, PacketInvariant, PTL

(* What the broker sends is taken from the socket byte for byte and handed    *)
(* over with its payload's length, and a length without an end closes the     *)
(* connection, for every topic and payload (246-300, 327-349).                *)
THEOREM PacketsReadWhole == PacketSpec => []ReadAsWritten
<1>1. PacketInv => ReadAsWritten
  <2> SUFFICES ASSUME PacketInv PROVE ReadAsWritten
    OBVIOUS
  <2>1. op = "garbled" => ppc \notin {"body", "done"} /\ eaten <= 5
    BY DEF PacketInv, PacketType, GarbledInv
  <2> QED
    BY <2>1 DEF PacketInv, HandedInv, ReadAsWritten
<1> QED
    BY <1>1, PacketInvariant, PTL

-----------------------------------------------------------------------------
(* While the callback runs, its message is the one that the broker waits for  *)
(* on this connection; when the connection is gone, the broker waits for none.*)
AckInv ==
    /\ stray = FALSE
    /\ linked = Absent => unacked = {} /\ unheard = {}
    /\ ~InCallback => unacked = unheard
    /\ InCallback /\ linked # Absent => unacked = unheard \cup {msgId} /\ msgId \notin unheard

LEMMA AckInit == SessionInit => AckInv
BY DEF SessionInit, AckInv, InCallback

LEMMA AckStep == AckInv /\ [SessionNext]_sessionVars => AckInv'
<1> SUFFICES ASSUME AckInv, [SessionNext]_sessionVars PROVE AckInv'
    OBVIOUS
<1> USE DEF AckInv, InCallback
(* The user's other calls, which may come from the callback too. *)
<1>1. CASE SetServerIp \/ SetServerDomain \/ SetCallback \/ OtherPacket \/ UNCHANGED sessionVars
    <2>1. UNCHANGED <<linked, msgId, unacked, unheard, stray>>
        BY <1>1 DEF SetServerIp, SetServerDomain, SetCallback, OtherPacket, KeepsAcks, sessionVars
    <2> QED
        BY <2>1
<1>2. CASE Subscribe \/ Unsubscribe
    <2>1. UNCHANGED <<linked, msgId, unacked, unheard, stray>>
        BY <1>2 DEF Subscribe, Unsubscribe, Request, KeepsAcks
    <2> QED
        BY <2>1
<1>3. CASE Connect \/ ConnectRefused
    <2>1. ~InCallback /\ UNCHANGED <<msgId, stray>> /\ unacked' = {} /\ unheard' = {}
        BY <1>3 DEF Connect, ConnectRefused, NewConnection
    <2> QED
        BY <2>1
<1>4. CASE Disconnected
    BY <1>4 DEF Disconnected
<1>5. CASE ReceiveQos1
    <2>1. PICK id \in MessageIds \ unacked :
              /\ linked # Absent /\ linked' = linked /\ ~InCallback
              /\ unacked' = unacked \cup {id} /\ msgId' = id
              /\ UNCHANGED <<unheard, stray>>
        BY <1>5 DEF ReceiveQos1
    <2>2. id # 0
        BY SessionAssumption
    <2> QED
        BY <2>1, <2>2
<1>6. CASE ReceiveUnheard
    BY <1>6 DEF ReceiveUnheard
<1>7. CASE CallbackReturns
    <2>1. /\ InCallback /\ msgId' = 0 /\ UNCHANGED <<linked, unheard>>
          /\ unacked' = unacked \ {msgId}
          /\ stray' = (stray \/ (linked # Absent /\ msgId \notin unacked))
        BY <1>7 DEF CallbackReturns, Puback
    <2>2. stray' = FALSE
        BY <2>1, Zenon
    <2>3. unacked' = unheard'
        BY <2>1
    <2> QED
        BY <2>1, <2>2, <2>3
<1> QED
    BY <1>1, <1>2, <1>3, <1>4, <1>5, <1>6, <1>7 DEF SessionNext

(* Every message the callback saw is acknowledged, by its own id and on its   *)
(* own connection, and nothing else is.                                       *)
THEOREM CallbacksAcknowledged == SessionSpec => []AcksNameMessages
<1>1. AckInv => AcksNameMessages
    BY DEF AckInv, AcksNameMessages
<1> QED
    BY <1>1, AckInit, AckStep, PTL DEF SessionSpec

-----------------------------------------------------------------------------
(* The ids of a connection's requests count from 1 to LastId and begin again. *)
LastId == IdMod - 1

Chain(ids) ==
    \A i, j \in 1 .. Len(ids) :
        (i < j /\ j - i < LastId) => ids[j] = ids[i] + (j - i) \/ ids[j] = ids[i] + (j - i) - LastId

IdInv ==
    /\ nextMsgId \in 0 .. LastId
    /\ requestIds \in Seq(1 .. LastId)
    /\ requestIds # <<>> => nextMsgId = requestIds[Len(requestIds)]
    /\ Chain(requestIds)

(* connect() goes to the server that was set last.                            *)
ServerSet ==
    /\ server \in [domain : {Absent, "domain"}, ip : {"0", "ip"}]
    /\ lastAsked \in {Absent, "ip", "domain"}
    /\ lastAsked = "ip" => server.domain = Absent /\ server.ip = "ip"
    /\ lastAsked = "domain" => server.domain = "domain"
    /\ linked # Absent => linked = lastAsked

(* What was built lies in the buffer and holds what it announces.             *)
BuiltInv ==
    /\ built.end <= BufferSize \/ (built.kind = "subscribe" /\ built.fields[1] + 9 = BufferSize)
    /\ built.kind = "connect" =>
         Len(built.fields) = 1 + (IF built.flags.will THEN 2 ELSE 0)
                                + Cardinality({f \in {"user", "pass"} : built.flags[f]})

RequestInv == IdInv /\ ServerSet /\ BuiltInv

LEMMA IdAfterFacts ==
    \A n \in 0 .. LastId : /\ IdAfter(n) \in 1 .. LastId
                           /\ IdAfter(n) = n + 1 \/ (n = LastId /\ IdAfter(n) = 1)
BY SessionAssumption DEF LastId, IdAfter

LEMMA MemberOfSeq ==
    ASSUME NEW S, NEW s \in Seq(S), NEW i \in 1 .. Len(s)
    PROVE  s[i] \in S
OBVIOUS

LEMMA ChainGrows ==
    ASSUME NEW ids \in Seq(1 .. LastId), Chain(ids), NEW x \in 1 .. LastId,
           ids # <<>> => x = ids[Len(ids)] + 1 \/ (ids[Len(ids)] = LastId /\ x = 1)
    PROVE  /\ Append(ids, x) \in Seq(1 .. LastId) /\ Chain(Append(ids, x))
           /\ Append(ids, x)[Len(Append(ids, x))] = x
<1> DEFINE n == Len(ids)
           a == Append(ids, x)
<1>0. LastId \in Nat /\ LastId > 1
    BY SessionAssumption DEF LastId
<1>1. /\ n \in Nat /\ a \in Seq(1 .. LastId) /\ Len(a) = n + 1 /\ a[n + 1] = x
      /\ \A i \in 1 .. n : a[i] = ids[i] /\ ids[i] \in 1 .. LastId
      /\ n > 0 => ids # <<>>
  <2>1. n \in Nat /\ a \in Seq(1 .. LastId) /\ Len(a) = n + 1 /\ a[n + 1] = x
    OBVIOUS
  <2>2. ASSUME NEW i \in 1 .. n PROVE a[i] = ids[i] /\ ids[i] \in 1 .. LastId
    <3>1. i \in 1 .. Len(ids) /\ Append(ids, x)[i] = ids[i]
      OBVIOUS
    <3>2. ids[i] \in 1 .. LastId
      <4> HIDE DEF n, a
      <4> QED
        BY <3>1, MemberOfSeq
    <3> QED
      BY <3>1, <3>2
  <2>3. n > 0 => ids # <<>>
    OBVIOUS
  <2> QED
    BY <2>1, <2>2, <2>3
<1> HIDE DEF n, a
<1>2. ASSUME NEW i \in 1 .. n + 1, NEW j \in 1 .. n + 1, i < j, j - i < LastId
      PROVE  a[j] = a[i] + (j - i) \/ a[j] = a[i] + (j - i) - LastId
  <2>0. i \in 1 .. n /\ a[i] = ids[i] /\ ids[i] \in 1 .. LastId
    BY <1>1, <1>2
  <2>1. CASE j <= n
    BY <1>1, <1>2, <2>0, <2>1 DEF Chain, n
  <2>2. CASE j = n + 1
    <3>1. ids[n] \in 1 .. LastId /\ n \in 1 .. n /\ (x = ids[n] + 1 \/ (ids[n] = LastId /\ x = 1))
      BY <1>1, <1>2, <2>0 DEF n
    <3>2. ids[n] = ids[i] + (n - i) \/ ids[n] = ids[i] + (n - i) - LastId
      <4>1. CASE i = n
        BY <1>1, <2>0, <3>1, <4>1
      <4>2. CASE i < n
        BY <1>0, <1>1, <1>2, <2>0, <2>2, <3>1, <4>2 DEF Chain, n
      <4> QED
        BY <1>1, <2>0, <4>1, <4>2
    <3>3. x = ids[i] + (n + 1 - i) \/ x = ids[i] + (n + 1 - i) - LastId
      <4> DEFINE y == ids[n]
                 z == ids[i]
      <4>1. /\ y \in 1 .. LastId /\ z \in 1 .. LastId /\ (x = y + 1 \/ (y = LastId /\ x = 1))
            /\ y = z + (n - i) \/ y = z + (n - i) - LastId
        BY <2>0, <3>1, <3>2
      <4> HIDE DEF y, z
      <4>2. x = z + (n + 1 - i) \/ x = z + (n + 1 - i) - LastId
        BY <1>0, <1>1, <1>2, <2>0, <2>2, <4>1
      <4> QED
        BY <4>2 DEF z
    <3> QED
      BY <1>1, <2>0, <2>2, <3>3
  <2> QED
    BY <1>1, <1>2, <2>1, <2>2
<1>3. Chain(a)
    BY <1>1, <1>2 DEF Chain
<1> QED
    BY <1>1, <1>3 DEF a

(* The strings of a CONNECT.                                                  *)
LEMMA ConcatLen ==
    ASSUME NEW S, NEW s \in Seq(S), NEW t \in Seq(S)
    PROVE  s \o t \in Seq(S) /\ Len(s \o t) = Len(s) + Len(t)
OBVIOUS

LEMMA PayloadFacts ==
    ASSUME NEW id \in StringLens, NEW will \in Strings, NEW user \in Strings, NEW pass \in Strings
    PROVE  /\ Len(Payload(id, will, user, pass)) \in 1 .. 5
           /\ DOMAIN Payload(id, will, user, pass) = 1 .. Len(Payload(id, will, user, pass))
           /\ Len(Payload(id, will, user, pass)) =
                  1 + (IF Flags(will, user, pass).will THEN 2 ELSE 0)
                    + Cardinality({x \in {"user", "pass"} : Flags(will, user, pass)[x]})
<1>1. Cardinality({}) = 0 /\ Cardinality({"user"}) = 1 /\ Cardinality({"user", "pass"}) = 2
  <2>1. Cardinality({}) = 0 /\ Cardinality({"user"}) = 1 /\ IsFiniteSet({"user"})
    BY FS_EmptySet, FS_Singleton
  <2>2. Cardinality({"user"} \cup {"pass"}) = Cardinality({"user"}) + 1
    BY <2>1, FS_AddElement
  <2>3. {"user"} \cup {"pass"} = {"user", "pass"}
    OBVIOUS
  <2> QED
    BY <2>1, <2>2, <2>3
<1> DEFINE f == Flags(will, user, pass)
           w == IF will = Absent THEN <<>> ELSE <<will, will>>
           u == IF user = Absent THEN <<>> ELSE <<user>>
           q == IF user = Absent \/ pass = Absent THEN <<>> ELSE <<pass>>
<1>2. /\ f.will <=> will # Absent
      /\ f["user"] <=> user # Absent
      /\ f["pass"] <=> user # Absent /\ pass # Absent
    BY DEF Flags
<1>3. {x \in {"user", "pass"} : f[x]} =
          IF user = Absent THEN {} ELSE IF pass = Absent THEN {"user"} ELSE {"user", "pass"}
    BY <1>2
<1>4. /\ w \in Seq(Strings) /\ Len(w) = IF will = Absent THEN 0 ELSE 2
      /\ u \in Seq(Strings) /\ Len(u) = IF user = Absent THEN 0 ELSE 1
      /\ q \in Seq(Strings) /\ Len(q) = IF user = Absent \/ pass = Absent THEN 0 ELSE 1
      /\ <<id>> \in Seq(Strings) /\ Len(<<id>>) = 1
  <2>1. id \in Strings
    BY DEF Strings
  <2> QED
    BY <2>1
<1>5. Payload(id, will, user, pass) = <<id>> \o w \o u \o q
    BY DEF Payload
<1> HIDE DEF f, w, u, q
<1>6. /\ <<id>> \o w \o u \o q \in Seq(Strings)
      /\ Len(<<id>> \o w \o u \o q) = Len(<<id>>) + Len(w) + Len(u) + Len(q)
  <2>1. <<id>> \o w \in Seq(Strings) /\ Len(<<id>> \o w) = Len(<<id>>) + Len(w)
    BY <1>4, ConcatLen
  <2>2. /\ (<<id>> \o w) \o u \in Seq(Strings)
        /\ Len((<<id>> \o w) \o u) = Len(<<id>> \o w) + Len(u)
    BY <1>4, <2>1, ConcatLen
  <2>3. /\ ((<<id>> \o w) \o u) \o q \in Seq(Strings)
        /\ Len(((<<id>> \o w) \o u) \o q) = Len((<<id>> \o w) \o u) + Len(q)
    BY <1>4, <2>2, ConcatLen
  <2>4. Len(<<id>>) \in Nat /\ Len(w) \in Nat /\ Len(u) \in Nat /\ Len(q) \in Nat
    BY <1>4
  <2> QED
    BY <2>1, <2>2, <2>3, <2>4
<1>7. /\ Len(Payload(id, will, user, pass)) = 1 + Len(w) + Len(u) + Len(q)
      /\ DOMAIN Payload(id, will, user, pass) = 1 .. Len(Payload(id, will, user, pass))
    BY <1>4, <1>5, <1>6
<1>8. Len(Payload(id, will, user, pass)) = 1 + (IF f.will THEN 2
      ELSE 0) + Cardinality({x \in {"user", "pass"} : f[x]})
  <2> DEFINE flagged == {x \in {"user", "pass"} : f[x]}
  <2>1. (IF f.will THEN 2 ELSE 0) = Len(w)
    BY <1>2, <1>4
  <2>2. Cardinality(flagged) = Len(u) + Len(q)
    <3>1. CASE user = Absent
      <4>1. flagged = {} /\ Len(u) = 0 /\ Len(q) = 0
        BY <1>3, <1>4, <3>1
      <4> HIDE DEF flagged
      <4> QED
        BY <1>1, <4>1
    <3>2. CASE user # Absent /\ pass = Absent
      <4>1. flagged = {"user"} /\ Len(u) = 1 /\ Len(q) = 0
        BY <1>3, <1>4, <3>2
      <4> HIDE DEF flagged
      <4> QED
        BY <1>1, <4>1
    <3>3. CASE user # Absent /\ pass # Absent
      <4>1. flagged = {"user", "pass"} /\ Len(u) = 1 /\ Len(q) = 1
        BY <1>3, <1>4, <3>3
      <4> HIDE DEF flagged
      <4> QED
        BY <1>1, <4>1
    <3> QED
      BY <3>1, <3>2, <3>3
  <2>3. Len(w) \in Nat /\ Len(u) \in Nat /\ Len(q) \in Nat
    BY <1>4
  <2> HIDE DEF flagged
  <2>4. Len(Payload(id, will, user, pass)) = 1 + (IF f.will THEN 2 ELSE 0) + Cardinality(flagged)
    <3>1. Len(Payload(id, will, user, pass)) = 1 + Len(w) + (Len(u) + Len(q))
      BY <1>7, <2>3
    <3> QED
      BY <2>1, <2>2, <3>1
  <2> QED
    BY <2>4 DEF flagged
<1>9. Len(Payload(id, will, user, pass)) \in 1 .. 5
    BY <1>4, <1>7
<1> QED
    BY <1>7, <1>8, <1>9 DEF f

LEMMA RequestInit == SessionInit => RequestInv
<1> SUFFICES ASSUME SessionInit PROVE RequestInv
    OBVIOUS
<1>1. IdInv
    BY SessionAssumption DEF SessionInit, IdInv, LastId, Chain
<1>2. ServerSet
    BY SessionAssumption DEF SessionInit, ServerSet
<1>3. BuiltInv
    BY SessionAssumption DEF SessionInit, BuiltInv, NoRequest
<1> QED
    BY <1>1, <1>2, <1>3 DEF RequestInv

LEMMA RequestStep == RequestInv /\ [SessionNext]_sessionVars => RequestInv'
<1> SUFFICES ASSUME RequestInv, [SessionNext]_sessionVars PROVE RequestInv'
    OBVIOUS
<1> USE DEF RequestInv
<1>0. LastId \in Nat /\ 1 \in 0 .. LastId /\ Absent \notin {"ip", "domain"}
    BY SessionAssumption DEF LastId
<1>a. built' = NoRequest => BuiltInv'
    BY SessionAssumption DEF BuiltInv, NoRequest
<1>b. NewConnection => IdInv'
    BY <1>0 DEF NewConnection, IdInv, Chain
<1>1. CASE SetServerIp \/ SetServerDomain
  <2>1. UNCHANGED <<linked, nextMsgId, requestIds, built>>
    BY <1>1 DEF SetServerIp, SetServerDomain
  <2>2. ServerSet'
    BY <1>0, <1>1 DEF SetServerIp, SetServerDomain, ServerSet
  <2> QED
    BY <2>1, <2>2 DEF IdInv, BuiltInv
<1>2. CASE SetCallback \/ UNCHANGED sessionVars
  <2>1. UNCHANGED <<server, lastAsked, linked, nextMsgId, requestIds, built>>
    BY <1>2 DEF SetCallback, sessionVars
  <2> QED
    BY <2>1 DEF IdInv, BuiltInv, ServerSet
<1>3. CASE Connect
  <2>1. PICK id \in StringLens, will \in Strings, user \in Strings, pass \in Strings :
            LET strings == Payload(id, will, user, pass)
            IN  /\ Fits(strings)
                /\ built' = [kind |-> "connect", flags |-> Flags(will, user, pass),
                             fields |-> strings, end |-> EndOf(strings)[Len(strings)]]
    BY <1>3 DEF Connect
  <2>2. BuiltInv'
    <3> DEFINE p == Payload(id, will, user, pass)
               f == Flags(will, user, pass)
    <3>0. /\ Len(p) \in 1 .. 5 /\ DOMAIN p = 1 .. Len(p)
          /\ Len(p) = 1 + (IF f.will THEN 2 ELSE 0) + Cardinality({x \in {"user", "pass"} : f[x]})
      <4> HIDE DEF p, f
      <4> QED
        BY PayloadFacts DEF p, f
    <3>1. /\ Len(p) \in DOMAIN p
          /\ Len(p) = 1 + (IF f.will THEN 2 ELSE 0) + Cardinality({x \in {"user", "pass"} : f[x]})
      <4> HIDE DEF p, f
      <4> QED
        BY <3>0
    <3>2. EndOf(p)[Len(p)] <= BufferSize
      BY <2>1, <3>1 DEF Fits
    <3> HIDE DEF p, f
    <3>3. built'.end = EndOf(p)[Len(p)] /\ built'.kind = "connect" /\ built'.fields = p
          /\ built'.flags = f
      BY <2>1 DEF p, f
    <3> QED
      BY <3>1, <3>2, <3>3 DEF BuiltInv
  <2>3. ServerSet'
    BY <1>0, <1>3 DEF Connect, ServerSet
  <2> QED
    BY <1>3, <1>b, <2>2, <2>3 DEF Connect
<1>4. CASE ConnectRefused
  <2>1. UNCHANGED <<server, linked, lastAsked>> /\ NewConnection /\ built' = NoRequest
    BY <1>4 DEF ConnectRefused
  <2> QED
    BY <1>a, <1>b, <2>1 DEF ServerSet
<1>5. CASE Subscribe \/ Unsubscribe
  <2>1. PICK topic \in StringLens, kind \in {"subscribe", "unsubscribe"} : Request(kind, topic)
    BY <1>5 DEF Subscribe, Unsubscribe
  <2>2. IdInv'
    <3>1. PICK x \in 1 .. LastId : x = IdAfter(nextMsgId)
               /\ (x = nextMsgId + 1 \/ (nextMsgId = LastId /\ x = 1))
      BY IdAfterFacts DEF IdInv
    <3>2. nextMsgId' = x /\ requestIds' = Append(requestIds, x)
      BY <2>1, <3>1 DEF Request
    <3>3. /\ requestIds \in Seq(1 .. LastId) /\ Chain(requestIds)
          /\ requestIds # <<>> => x = requestIds[Len(requestIds)] + 1
             \/ (requestIds[Len(requestIds)] = LastId /\ x = 1)
      BY <3>1 DEF IdInv
    <3>4. x \in 0 .. LastId
      BY <1>0
    <3> QED
      BY <3>2, <3>3, <3>4, ChainGrows DEF IdInv
  <2>3. ServerSet'
    BY <2>1 DEF Request, ServerSet
  <2>4. /\ topic \in Nat /\ BufferSize >= 9 + topic /\ built'.kind = kind
           /\ built'.fields[1] = topic
        /\ built'.end = 9 + topic + (IF kind = "subscribe" THEN 1 ELSE 0)
    BY <2>1, SessionAssumption DEF Request
  <2>5. BuiltInv'
    BY <2>1, <2>4, SessionAssumption DEF BuiltInv
  <2> QED
    BY <2>2, <2>3, <2>5
<1>6. CASE OtherPacket \/ ReceiveQos1 \/ ReceiveUnheard \/ CallbackReturns
  <2>1. UNCHANGED <<server, linked, lastAsked, nextMsgId, requestIds>> /\ built' = NoRequest
    BY <1>6 DEF OtherPacket, ReceiveQos1, ReceiveUnheard, CallbackReturns
  <2> QED
    BY <1>a, <2>1 DEF IdInv, ServerSet
<1>7. CASE Disconnected
  <2>1. UNCHANGED <<server, lastAsked, nextMsgId>> /\ linked' = Absent /\ requestIds' = <<>>
        /\ built' = NoRequest
    BY <1>7 DEF Disconnected
  <2>2. IdInv'
    BY <2>1 DEF IdInv, Chain
  <2>3. ServerSet'
    BY <2>1 DEF ServerSet
  <2> QED
    BY <1>a, <2>1, <2>2, <2>3
<1> QED
    BY <1>1, <1>2, <1>3, <1>4, <1>5, <1>6, <1>7 DEF SessionNext

(* Every request goes to the server set last, lies in the buffer but for the  *)
(* longest topic, announces its strings, and bears a fresh id (120-187,       *)
(* 530-575).                                                                  *)
THEOREM RequestsAreAsAsked == SessionSpec => []RequestsAsAsked
<1>1. RequestInv => RequestsAsAsked
  <2> SUFFICES ASSUME RequestInv PROVE RequestsAsAsked
    OBVIOUS
  <2>1. ASSUME NEW i \in DOMAIN requestIds, NEW j \in DOMAIN requestIds
        PROVE  requestIds[i] # 0 /\ ((i < j /\ j - i < IdMod - 1) => requestIds[i] # requestIds[j])
    <3>1. LastId \in Nat /\ DOMAIN requestIds = 1 .. Len(requestIds)
          /\ requestIds[i] \in 1 .. LastId
      BY SessionAssumption DEF RequestInv, IdInv, LastId
    <3>2. requestIds[j] \in 1 .. LastId /\ i \in Nat /\ j \in Nat
      BY <3>1 DEF RequestInv, IdInv
    <3>3. (i < j /\ j - i < LastId) => \/ requestIds[j] = requestIds[i] + (j - i)
                                      \/ requestIds[j] = requestIds[i] + (j - i) - LastId
      BY <3>1 DEF RequestInv, IdInv, Chain
    <3>4. (i < j /\ j - i < LastId) => requestIds[i] # requestIds[j]
      BY <3>1, <3>2, <3>3
    <3> QED
      BY <3>1, <3>4 DEF LastId
  <2> QED
    BY <2>1 DEF RequestInv, RequestsAsAsked, ServerSet, BuiltInv
<1> QED
    BY <1>1, RequestInit, RequestStep, PTL DEF SessionSpec
=============================================================================
