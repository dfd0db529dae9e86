-------------------------- MODULE AttestScript_proofs --------------------------
(***************************************************************************)
(* Proofs about the conversions and the client script, for any base and    *)
(* length of ids, any texts, repositories and number of branches.          *)
(***************************************************************************)
EXTENDS AttestScript, SequenceTheorems, NaturalsInduction, WellFoundedInduction, TLAPS

-----------------------------------------------------------------------------
(* Hex *)

LEMMA DivMod ==
    ASSUME NEW n \in Nat
    PROVE  /\ n \div Base \in Nat /\ n % Base \in 0 .. Base - 1
           /\ (n \div Base) * Base + (n % Base) = n
BY WireAssumption

LEMMA DigitsOfByte ==
    ASSUME NEW b \in Byte
    PROVE  /\ b \div Base \in 0 .. Base - 1 /\ b % Base \in 0 .. Base - 1
           /\ (b \div Base) * Base + (b % Base) = b
<1>1. b \in Nat /\ b < Base * Base
  BY WireAssumption DEF Byte, MaxByte
<1>2. /\ b \div Base \in Nat /\ b % Base \in 0 .. Base - 1
      /\ (b \div Base) * Base + (b % Base) = b
  BY <1>1, DivMod
<1>3. (b \div Base) * Base < Base * Base
  BY <1>1, <1>2, WireAssumption
<1>4. \A q \in Nat : q * Base < Base * Base => q < Base
  BY WireAssumption
<1>5. b \div Base < Base
  BY <1>2, <1>3, <1>4
<1> QED BY <1>2, <1>5, WireAssumption

LEMMA ByteOfDigits ==
    ASSUME NEW a \in 0 .. Base - 1, NEW b \in 0 .. Base - 1
    PROVE  a * Base + b \in Byte
<1>1. a * Base <= (Base - 1) * Base
  BY WireAssumption
<1>2. (Base - 1) * Base = Base * Base - Base
  BY WireAssumption
<1>3. a * Base \in Nat /\ Base * Base \in Nat
  BY WireAssumption
<1> QED BY <1>1, <1>2, <1>3, WireAssumption DEF Byte, MaxByte

Digits == 0 .. Base - 1

LEMMA HexEncodes ==
    ASSUME NEW bytes \in Seq(Byte)
    PROVE  /\ HexEncode(bytes) \in Seq(Digits)
           /\ Len(HexEncode(bytes)) = 2 * Len(bytes)
           /\ \A k \in 1 .. Len(bytes) :
                /\ HexEncode(bytes)[2 * k - 1] = bytes[k] \div Base
                /\ HexEncode(bytes)[2 * k] = bytes[k] % Base
<1>1. ASSUME NEW k \in 1 .. 2 * Len(bytes)
      PROVE  (IF k % 2 = 1 THEN bytes[(k + 1) \div 2] \div Base
              ELSE bytes[k \div 2] % Base) \in Digits
  <2>1. CASE k % 2 = 1
    <3>1. (k + 1) \div 2 \in 1 .. Len(bytes)
      BY <2>1
    <3> QED BY <2>1, <3>1, DigitsOfByte DEF Digits
  <2>2. CASE k % 2 # 1
    <3>1. k \div 2 \in 1 .. Len(bytes)
      BY <2>2
    <3> QED BY <2>2, <3>1, DigitsOfByte DEF Digits
  <2> QED BY <2>1, <2>2
<1>2. HexEncode(bytes) \in [1 .. 2 * Len(bytes) -> Digits]
  BY <1>1 DEF HexEncode
<1>3. HexEncode(bytes) \in Seq(Digits) /\ Len(HexEncode(bytes)) = 2 * Len(bytes)
  BY <1>2
<1>4. ASSUME NEW k \in 1 .. Len(bytes)
      PROVE  /\ HexEncode(bytes)[2 * k - 1] = bytes[k] \div Base
             /\ HexEncode(bytes)[2 * k] = bytes[k] % Base
  <2>1. /\ 2 * k - 1 \in 1 .. 2 * Len(bytes) /\ (2 * k - 1) % 2 = 1
        /\ ((2 * k - 1) + 1) \div 2 = k
        /\ 2 * k \in 1 .. 2 * Len(bytes) /\ (2 * k) % 2 # 1 /\ (2 * k) \div 2 = k
    OBVIOUS
  <2> QED BY <2>1 DEF HexEncode
<1> QED BY <1>3, <1>4

(* Hex text is read back as the bytes it was made from. *)
LEMMA HexRoundTrip ==
    ASSUME NEW bytes \in Seq(Byte)
    PROVE  HexDecode(HexEncode(bytes)) = bytes
<1> DEFINE s == HexEncode(bytes)
<1>1. /\ s \in Seq(Digits) /\ Len(s) = 2 * Len(bytes)
      /\ \A k \in 1 .. Len(bytes) :
            s[2 * k - 1] = bytes[k] \div Base /\ s[2 * k] = bytes[k] % Base
  BY HexEncodes
<1> HIDE DEF s
<1>2. Len(s) % 2 = 0 /\ Len(s) \div 2 = Len(bytes)
  BY <1>1
<1>3. X \notin ToSet(s)
  BY <1>1, WireAssumption DEF X, ToSet, Digits
<1>4. \A k \in 1 .. Len(bytes) : s[2 * k - 1] * Base + s[2 * k] = bytes[k]
  BY <1>1, DigitsOfByte
<1>5. HexDecode(s) = [k \in 1 .. Len(bytes) |-> s[2 * k - 1] * Base + s[2 * k]]
  BY <1>2, <1>3 DEF HexDecode
<1>6. HexDecode(s) = [k \in 1 .. Len(bytes) |-> bytes[k]]
  BY <1>4, <1>5
<1>7. bytes = [k \in 1 .. Len(bytes) |-> bytes[k]]
  OBVIOUS
<1> QED BY <1>6, <1>7 DEF s

-----------------------------------------------------------------------------
(* Object ids *)

LEMMA BytesAreNumbers == Seq(Byte) \subseteq Seq(Nat)
<1>1. Byte \subseteq Nat
  BY WireAssumption DEF Byte, MaxByte
<1> QED BY <1>1, SeqMonotonic

LEMMA ObjectIdsAreBytes ==
    ASSUME NEW id \in ObjectId
    PROVE  id \in Seq(Byte) /\ Len(id) = IdBytes
BY WireAssumption DEF ObjectId

LEMMA PrefixIsStripped ==
    ASSUME NEW s \in Seq(Digits)
    PROVE  StripPrefix(OxPrefix \o s) = s
<1>1. OxPrefix \in Seq(Nat) /\ s \in Seq(Nat) /\ Len(OxPrefix) = 2
  BY WireAssumption DEF OxPrefix, X, Digits
<1> DEFINE t == OxPrefix \o s
<1>2. /\ t \in Seq(Nat) /\ Len(t) = 2 + Len(s) /\ t[1] = OxPrefix[1] /\ t[2] = OxPrefix[2]
      /\ \A k \in 1 .. Len(s) : t[k + 2] = s[k]
  <2>1. /\ t \in Seq(Nat) /\ Len(t) = Len(OxPrefix) + Len(s)
        /\ \A k \in 1 .. Len(OxPrefix) + Len(s) :
              t[k] = IF k <= Len(OxPrefix) THEN OxPrefix[k] ELSE s[k - Len(OxPrefix)]
    BY <1>1, ConcatProperties
  <2> HIDE DEF t
  <2>2. t \in Seq(Nat) /\ Len(t) = 2 + Len(s)
    BY <1>1, <2>1
  <2>3. Len(s) \in Nat
    BY <1>1
  <2>4. t[1] = OxPrefix[1] /\ t[2] = OxPrefix[2]
    BY <1>1, <2>1, <2>3
  <2>5. ASSUME NEW k \in 1 .. Len(s) PROVE t[k + 2] = s[k]
    BY <1>1, <2>1, <2>3
  <2> QED BY <2>2, <2>4, <2>5
<1> HIDE DEF t
<1>3. SubSeq(t, 1, 2) = SubSeq(OxPrefix, 1, 2)
  BY <1>1, <1>2
<1>4. IsPrefix(OxPrefix, t)
  BY <1>1, <1>2, <1>3 DEF IsPrefix
<1>5. SubSeq(t, 3, Len(t)) = s
  BY <1>1, <1>2
<1> QED BY <1>4, <1>5 DEF StripPrefix, t

LEMMA NothingToPad ==
    ASSUME NEW s \in Seq(Nat), Len(s) = 2 * IdBytes PROVE PadLeft(s) = s
<1>1. 2 * IdBytes - Len(s) = 0
  BY WireAssumption
<1>2. [k \in 1 .. 0 |-> 0] = <<>>
  OBVIOUS
<1> QED BY <1>1, <1>2 DEF PadLeft

(* The address literal of the transaction is the id that was signed. *)
LEMMA LiteralRoundTrip ==
    ASSUME NEW id \in ObjectId
    PROVE  parse_pkg_id(OxPrefix \o HexEncode(id)) = id
<1> DEFINE s == HexEncode(id)
<1>1. id \in Seq(Byte) /\ Len(id) = IdBytes
  BY ObjectIdsAreBytes
<1>2. s \in Seq(Digits) /\ Len(s) = 2 * IdBytes
  BY <1>1, HexEncodes
<1>3. HexDecode(s) = id
  BY <1>1, HexRoundTrip
<1> HIDE DEF s
<1>4. StripPrefix(OxPrefix \o s) = s
  BY <1>2, PrefixIsStripped
<1>5. PadLeft(s) = s
  BY <1>2, NothingToPad, WireAssumption DEF Digits
<1>6. id # Error
  <2>1. id \in Seq(Nat)
    BY <1>1, BytesAreNumbers
  <2> QED BY <2>1, WireAssumption
<1>7. ~(Len(s) > 2 * IdBytes)
  BY <1>2, WireAssumption
<1> QED BY <1>1, <1>3, <1>4, <1>5, <1>6, <1>7 DEF parse_pkg_id, s

(* Text is parsed to an object id, or refused. *)
Symbols == 0 .. X

LEMMA DecodedAreBytes ==
    ASSUME NEW s \in Seq(Symbols), HexDecode(s) # Error
    PROVE  HexDecode(s) \in Seq(Byte)
<1>1. Len(s) % 2 = 0 /\ X \notin ToSet(s)
  BY DEF HexDecode
<1>2. ASSUME NEW k \in 1 .. Len(s) PROVE s[k] \in Digits
  BY <1>1, WireAssumption DEF ToSet, Symbols, X, Digits
<1>3. ASSUME NEW k \in 1 .. Len(s) \div 2 PROVE s[2 * k - 1] * Base + s[2 * k] \in Byte
  <2>1. 2 * k - 1 \in 1 .. Len(s) /\ 2 * k \in 1 .. Len(s)
    OBVIOUS
  <2> QED BY <1>2, <2>1, ByteOfDigits DEF Digits
<1>4. HexDecode(s) = [k \in 1 .. Len(s) \div 2 |-> s[2 * k - 1] * Base + s[2 * k]]
  BY <1>1 DEF HexDecode
<1>5. HexDecode(s) \in [1 .. Len(s) \div 2 -> Byte] /\ Len(s) \div 2 \in Nat
  BY <1>3, <1>4
<1> QED BY <1>5

LEMMA ParsedIsObjectId ==
    ASSUME NEW text \in Seq(Symbols), parse_pkg_id(text) # Error
    PROVE  parse_pkg_id(text) \in ObjectId
<1> DEFINE hex   == StripPrefix(text)
           bytes == HexDecode(PadLeft(hex))
<1>1. hex \in Seq(Symbols)
  BY DEF StripPrefix
<1>2. [k \in 1 .. 2 * IdBytes - Len(hex) |-> 0] \in Seq(Symbols)
  <2>1. CASE 2 * IdBytes - Len(hex) \in Nat
    <3> DEFINE n == 2 * IdBytes - Len(hex)
    <3>1. 0 \in Symbols /\ n \in Nat
      BY <2>1, WireAssumption DEF Symbols, X
    <3> HIDE DEF n
    <3>2. [k \in 1 .. n |-> 0] \in Seq(Symbols)
      BY <3>1
    <3> QED BY <3>2 DEF n
  <2>2. CASE 2 * IdBytes - Len(hex) \notin Nat
    <3>1. 1 .. 2 * IdBytes - Len(hex) = 1 .. 0
      BY <1>1, <2>2, WireAssumption
    <3>2. [k \in 1 .. 0 |-> 0] \in Seq(Symbols)
      OBVIOUS
    <3> QED BY <3>1, <3>2
  <2> QED BY <2>1, <2>2
<1>3. PadLeft(hex) \in Seq(Symbols)
  BY <1>1, <1>2 DEF PadLeft
<1>4. parse_pkg_id(text) = bytes /\ bytes # Error /\ Len(bytes) = IdBytes
  BY DEF parse_pkg_id
<1>5. bytes \in Seq(Byte)
  BY <1>3, <1>4, DecodedAreBytes
<1> HIDE DEF bytes
<1>6. bytes \in [1 .. IdBytes -> Byte]
  BY <1>4, <1>5
<1> QED BY <1>4, <1>6 DEF ObjectId

-----------------------------------------------------------------------------
(* The number an id writes *)

LessPairs == {ss \in Nat \X Nat : ss[1] < ss[2]}

LEMMA LessIsWellFounded == IsWellFoundedOn(LessPairs, Nat)
<1>1. LessPairs = OpToRel(<, Nat)
  BY Zenon DEF OpToRel, LessPairs
<1> QED BY <1>1, NatLessThanWellFounded, Zenon

LEMMA LeastNumber ==
    ASSUME NEW S \in SUBSET Nat, S # {}
    PROVE  \E n \in S : \A m \in S : n <= m
<1>1. PICK x \in S : \A y \in S : <<y, x>> \notin LessPairs
  BY LessIsWellFounded, WFMin, Zenon
<1>2. ASSUME NEW y \in S PROVE x <= y
  <2>1. <<y, x>> \notin LessPairs /\ y \in Nat /\ x \in Nat
     BY <1>1
  <2>2. ~(y < x)
     BY <2>1 DEF LessPairs
  <2> QED BY <2>1, <2>2
<1> QED BY <1>2

(* Induction, about a set of numbers.                                      *)
LEMMA Induction ==
    ASSUME NEW S, 0 \in S, \A n \in Nat : n \in S => n + 1 \in S
    PROVE  Nat \subseteq S
<1> SUFFICES ASSUME ~(Nat \subseteq S) PROVE FALSE
  OBVIOUS
<1>1. Nat \ S # {}
  OBVIOUS
<1>2. PICK n \in Nat \ S : \A m \in Nat \ S : n <= m
  <2>1. Nat \ S \in SUBSET Nat
    OBVIOUS
  <2> QED BY <1>1, <2>1, LeastNumber, Zenon
<1>3. n # 0
  OBVIOUS
<1>4. n - 1 \in Nat /\ ~(n <= n - 1) /\ (n - 1) + 1 = n
  BY <1>3
<1> QED BY <1>2, <1>4

LEMMA DigitsAreNumbers == \A d \in Seq(Nat) : \A i \in 1 .. Len(d) : d[i] \in Nat
OBVIOUS

LEMMA OneMoreDigit == \A n, base, digit \in Nat : n * base + digit \in Nat
OBVIOUS

(* The values of the beginnings of a sequence of digits.                   *)
IsValue(v, d, base, n) ==
    /\ v \in [0 .. n -> Nat] /\ v[0] = 0
    /\ \A i \in 1 .. n : v[i] = v[i - 1] * base + d[i]

LEMMA ValueExists ==
    ASSUME NEW d \in Seq(Nat), NEW base \in Nat
    PROVE  \E v : IsValue(v, d, base, Len(d))
<1> DEFINE S == {n \in Nat : n <= Len(d) => \E v : IsValue(v, d, base, n)}
<1>1. 0 \in S
  <2>1. IsValue([i \in 0 .. 0 |-> 0], d, base, 0)
    BY DEF IsValue
  <2> QED BY <2>1
<1>2. ASSUME NEW n \in Nat, n \in S PROVE n + 1 \in S
  <2> SUFFICES ASSUME n + 1 <= Len(d) PROVE \E v : IsValue(v, d, base, n + 1)
    OBVIOUS
  <2>1. PICK v : IsValue(v, d, base, n)
    BY <1>2
  <2> DEFINE w == [i \in 0 .. n + 1 |-> IF i <= n THEN v[i] ELSE v[n] * base + d[n + 1]]
  <2>2. d[n + 1] \in Nat /\ v[n] \in Nat
    BY <2>1 DEF IsValue
  <2>3. v[n] * base + d[n + 1] \in Nat
    BY <2>2, OneMoreDigit
  <2>4. w \in [0 .. n + 1 -> Nat] /\ w[0] = 0
    BY <2>1, <2>3 DEF IsValue
  <2>5. ASSUME NEW i \in 1 .. n + 1 PROVE w[i] = w[i - 1] * base + d[i]
    <3>1. CASE i <= n
      BY <2>1, <3>1 DEF IsValue
    <3>2. CASE i = n + 1
      BY <3>2
    <3> QED BY <3>1, <3>2
  <2> HIDE DEF w
  <2>6. IsValue(w, d, base, n + 1)
    BY <2>4, <2>5 DEF IsValue
  <2> QED BY <2>6
<1> HIDE DEF S
<1>3. Nat \subseteq S
  BY <1>1, <1>2, Induction
<1> QED BY <1>3 DEF S

LEMMA NumberIsValue ==
    ASSUME NEW d \in Seq(Nat), NEW base \in Nat
    PROVE  \E v : IsValue(v, d, base, Len(d)) /\ NumberOf(d, base) = v[Len(d)]
<1> DEFINE Step(f) == [n \in 0 .. Len(d) |-> IF n = 0 THEN 0 ELSE f[n - 1] * base + d[n]]
           value == CHOOSE f : f = Step(f)
<1>1. NumberOf(d, base) = value[Len(d)]
  BY DEF NumberOf
<1>2. ASSUME NEW v, IsValue(v, d, base, Len(d)) PROVE v = Step(v)
  BY <1>2 DEF IsValue
<1>3. value = Step(value)
  <2> HIDE DEF Step
  <2> QED BY <1>2, ValueExists
<1> DEFINE n == Len(d)
<1>4. n \in Nat /\ \A i \in 1 .. n : d[i] \in Nat
  BY LenProperties
<1> HIDE DEF value
<1>5. value = [i \in 0 .. n |-> IF i = 0 THEN 0 ELSE value[i - 1] * base + d[i]]
  BY <1>3
<1> HIDE DEF n
<1>6. /\ DOMAIN value = 0 .. n /\ value[0] = 0
      /\ \A i \in 1 .. n : value[i] = value[i - 1] * base + d[i]
  BY <1>4, <1>5
<1> DEFINE S == {i \in Nat : i <= n => value[i] \in Nat}
<1>7. 0 \in S
  BY <1>6
<1>8. ASSUME NEW i \in Nat, i \in S PROVE i + 1 \in S
  <2> SUFFICES ASSUME i + 1 <= n PROVE value[i + 1] \in Nat
    OBVIOUS
  <2>1. value[i] \in Nat /\ d[i + 1] \in Nat
    BY <1>4, <1>8
  <2>2. value[i + 1] = value[i] * base + d[i + 1]
    BY <1>4, <1>6
  <2> QED BY <2>1, <2>2, OneMoreDigit
<1> HIDE DEF S
<1>9. Nat \subseteq S
  BY <1>7, <1>8, Induction
<1>10. value \in [0 .. n -> Nat]
  <2>1. \A i \in 0 .. n : value[i] \in Nat
    BY <1>4, <1>9 DEF S
  <2> QED BY <1>5, <2>1
<1>11. IsValue(value, d, base, n)
  BY <1>6, <1>10 DEF IsValue
<1> QED BY <1>1, <1>11 DEF n

LEMMA TwoDigits ==
    ASSUME NEW v \in Nat, NEW a \in Nat, NEW b \in Nat, NEW base \in Nat
    PROVE  (v * base + a) * base + b = v * (base * base) + (a * base + b)
OBVIOUS

(* Two digits to a byte write the same number ...                          *)
LEMMA BytesWriteTheNumber ==
    ASSUME NEW n \in Nat, NEW d \in Seq(Nat), Len(d) = 2 * n, NEW bytes \in Seq(Nat),
           Len(bytes) = n, \A k \in 1 .. n : bytes[k] = d[2 * k - 1] * Base + d[2 * k]
    PROVE  NumberOf(bytes, Base * Base) = NumberOf(d, Base)
<1>1. Base \in Nat /\ Base * Base \in Nat
  BY WireAssumption
<1>2. PICK v : IsValue(v, d, Base, 2 * n) /\ NumberOf(d, Base) = v[2 * n]
  BY <1>1, NumberIsValue
<1>3. PICK w : IsValue(w, bytes, Base * Base, n) /\ NumberOf(bytes, Base * Base) = w[n]
  BY <1>1, NumberIsValue
<1> DEFINE S == {k \in Nat : k <= n => w[k] = v[2 * k]}
<1>4. 0 \in S
  BY <1>2, <1>3 DEF IsValue
<1>5. ASSUME NEW k \in Nat, k \in S PROVE k + 1 \in S
  <2> SUFFICES ASSUME k + 1 <= n PROVE w[k + 1] = v[2 * (k + 1)]
    OBVIOUS
  <2>1. w[k] = v[2 * k] /\ v[2 * k] \in Nat
    BY <1>2, <1>5 DEF IsValue
  <2>2. /\ 2 * k + 1 \in 1 .. 2 * n /\ 2 * k + 2 \in 1 .. 2 * n /\ k + 1 \in 1 .. n
        /\ (2 * k + 1) - 1 = 2 * k /\ (2 * k + 2) - 1 = 2 * k + 1 /\ (k + 1) - 1 = k
        /\ 2 * (k + 1) = 2 * k + 2 /\ 2 * (k + 1) - 1 = 2 * k + 1
    OBVIOUS
  <2>3. v[2 * k + 1] = v[2 * k] * Base + d[2 * k + 1]
    BY <1>2, <2>2 DEF IsValue
  <2>4. v[2 * k + 2] = v[2 * k + 1] * Base + d[2 * k + 2]
    BY <1>2, <2>2 DEF IsValue
  <2>5. w[k + 1] = w[k] * (Base * Base) + bytes[k + 1]
    BY <1>3, <2>2 DEF IsValue
  <2>6. bytes[k + 1] = d[2 * k + 1] * Base + d[2 * k + 2]
    BY <2>2
  <2> DEFINE y == v[2 * k]
             a == d[2 * k + 1]
             b == d[2 * k + 2]
  <2>7. y \in Nat /\ a \in Nat /\ b \in Nat
    <3>1. \A i \in 1 .. Len(d) : d[i] \in Nat
      BY DigitsAreNumbers, Zenon
    <3>2. 2 * k + 1 \in 1 .. Len(d) /\ 2 * k + 2 \in 1 .. Len(d)
      BY <2>2
    <3>3. a \in Nat /\ b \in Nat
      BY <3>1, <3>2
    <3> QED BY <2>1, <3>3
  <2>8. v[2 * k + 2] = (y * Base + a) * Base + b /\ w[k + 1] = y * (Base * Base) + (a * Base + b)
    BY <2>1, <2>3, <2>4, <2>5, <2>6
  <2> HIDE DEF y, a, b
  <2>9. w[k + 1] = v[2 * k + 2]
    BY <1>1, <2>7, <2>8, TwoDigits
  <2> QED BY <2>2, <2>9
<1> HIDE DEF S
<1>6. Nat \subseteq S
  BY <1>4, <1>5, Induction
<1>7. w[n] = v[2 * n]
  BY <1>6 DEF S
<1> QED BY <1>2, <1>3, <1>7

(* ... and so do more zeros in front.                                      *)
LEMMA ZerosInFront ==
    ASSUME NEW z \in Nat, NEW d \in Seq(Nat), NEW p \in Seq(Nat), Len(p) = z + Len(d),
           \A i \in 1 .. z : p[i] = 0, \A i \in 1 .. Len(d) : p[z + i] = d[i]
    PROVE  NumberOf(p, Base) = NumberOf(d, Base)
<1> DEFINE n == Len(d)
<1>1. Base \in Nat /\ n \in Nat /\ Len(p) = z + n
  BY WireAssumption, LenProperties
<1>2. \A i \in 1 .. n : p[z + i] = d[i]
  OBVIOUS
<1>3. PICK v : IsValue(v, p, Base, z + n) /\ NumberOf(p, Base) = v[z + n]
  BY <1>1, NumberIsValue
<1>4. PICK w : IsValue(w, d, Base, n) /\ NumberOf(d, Base) = w[n]
  BY <1>1, NumberIsValue
<1> HIDE DEF n
<1> DEFINE S == {i \in Nat : i <= z => v[i] = 0}
           T == {i \in Nat : i <= n => v[z + i] = w[i]}
<1>5. 0 \in S
  BY <1>3 DEF IsValue
<1>6. ASSUME NEW i \in Nat, i \in S PROVE i + 1 \in S
  <2> SUFFICES ASSUME i + 1 <= z PROVE v[i + 1] = 0
    OBVIOUS
  <2>1. i + 1 \in 1 .. z + n /\ i + 1 \in 1 .. z /\ (i + 1) - 1 = i
    BY <1>1
  <2>2. v[i + 1] = v[i] * Base + p[i + 1]
    BY <1>3, <2>1 DEF IsValue
  <2>3. v[i] = 0 /\ p[i + 1] = 0
    BY <1>6, <2>1
  <2> QED BY <1>1, <2>2, <2>3
<1>7. v[z] = 0
  <2> HIDE DEF S
  <2>1. Nat \subseteq S
    BY <1>5, <1>6, Induction
  <2> QED BY <2>1 DEF S
<1>8. 0 \in T
  BY <1>4, <1>7 DEF IsValue
<1>9. ASSUME NEW i \in Nat, i \in T PROVE i + 1 \in T
  <2> SUFFICES ASSUME i + 1 <= n PROVE v[z + (i + 1)] = w[i + 1]
    OBVIOUS
  <2>1. z + (i + 1) \in 1 .. z + n /\ i + 1 \in 1 .. n /\ (z + (i + 1)) - 1 = z + i
        /\ (i + 1) - 1 = i
    BY <1>1
  <2>2. v[z + (i + 1)] = v[z + i] * Base + p[z + (i + 1)]
    BY <1>3, <2>1 DEF IsValue
  <2>3. w[i + 1] = w[i] * Base + d[i + 1]
    BY <1>4, <2>1 DEF IsValue
  <2>4. p[z + (i + 1)] = d[i + 1]
    BY <1>2, <2>1
  <2>5. v[z + i] = w[i]
    BY <1>1, <1>9
  <2> QED BY <2>2, <2>3, <2>4, <2>5
<1> HIDE DEF T
<1>10. Nat \subseteq T
  BY <1>8, <1>9, Induction
<1>11. v[z + n] = w[n]
  BY <1>1, <1>10 DEF T
<1> QED BY <1>3, <1>4, <1>11

(* What is parsed to an id is a number of that many digits, and the id     *)
(* writes that number.                                                     *)
LEMMA IdIsTheNumber ==
    ASSUME NEW text \in Seq(Symbols), parse_pkg_id(text) # Error
    PROVE  /\ X \notin ToSet(StripPrefix(text))
           /\ NumberOf(parse_pkg_id(text), Base * Base) = NumberOf(StripPrefix(text), Base)
<1> DEFINE hex   == StripPrefix(text)
           n     == Len(hex)
           z     == 2 * IdBytes - n
           zeros == [k \in 1 .. z |-> 0]
           p     == zeros \o hex
           bytes == HexDecode(p)
<1>1. hex \in Seq(Symbols) /\ n \in Nat
  BY LenProperties DEF StripPrefix
<1>2. /\ parse_pkg_id(text) = bytes /\ bytes # Error /\ Len(bytes) = IdBytes
      /\ ~(n > 2 * IdBytes)
  BY DEF parse_pkg_id, PadLeft
<1> HIDE DEF hex, n
<1>3. z \in Nat /\ z + n = 2 * IdBytes /\ IdBytes \in Nat
  BY <1>1, <1>2, WireAssumption
<1> HIDE DEF z
<1>4. zeros \in Seq(Symbols) /\ Len(zeros) = z /\ \A i \in 1 .. z : zeros[i] = 0
  <2>1. 0 \in Symbols
    BY WireAssumption DEF Symbols, X
  <2> QED BY <1>3, <2>1
<1> HIDE DEF zeros
<1>5. /\ p \in Seq(Symbols) /\ Len(p) = z + n
      /\ \A i \in 1 .. z : p[i] = 0
      /\ \A i \in 1 .. n : p[z + i] = hex[i]
  <2>1. /\ p \in Seq(Symbols) /\ Len(p) = z + n
        /\ \A i \in 1 .. z + n : p[i] = IF i <= z THEN zeros[i] ELSE hex[i - z]
    BY <1>1, <1>4, ConcatProperties DEF n
  <2> HIDE DEF p
  <2>2. \A i \in 1 .. z : p[i] = 0
    BY <1>1, <1>3, <1>4, <2>1
  <2>3. ASSUME NEW i \in 1 .. n PROVE p[z + i] = hex[i]
    <3>1. z + i \in 1 .. z + n /\ ~(z + i <= z) /\ (z + i) - z = i
      BY <1>1, <1>3
    <3> QED BY <2>1, <3>1
  <2> QED BY <2>1, <2>2, <2>3
<1> HIDE DEF p
<1>6. /\ X \notin ToSet(p)
      /\ bytes = [k \in 1 .. IdBytes |-> p[2 * k - 1] * Base + p[2 * k]]
  <2>1. Len(p) \div 2 = IdBytes
    BY <1>3, <1>5
  <2> QED BY <1>2, <2>1 DEF HexDecode
<1>7. p \in Seq(Nat)
  <2>1. Symbols \subseteq Nat
    BY WireAssumption DEF Symbols, X
  <2> QED BY <1>5, <2>1, SeqMonotonic
<1>8. X \notin ToSet(hex)
  <2> SUFFICES ASSUME NEW i \in 1 .. n, hex[i] = X PROVE FALSE
    BY <1>1 DEF ToSet, n
  <2>1. z + i \in DOMAIN p
    BY <1>1, <1>3, <1>5
  <2>2. p[z + i] = X
    BY <1>5
  <2> QED BY <1>6, <2>1, <2>2 DEF ToSet
<1>9. hex \in Seq(Nat)
  <2>1. Symbols \subseteq Nat
    BY WireAssumption DEF Symbols, X
  <2> QED BY <1>1, <2>1, SeqMonotonic
<1>10. bytes \in Seq(Nat)
  BY <1>2, <1>5, DecodedAreBytes, BytesAreNumbers
<1>11. \A k \in 1 .. IdBytes : bytes[k] = p[2 * k - 1] * Base + p[2 * k]
  BY <1>6
<1> HIDE DEF bytes
<1>12. NumberOf(bytes, Base * Base) = NumberOf(p, Base)
  BY <1>2, <1>3, <1>5, <1>7, <1>10, <1>11, BytesWriteTheNumber
<1>13. NumberOf(p, Base) = NumberOf(hex, Base)
  BY <1>3, <1>5, <1>7, <1>9, ZerosInFront DEF n
<1> QED BY <1>2, <1>8, <1>12, <1>13 DEF hex

-----------------------------------------------------------------------------
(* The signed bytes *)

(* Two texts that begin with parts of one length differ in those parts or  *)
(* in what follows them.                                                   *)
LEMMA SplitOneWay ==
    ASSUME NEW s \in Seq(Nat), NEW t \in Seq(Nat), NEW u \in Seq(Nat), NEW v \in Seq(Nat),
           Len(s) = Len(t), s \o u = t \o v
    PROVE  s = t /\ u = v
<1>1. /\ \A k \in 1 .. Len(s) + Len(u) : (s \o u)[k] = IF k <= Len(s) THEN s[k] ELSE u[k - Len(s)]
      /\ \A k \in 1 .. Len(t) + Len(v) : (t \o v)[k] = IF k <= Len(t) THEN t[k] ELSE v[k - Len(t)]
      /\ Len(s) \in Nat /\ Len(u) \in Nat /\ Len(v) \in Nat
  BY ConcatProperties, LenProperties
<1>2. \A k \in 1 .. Len(s) : s[k] = t[k]
  BY <1>1
<1>3. s = t
  BY <1>2, SeqEqual
<1>4. Len(u) = Len(v)
  BY ConcatProperties, LenProperties
<1>5. \A k \in 1 .. Len(u) : u[k] = v[k]
  <2>1. ASSUME NEW k \in 1 .. Len(u) PROVE u[k] = v[k]
    <3>1. /\ k + Len(s) \in 1 .. Len(s) + Len(u) /\ ~(k + Len(s) <= Len(s))
          /\ (k + Len(s)) - Len(s) = k
      BY <1>1
    <3> QED BY <1>1, <1>4, <3>1
  <2> QED BY <2>1
<1>6. u = v
  BY <1>4, <1>5, SeqEqual
<1> QED BY <1>3, <1>6

(* With its length first a String can be told from what follows it.        *)
LEMMA StringReadOneWay ==
    ASSUME NEW s \in Seq(Nat), NEW t \in Seq(Nat), NEW u \in Seq(Nat), NEW v \in Seq(Nat),
           BcsString(s, u) = BcsString(t, v)
    PROVE  s = t /\ u = v
<1>1. s \o u \in Seq(Nat) /\ t \o v \in Seq(Nat)
  BY ConcatProperties
<1>2. /\ <<Len(s)>> \in Seq(Nat) /\ <<Len(t)>> \in Seq(Nat)
      /\ Len(<<Len(s)>>) = Len(<<Len(t)>>)
  BY LenProperties
<1>3. <<Len(s)>> \o (s \o u) = <<Len(t)>> \o (t \o v)
  BY DEF BcsString
<1>4. <<Len(s)>> = <<Len(t)>> /\ s \o u = t \o v
  BY <1>1, <1>2, <1>3, SplitOneWay
<1>5. Len(s) = Len(t)
  BY <1>4
<1> QED BY <1>4, <1>5, SplitOneWay

LEMMA StringIsBytes ==
    ASSUME NEW s \in Texts, NEW rest \in Seq(Byte)
    PROVE  s \in Seq(Nat) /\ BcsString(s, rest) \in Seq(Byte)
<1>1. s \in Seq(Byte) /\ <<Len(s)>> \in Seq(Byte)
  BY ScriptAssumption
<1>2. s \o rest \in Seq(Byte)
  BY <1>1, ConcatProperties
<1>3. <<Len(s)>> \o (s \o rest) \in Seq(Byte)
  BY <1>1, <1>2, ConcatProperties
<1> QED BY <1>1, <1>3, BytesAreNumbers DEF BcsString

(* The bytes that follow the id of a payload, and those that follow each   *)
(* of its texts.                                                           *)
FromDigest(p)  == BcsString(p.toolchain_digest, <<>>)
FromVersion(p) == BcsString(p.toolchain_version, FromDigest(p))
FromSha(p)     == BcsString(p.git_sha, FromVersion(p))
FromSubdir(p)  == BcsString(p.subdir, FromSha(p))
FromUrl(p)     == BcsString(p.git_url, FromSubdir(p))
FromHash(p)    == BcsString(p.source_hash, FromUrl(p))

LEMMA RestsAreBytes ==
    ASSUME NEW p \in Payload
    PROVE  /\ FromDigest(p) \in Seq(Byte) /\ FromVersion(p) \in Seq(Byte)
           /\ FromSha(p) \in Seq(Byte) /\ FromSubdir(p) \in Seq(Byte)
           /\ FromUrl(p) \in Seq(Byte) /\ FromHash(p) \in Seq(Byte)
<1>1. FromDigest(p) \in Seq(Byte)
  BY EmptySeq, StringIsBytes DEF Payload, FromDigest
<1>2. FromVersion(p) \in Seq(Byte)
  BY <1>1, StringIsBytes DEF Payload, FromVersion
<1>3. FromSha(p) \in Seq(Byte)
  BY <1>2, StringIsBytes DEF Payload, FromSha
<1>4. FromSubdir(p) \in Seq(Byte)
  BY <1>3, StringIsBytes DEF Payload, FromSubdir
<1>5. FromUrl(p) \in Seq(Byte)
  BY <1>4, StringIsBytes DEF Payload, FromUrl
<1>6. FromHash(p) \in Seq(Byte)
  BY <1>5, StringIsBytes DEF Payload, FromHash
<1> QED BY <1>1, <1>2, <1>3, <1>4, <1>5, <1>6

(* The two declarations of the payload agree.                              *)
LEMMA PayloadLayout ==
    ASSUME NEW p \in Payload
    PROVE  /\ PayloadBytes(p) = p.pkg_id \o FromHash(p)
           /\ MovePayloadBytes(p) = p.pkg_id \o FromHash(p)
           /\ p.pkg_id \in Seq(Byte) /\ Len(p.pkg_id) = IdBytes
           /\ p.pkg_id \o FromHash(p) \in Seq(Byte)
<1>1. PayloadBytes(p) = p.pkg_id \o FromHash(p) /\ MovePayloadBytes(p) = p.pkg_id \o FromHash(p)
  BY DEF PayloadBytes, MovePayloadBytes, FromHash, FromUrl, FromSubdir, FromSha, FromVersion,
         FromDigest
<1>2. p.pkg_id \in Seq(Byte) /\ Len(p.pkg_id) = IdBytes
  BY ObjectIdsAreBytes DEF Payload
<1>3. p.pkg_id \o FromHash(p) \in Seq(Byte)
  BY <1>2, RestsAreBytes, ConcatProperties
<1> QED BY <1>1, <1>2, <1>3

LEMMA TextReadOneWay ==
    ASSUME NEW s \in Texts, NEW t \in Texts, NEW u \in Seq(Byte), NEW v \in Seq(Byte),
           BcsString(s, u) = BcsString(t, v)
    PROVE  s = t /\ u = v
<1>1. s \in Seq(Nat) /\ t \in Seq(Nat)
  BY ScriptAssumption, BytesAreNumbers
<1>2. u \in Seq(Nat) /\ v \in Seq(Nat)
  BY BytesAreNumbers
<1> QED BY <1>1, <1>2, StringReadOneWay

(* What the enclave serialises is what the contract does for the same      *)
(* payload, and for no other.                                              *)
LEMMA PayloadReadOneWay ==
    ASSUME NEW p \in Payload, NEW q \in Payload, PayloadBytes(p) = MovePayloadBytes(q)
    PROVE  p = q
<1>1. FromHash(p) \in Seq(Nat) /\ FromHash(q) \in Seq(Nat)
  BY RestsAreBytes, BytesAreNumbers
<1>2. p.pkg_id = q.pkg_id /\ FromHash(p) = FromHash(q)
  <2>1. /\ p.pkg_id \in Seq(Nat) /\ q.pkg_id \in Seq(Nat) /\ Len(p.pkg_id) = Len(q.pkg_id)
        /\ p.pkg_id \o FromHash(p) = q.pkg_id \o FromHash(q)
    BY PayloadLayout, BytesAreNumbers
  <2> QED BY <1>1, <2>1, SplitOneWay
<1>3. p.source_hash = q.source_hash /\ FromUrl(p) = FromUrl(q)
  <2>1. /\ p.source_hash \in Texts /\ FromUrl(p) \in Seq(Byte)
        /\ q.source_hash \in Texts /\ FromUrl(q) \in Seq(Byte)
        /\ BcsString(p.source_hash, FromUrl(p)) = BcsString(q.source_hash, FromUrl(q))
    BY <1>2, RestsAreBytes DEF FromHash, Payload
  <2> QED BY <2>1, TextReadOneWay
<1>4. p.git_url = q.git_url /\ FromSubdir(p) = FromSubdir(q)
  <2>1. /\ p.git_url \in Texts /\ FromSubdir(p) \in Seq(Byte)
        /\ q.git_url \in Texts /\ FromSubdir(q) \in Seq(Byte)
        /\ BcsString(p.git_url, FromSubdir(p)) = BcsString(q.git_url, FromSubdir(q))
    BY <1>3, RestsAreBytes DEF FromUrl, Payload
  <2> QED BY <2>1, TextReadOneWay
<1>5. p.subdir = q.subdir /\ FromSha(p) = FromSha(q)
  <2>1. /\ p.subdir \in Texts /\ FromSha(p) \in Seq(Byte)
        /\ q.subdir \in Texts /\ FromSha(q) \in Seq(Byte)
        /\ BcsString(p.subdir, FromSha(p)) = BcsString(q.subdir, FromSha(q))
    BY <1>4, RestsAreBytes DEF FromSubdir, Payload
  <2> QED BY <2>1, TextReadOneWay
<1>6. p.git_sha = q.git_sha /\ FromVersion(p) = FromVersion(q)
  <2>1. /\ p.git_sha \in Texts /\ FromVersion(p) \in Seq(Byte)
        /\ q.git_sha \in Texts /\ FromVersion(q) \in Seq(Byte)
        /\ BcsString(p.git_sha, FromVersion(p)) = BcsString(q.git_sha, FromVersion(q))
    BY <1>5, RestsAreBytes DEF FromSha, Payload
  <2> QED BY <2>1, TextReadOneWay
<1>7. p.toolchain_version = q.toolchain_version /\ FromDigest(p) = FromDigest(q)
  <2>1. /\ p.toolchain_version \in Texts /\ FromDigest(p) \in Seq(Byte)
        /\ q.toolchain_version \in Texts /\ FromDigest(q) \in Seq(Byte)
        /\ BcsString(p.toolchain_version, FromDigest(p))
               = BcsString(q.toolchain_version, FromDigest(q))
    BY <1>6, RestsAreBytes DEF FromVersion, Payload
  <2> QED BY <2>1, TextReadOneWay
<1>8. p.toolchain_digest = q.toolchain_digest
  <2>1. /\ p.toolchain_digest \in Texts /\ q.toolchain_digest \in Texts /\ <<>> \in Seq(Byte)
        /\ BcsString(p.toolchain_digest, <<>>) = BcsString(q.toolchain_digest, <<>>)
    BY <1>7, EmptySeq DEF FromDigest, Payload
  <2> QED BY <2>1, TextReadOneWay
<1> QED BY <1>2, <1>3, <1>4, <1>5, <1>6, <1>7, <1>8 DEF Payload

LEMMA HeaderIsBytes ==
    ASSUME NEW ts \in Timestamps
    PROVE  /\ IntentHeader(VERIFY_SCOPE, ts) \in Seq(Byte)
           /\ Len(IntentHeader(VERIFY_SCOPE, ts)) = 1 + TimeBytes
<1>1. BcsU64(ts) \in Seq(Byte)
  BY ScriptAssumption
<1>2. Len(BcsU64(ts)) = TimeBytes
  BY WireAssumption DEF BcsU64
<1>3. <<VERIFY_SCOPE>> \in Seq(Byte) /\ Len(<<VERIFY_SCOPE>>) = 1
  <2>1. VERIFY_SCOPE \in Byte
    BY WireAssumption DEF VERIFY_SCOPE, Byte, MaxByte
  <2> QED BY <2>1
<1> HIDE DEF VERIFY_SCOPE
<1> QED BY <1>1, <1>2, <1>3, ConcatProperties DEF IntentHeader

LEMMA SignedIsBytes ==
    ASSUME NEW ts \in Timestamps, NEW p \in Payload
    PROVE  SignedBytes(VERIFY_SCOPE, ts, p) \in Seq(Byte)
<1>1. PayloadBytes(p) \in Seq(Byte)
  BY PayloadLayout
<1> QED BY <1>1, HeaderIsBytes, ConcatProperties DEF SignedBytes

(* The contract rebuilds the bytes that were signed from the timestamp and *)
(* the payload that were, and from no others.                              *)
LEMMA RebuiltAsSigned ==
    ASSUME NEW ts \in Timestamps, NEW p \in Payload
    PROVE  RebuiltBytes(VERIFY_SCOPE, ts, p) = SignedBytes(VERIFY_SCOPE, ts, p)
BY PayloadLayout DEF SignedBytes, RebuiltBytes

LEMMA SignedReadOneWay ==
    ASSUME NEW ts \in Timestamps, NEW p \in Payload, NEW us \in Timestamps, NEW q \in Payload,
           SignedBytes(VERIFY_SCOPE, ts, p) = RebuiltBytes(VERIFY_SCOPE, us, q)
    PROVE  ts = us /\ p = q
<1> DEFINE H(t) == IntentHeader(VERIFY_SCOPE, t)
<1>1. /\ H(ts) \in Seq(Nat) /\ H(us) \in Seq(Nat) /\ Len(H(ts)) = Len(H(us))
      /\ PayloadBytes(p) \in Seq(Nat) /\ MovePayloadBytes(q) \in Seq(Nat)
  BY HeaderIsBytes, PayloadLayout, BytesAreNumbers
<1>2. H(ts) \o PayloadBytes(p) = H(us) \o MovePayloadBytes(q)
  BY DEF SignedBytes, RebuiltBytes
<1> HIDE DEF H
<1>3. H(ts) = H(us) /\ PayloadBytes(p) = MovePayloadBytes(q)
  BY <1>1, <1>2, SplitOneWay
<1>4. BcsU64(ts) = BcsU64(us)
  <2>1. <<VERIFY_SCOPE>> \o BcsU64(ts) = <<VERIFY_SCOPE>> \o BcsU64(us)
    BY <1>3 DEF H, IntentHeader
  <2>2. BcsU64(ts) \in Seq(Nat) /\ BcsU64(us) \in Seq(Nat) /\ <<VERIFY_SCOPE>> \in Seq(Nat)
    BY ScriptAssumption, BytesAreNumbers DEF VERIFY_SCOPE
  <2> HIDE DEF VERIFY_SCOPE
  <2> QED BY <2>1, <2>2, SplitOneWay
<1> QED BY <1>3, <1>4, PayloadReadOneWay, ScriptAssumption

-----------------------------------------------------------------------------
(* The script                                                              *)
(*                                                                         *)
(* What an answer is about is fixed by what the script had established     *)
(* before it asked, so the invariant says that at each of its steps: the   *)
(* revision is HEAD, the tree that passed the checks is HEAD's, and the    *)
(* response is signed as it reads, about the address that was reported.    *)

Asked == {"submit", "done", "unreadable", "rejected"}

ResponseOK ==
    /\ response.timestamp_ms \in Timestamps /\ response.data \in Payload
    /\ response.signature =
           HexEncode(SignedBytes(VERIFY_SCOPE, response.timestamp_ms, response.data))
    /\ response.data.git_sha = ShaText[head]
    /\ response.data.source_hash = HashText[checked.tracked]
    /\ reported \in AddressTexts /\ response.data.pkg_id = parse_pkg_id(reported)

Established ==
    /\ pc \notin {"edit", "died"} => GIT_REV = head
    /\ pc \in {"fetch", "contains", "ask"} \cup Asked => checked.tracked = Content[head]
    /\ pc \in Asked => ResponseOK
    /\ response # None => pc \in Asked
    /\ recorded # None => pc \in Asked

ScriptInv == ScriptTypeOK /\ Established /\ RefusalsHaveACause /\ AcceptedIsWhatWasSigned

(* A text is read back from its literal, unless a quote ends it before.    *)
LEMMA LiteralIsRead ==
    ASSUME NEW text \in Seq(Byte)
    PROVE  /\ Quote \notin ToSet(text) => ReadLiteral(PtbLiteral(text)) = text
           /\ Quote \in ToSet(text) => ReadLiteral(PtbLiteral(text)) = Error
<1> DEFINE word == <<Quote>> \o (text \o <<Quote>>)
<1>1. <<Quote>> \in Seq(Byte) /\ Len(<<Quote>>) = 1
  BY ScriptAssumption
<1>2. /\ text \o <<Quote>> \in Seq(Byte) /\ Len(text \o <<Quote>>) = Len(text) + 1
      /\ \A k \in 1 .. Len(text) : (text \o <<Quote>>)[k] = text[k]
  BY <1>1, ConcatProperties
<1> DEFINE rest == text \o <<Quote>>
<1> HIDE DEF rest
<1>3. /\ word \in Seq(Byte) /\ Len(word) = Len(text) + 2
      /\ \A k \in 1 .. Len(text) : word[k + 1] = text[k]
  <2>0. rest \in Seq(Byte) /\ Len(rest) = Len(text) + 1
        /\ \A k \in 1 .. Len(text) : rest[k] = text[k]
    BY <1>2 DEF rest
  <2> DEFINE w == <<Quote>> \o rest
  <2>1. /\ w \in Seq(Byte) /\ Len(w) = 1 + Len(rest)
        /\ \A k \in 1 .. 1 + Len(rest) : w[k] = IF k <= 1 THEN <<Quote>>[k] ELSE rest[k - 1]
    BY <1>1, <2>0, ConcatProperties
  <2> HIDE DEF w
  <2>2. /\ w \in Seq(Byte) /\ Len(w) = Len(text) + 2
        /\ \A k \in 1 .. Len(text) : w[k + 1] = text[k]
    BY <2>0, <2>1
  <2> QED BY <2>2 DEF w, rest
<1> HIDE DEF word
<1>4. SubSeq(word, 2, Len(word) - 1) = text
  BY <1>3
<1> QED BY <1>4 DEF ReadLiteral, PtbLiteral, word

(* The script sends the contract what the enclave signed, if it sends      *)
(* anything.                                                               *)
LEMMA PayloadFields ==
    ASSUME NEW p \in Payload
    PROVE  /\ p.pkg_id \in ObjectId /\ \A f \in TextFields : p[f] \in Texts
           /\ p = [f \in TextFields \cup {"pkg_id"} |-> p[f]]
BY DEF Payload, TextFields

LEMMA ArgumentsAreTheAnswer ==
    ASSUME ResponseOK
    PROVE  /\ SigVec = SignedBytes(VERIFY_SCOPE, response.timestamp_ms, response.data)
           /\ Readable => /\ ScriptArgs = response.data
                          /\ VerifySignature(SigVec, response.timestamp_ms, ScriptArgs)
           /\ ~Readable => \E f \in TextFields : Quote \in ToSet(response.data[f])
<1> DEFINE ts == response.timestamp_ms
           p  == response.data
<1>1. ts \in Timestamps /\ p \in Payload
      /\ response.signature = HexEncode(SignedBytes(VERIFY_SCOPE, ts, p))
  BY DEF ResponseOK
<1>2. parse_pkg_id(PkgIdLiteral) = p.pkg_id
  <2>1. p.pkg_id \in ObjectId
    BY <1>1, PayloadFields
  <2> QED BY <2>1, LiteralRoundTrip DEF PkgIdLiteral
<1>3. ASSUME NEW f \in TextFields
      PROVE  /\ ScriptArgs[f] = ReadLiteral(PtbLiteral(p[f]))
             /\ p[f] \in Seq(Byte) /\ p[f] # Error
  <2>1. p[f] \in Seq(Byte)
    BY <1>1, PayloadFields, ScriptAssumption
  <2>2. f # "pkg_id"
    BY DEF TextFields
  <2>3. p[f] # Error
    BY <2>1, BytesAreNumbers, WireAssumption
  <2> QED BY <2>1, <2>2, <2>3 DEF ScriptArgs
<1>4. ASSUME Readable PROVE ScriptArgs = p
  <2>1. ASSUME NEW f \in TextFields PROVE ReadLiteral(PtbLiteral(p[f])) = p[f]
    BY <1>3, <1>4, LiteralIsRead DEF Readable
  <2>2. ScriptArgs = [f \in TextFields \cup {"pkg_id"} |->
                         IF f = "pkg_id" THEN p.pkg_id ELSE ReadLiteral(PtbLiteral(p[f]))]
    BY <1>2 DEF ScriptArgs
  <2> HIDE DEF p
  <2>3. ScriptArgs = [f \in TextFields \cup {"pkg_id"} |-> p[f]]
    BY <2>1, <2>2
  <2> QED BY <1>1, <2>3, PayloadFields
<1>5. ASSUME ~Readable PROVE \E f \in TextFields : Quote \in ToSet(p[f])
  <2>1. PICK f \in TextFields : ScriptArgs[f] = Error
    BY <1>5 DEF Readable
  <2> QED BY <1>3, <2>1, LiteralIsRead
<1>6. SigVec = SignedBytes(VERIFY_SCOPE, ts, p)
  <2>1. SignedBytes(VERIFY_SCOPE, ts, p) \in Seq(Byte)
    BY <1>1, SignedIsBytes
  <2> QED BY <1>1, <2>1, HexRoundTrip DEF SigVec
<1>7. RebuiltBytes(VERIFY_SCOPE, ts, p) = SignedBytes(VERIFY_SCOPE, ts, p)
  BY <1>1, RebuiltAsSigned
<1> QED BY <1>4, <1>5, <1>6, <1>7 DEF VerifySignature

LEMMA ScriptInitially == ScriptInit => ScriptInv
<1> SUFFICES ASSUME ScriptInit PROVE ScriptInv
  OBVIOUS
<1>1. ScriptTypeOK
  BY DEF ScriptInit, ScriptTypeOK, Package, Contents, Steps, Objects
<1>2. Established /\ RefusalsHaveACause /\ AcceptedIsWhatWasSigned
  BY DEF ScriptInit, Established, Asked, RefusalsHaveACause, AcceptedIsWhatWasSigned
<1> QED BY <1>1, <1>2 DEF ScriptInv

LEMMA AnswerKeeps ==
    ASSUME ScriptInv, NEW text \in AddressTexts, NEW ts \in Timestamps,
           NEW url \in UrlTexts, NEW subdir \in SubdirTexts, Answer(text, ts, url, subdir)
    PROVE  ScriptInv'
<1> DEFINE data == [pkg_id |-> parse_pkg_id(text), source_hash |-> HashText[Content[head]],
                    git_url |-> url, subdir |-> subdir, git_sha |-> ShaText[head],
                    toolchain_version |-> VersionText, toolchain_digest |-> DigestText]
<1>1. pc = "ask" /\ GIT_REV = head /\ checked.tracked = Content[head] /\ head \in Commits
  BY DEF Answer, ScriptInv, Established, ScriptTypeOK
<1>2. FoundCommit = head
  BY <1>1 DEF Answer, Verified, FoundCommit
<1>3. parse_pkg_id(text) \in ObjectId
  <2>1. text \in Seq(Symbols) /\ parse_pkg_id(text) # Error
    BY ScriptAssumption DEF Symbols, Answer
  <2> QED BY <2>1, ParsedIsObjectId
<1>4. data \in Payload
  <2>1. HashText[Content[head]] \in Texts /\ ShaText[head] \in Texts
    BY <1>1, ScriptAssumption DEF Contents
  <2> QED BY <1>3, <2>1, ScriptAssumption DEF Payload
<1>5. /\ response' = [timestamp_ms |-> ts, data |-> data,
                      signature |-> HexEncode(SignedBytes(VERIFY_SCOPE, ts, data))]
      /\ reported' = text /\ pc' = "submit"
      /\ UNCHANGED <<repository, GIT_REV, object, recorded, checked>>
  BY <1>2 DEF Answer, Goto
<1>6. response'.data = data
  BY <1>5
<1>7. /\ data.git_sha = ShaText[head] /\ data.source_hash = HashText[Content[head]]
      /\ data.pkg_id = parse_pkg_id(text)
  OBVIOUS
<1> HIDE DEF data
<1>8. ResponseOK'
  BY <1>1, <1>4, <1>5, <1>7 DEF ResponseOK, repository
<1>9. recorded = None
  BY <1>1 DEF ScriptInv, Established, Asked
<1>10. ScriptTypeOK'
  BY <1>4, <1>5, <1>6, <1>9 DEF ScriptInv, ScriptTypeOK, repository, Steps
<1>11. Established'
  BY <1>1, <1>5, <1>8, <1>9 DEF Established, Asked, repository
<1>12. RefusalsHaveACause' /\ AcceptedIsWhatWasSigned'
  BY <1>5, <1>9 DEF RefusalsHaveACause, AcceptedIsWhatWasSigned
<1> QED BY <1>10, <1>11, <1>12 DEF ScriptInv

LEMMA SubmitKeeps == ASSUME ScriptInv, Submit PROVE ScriptInv'
<1>1. pc = "submit" /\ ResponseOK
  BY DEF Submit, ScriptInv, Established, Asked
<1>2. UNCHANGED <<repository, GIT_REV, object, response, checked, reported>>
  BY DEF Submit
<1>3. ResponseOK'
  BY <1>1, <1>2 DEF ResponseOK, repository
<1>4. ASSUME pc' \in Asked PROVE Established'
  BY <1>1, <1>2, <1>3, <1>4 DEF ScriptInv, Established, Asked, repository
<1>5. CASE ~Readable /\ Goto("unreadable") /\ UNCHANGED recorded
  <2>1. \E f \in TextFields : Quote \in ToSet(response'.data[f])
    BY <1>1, <1>2, <1>5, ArgumentsAreTheAnswer
  <2>2. ScriptTypeOK' /\ RefusalsHaveACause' /\ AcceptedIsWhatWasSigned'
    BY <1>2, <1>5, <2>1 DEF ScriptInv, ScriptTypeOK, repository, Steps, Goto,
                            RefusalsHaveACause, AcceptedIsWhatWasSigned
  <2> QED BY <1>4, <1>5, <2>2 DEF ScriptInv, Goto, Asked
<1>6. CASE /\ Readable
           /\ recorded' = [timestamp_ms |-> response.timestamp_ms, data |-> ScriptArgs]
           /\ Goto("done")
  <2>1. ScriptArgs = response.data
    BY <1>1, <1>6, ArgumentsAreTheAnswer
  <2>2. recorded'.timestamp_ms = response'.timestamp_ms /\ recorded'.data = response'.data
        /\ response'.data \in Payload
    BY <1>1, <1>2, <1>6, <2>1 DEF ResponseOK
  <2>3. ScriptTypeOK' /\ RefusalsHaveACause' /\ AcceptedIsWhatWasSigned'
    BY <1>2, <1>6, <2>2 DEF ScriptInv, ScriptTypeOK, repository, Steps, Goto,
                            RefusalsHaveACause, AcceptedIsWhatWasSigned
  <2> QED BY <1>4, <1>6, <2>3 DEF ScriptInv, Goto, Asked
<1>7. CASE /\ Readable
           /\ ~AttestSource(object, SigVec, response.timestamp_ms, ScriptArgs)
           /\ Goto("rejected") /\ UNCHANGED recorded
  <2>1. VerifySignature(SigVec, response.timestamp_ms, ScriptArgs)
    BY <1>1, <1>7, ArgumentsAreTheAnswer
  <2>2. ~object'.current \/ ~object'.signs
    BY <1>2, <1>7, <2>1 DEF AttestSource
  <2>3. ScriptTypeOK' /\ RefusalsHaveACause' /\ AcceptedIsWhatWasSigned'
    BY <1>2, <1>7, <2>2 DEF ScriptInv, ScriptTypeOK, repository, Steps, Goto,
                            RefusalsHaveACause, AcceptedIsWhatWasSigned
  <2> QED BY <1>4, <1>7, <2>3 DEF ScriptInv, Goto, Asked
<1> QED BY <1>5, <1>6, <1>7 DEF Submit

LEMMA OthersSubmitKeeps ==
    ASSUME ScriptInv, NEW obj \in Objects, NEW ts \in Timestamps, NEW args \in Tried,
           OthersSubmit(obj, ts, args)
    PROVE  ScriptInv'
<1>1. pc \in Asked /\ ResponseOK /\ VerifySignature(SigVec, ts, args) /\ args \in Payload
  BY ScriptAssumption DEF OthersSubmit, AttestSource, ScriptInv, Established
<1>2. ts = response.timestamp_ms /\ args = response.data
  <2>1. SignedBytes(VERIFY_SCOPE, response.timestamp_ms, response.data)
            = RebuiltBytes(VERIFY_SCOPE, ts, args)
    BY <1>1, ArgumentsAreTheAnswer DEF VerifySignature
  <2>2. response.timestamp_ms \in Timestamps /\ response.data \in Payload
    BY <1>1 DEF ResponseOK
  <2> QED BY <1>1, <2>1, <2>2, SignedReadOneWay
<1>3. /\ recorded' = [timestamp_ms |-> ts, data |-> args]
      /\ UNCHANGED <<repository, pc, GIT_REV, object, response, checked, reported>>
      /\ response # None
  BY DEF OthersSubmit
<1>4. recorded'.timestamp_ms = ts /\ recorded'.data = args
  BY <1>3
<1>5. ScriptTypeOK'
  BY <1>1, <1>3, <1>4 DEF ScriptInv, ScriptTypeOK, repository
<1>6. ResponseOK'
  BY <1>1, <1>3 DEF ResponseOK, repository
<1>7. Established'
  BY <1>1, <1>3, <1>6 DEF ScriptInv, Established, repository
<1> QED BY <1>2, <1>3, <1>4, <1>5, <1>7 DEF ScriptInv, RefusalsHaveACause, AcceptedIsWhatWasSigned

LEMMA ObjectAgesKeeps == ASSUME ScriptInv, ObjectAges PROVE ScriptInv'
<1>1. /\ pc \in {"ask", "submit"}
      /\ UNCHANGED <<repository, pc, GIT_REV, response, recorded, checked, reported>>
  BY DEF ObjectAges
<1>2. object' \in Objects
  BY DEF ObjectAges, ScriptInv, ScriptTypeOK, Objects
<1>3. ScriptTypeOK'
  BY <1>1, <1>2 DEF ScriptInv, ScriptTypeOK, repository
<1>4. Established' /\ AcceptedIsWhatWasSigned' /\ RefusalsHaveACause'
  BY <1>1 DEF ScriptInv, Established, ResponseOK, repository, AcceptedIsWhatWasSigned,
             RefusalsHaveACause
<1> QED BY <1>3, <1>4 DEF ScriptInv

LEMMA DevelopKeeps == ASSUME ScriptInv, Develop PROVE ScriptInv'
<1>1. pc = "edit" /\ UNCHANGED <<origin, pc, GIT_REV, object, response, recorded, checked,
                                 reported>>
  BY DEF Develop
<1>2. package' \in Package /\ head' \in Commits /\ remote' \in Refs /\ tracking' \in Refs
  BY DEF Develop, ScriptInv, ScriptTypeOK, Package, Refs
<1>3. ScriptTypeOK'
  BY <1>1, <1>2 DEF ScriptInv, ScriptTypeOK
<1>4. Established'
  BY <1>1 DEF ScriptInv, Established, Asked
<1> QED BY <1>1, <1>3, <1>4 DEF ScriptInv, RefusalsHaveACause, AcceptedIsWhatWasSigned

(* The other steps of the script touch neither the response nor what is    *)
(* recorded.                                                               *)
LEMMA ChecksKeep ==
    ASSUME ScriptInv, RevParse \/ Diff \/ Fetch \/ Contained \/ NoAnswer \/ StopWithResponse
    PROVE  ScriptInv'
<1>1. UNCHANGED <<package, head, origin, remote, object, response, recorded, reported>>
  BY DEF RevParse, Diff, Fetch, Contained, NoAnswer, StopWithResponse, Dies, repository
<1>2. /\ tracking' \in Refs /\ GIT_REV' \in Commits \cup {None}
      /\ checked' \in Package \cup {None} /\ pc' \in Steps
  BY DEF ScriptInv, ScriptTypeOK, RevParse, Diff, Fetch, Contained, NoAnswer,
         StopWithResponse, Dies, Goto, repository, Refs, Steps
<1>3. ScriptTypeOK'
  BY <1>1, <1>2 DEF ScriptInv, ScriptTypeOK
<1>4. Established' /\ RefusalsHaveACause'
  <2> USE DEF ScriptInv, Established, RefusalsHaveACause, Asked
  <2>1. CASE RevParse
    BY <1>1, <2>1 DEF RevParse, Goto
  <2>2. CASE Diff
    BY <1>1, <2>2 DEF Diff, DiffQuiet, Goto, Dies
  <2>3. CASE Fetch
    BY <1>1, <2>3 DEF Fetch, Goto
  <2>4. CASE Contained
    BY <1>1, <2>4 DEF Contained, Goto, Dies
  <2>5. CASE NoAnswer
    BY <1>1, <2>5 DEF NoAnswer, Goto, Dies
  <2>6. CASE StopWithResponse
    <3>1. ResponseOK /\ pc' = "done" /\ UNCHANGED <<GIT_REV, checked>> /\ pc = "submit"
      BY <2>6 DEF StopWithResponse, Goto
    <3>2. ResponseOK'
      BY <1>1, <3>1 DEF ResponseOK
    <3> QED BY <1>1, <3>1, <3>2
  <2> QED BY <2>1, <2>2, <2>3, <2>4, <2>5, <2>6
<1>5. AcceptedIsWhatWasSigned'
  BY <1>1 DEF ScriptInv, AcceptedIsWhatWasSigned
<1> QED BY <1>3, <1>4, <1>5 DEF ScriptInv

LEMMA OthersPushKeeps ==
    ASSUME ScriptInv, NEW b \in Branches, NEW c \in Commits \cup {None}, OthersPush(b, c)
    PROVE  ScriptInv'
<1>1. remote' \in Refs
  BY DEF OthersPush, ScriptInv, ScriptTypeOK, Refs
<1>2. UNCHANGED <<package, head, origin, tracking, pc, GIT_REV, object, response, recorded,
                  checked, reported>>
  BY DEF OthersPush
<1>3. ScriptTypeOK'
  BY <1>1, <1>2 DEF ScriptInv, ScriptTypeOK
<1>4. Established' /\ RefusalsHaveACause' /\ AcceptedIsWhatWasSigned'
  BY <1>2 DEF ScriptInv, Established, ResponseOK, RefusalsHaveACause, AcceptedIsWhatWasSigned
<1> QED BY <1>3, <1>4 DEF ScriptInv

LEMMA ScriptKeepsInv == ScriptInv /\ [ScriptNext]_scriptVars => ScriptInv'
<1> SUFFICES ASSUME ScriptInv, [ScriptNext]_scriptVars PROVE ScriptInv'
  OBVIOUS
<1>1. CASE UNCHANGED scriptVars
  BY <1>1 DEF scriptVars, repository, ScriptInv, ScriptTypeOK, Established, ResponseOK,
             RefusalsHaveACause, AcceptedIsWhatWasSigned
<1>2. CASE Develop
  BY <1>2, DevelopKeeps
<1>3. CASE \E b \in Branches, c \in Commits \cup {None} : OthersPush(b, c)
  BY <1>3, OthersPushKeeps
<1>4. CASE RevParse \/ Diff \/ Fetch \/ Contained \/ NoAnswer \/ StopWithResponse
  BY <1>4, ChecksKeep
<1>5. CASE \E text \in AddressTexts, ts \in Timestamps, url \in UrlTexts, subdir \in SubdirTexts :
               Answer(text, ts, url, subdir)
  BY <1>5, AnswerKeeps
<1>6. CASE Submit
  BY <1>6, SubmitKeeps
<1>7. CASE \E obj \in Objects, ts \in Timestamps, args \in Tried : OthersSubmit(obj, ts, args)
  BY <1>7, OthersSubmitKeeps
<1>8. CASE ObjectAges
  BY <1>8, ObjectAgesKeeps
<1> QED BY <1>1, <1>2, <1>3, <1>4, <1>5, <1>6, <1>7, <1>8 DEF ScriptNext

LEMMA ScriptAlways == ScriptSpec => []ScriptInv
BY ScriptInitially, ScriptKeepsInv, PTL DEF ScriptSpec

-----------------------------------------------------------------------------
(* The state of the script keeps its type; every response is a payload the *)
(* contract can be called with.                                            *)
THEOREM ScriptTypeCorrect == ScriptSpec => []ScriptTypeOK
<1>1. ScriptInv => ScriptTypeOK
  BY DEF ScriptInv
<1> QED BY <1>1, ScriptAlways, PTL

(* Whatever others do to the branches between the script's checks and the  *)
(* enclave's clone, an answer is about HEAD and the tracked files checked. *)
THEOREM AnswersAreAboutTheCheckedCommit == ScriptSpec => []AnswerIsAboutTheCheckedCommit
<1>1. ScriptInv => AnswerIsAboutTheCheckedCommit
  BY DEF ScriptInv, Established, ResponseOK, AnswerIsAboutTheCheckedCommit
<1> QED BY <1>1, ScriptAlways, PTL

(* An address of any length, with a prefix or without, is signed as the    *)
(* IdBytes bytes that write the same number, and nothing else is signed:   *)
(* `parse_pkg_id`.                                                         *)
THEOREM PkgIdsAreReportedAddresses == ScriptSpec => []PkgIdIsTheReportedAddress
<1>1. ASSUME ScriptInv, response # None PROVE PkgIdIsTheReportedAddress
  <2>1. ResponseOK
    BY <1>1 DEF ScriptInv, Established
  <2>2. reported \in Seq(Symbols) /\ parse_pkg_id(reported) = response.data.pkg_id
    BY <2>1, ScriptAssumption DEF ResponseOK, Symbols
  <2>3. parse_pkg_id(reported) # Error
    <3>1. response.data.pkg_id \in ObjectId
      BY <2>1 DEF ResponseOK, Payload
    <3>2. response.data.pkg_id \in Seq(Nat)
      BY <3>1, ObjectIdsAreBytes, BytesAreNumbers
    <3> QED BY <2>2, <3>2, WireAssumption
  <2> QED BY <2>2, <2>3, IdIsTheNumber DEF PkgIdIsTheReportedAddress
<1>2. ScriptInv => PkgIdIsTheReportedAddress
  BY <1>1 DEF PkgIdIsTheReportedAddress
<1> QED BY <1>2, ScriptAlways, PTL

(* The script's conversions and the contract's own declaration bring back  *)
(* the bytes that were signed: if the contract aborts, the object is of an *)
(* old version or another key, and if the client cannot read a literal, a  *)
(* text of the response holds a quote.                                     *)
THEOREM RefusalsAreExplained == ScriptSpec => []RefusalsHaveACause
<1>1. ScriptInv => RefusalsHaveACause
  BY DEF ScriptInv
<1> QED BY <1>1, ScriptAlways, PTL

(* Only what the enclave put into its response can be recorded with its    *)
(* signature, whoever submits it and whatever the fields contain.          *)
THEOREM SignedBytesReadOneWay == ScriptSpec => []AcceptedIsWhatWasSigned
<1>1. ScriptInv => AcceptedIsWhatWasSigned
  BY DEF ScriptInv
<1> QED BY <1>1, ScriptAlways, PTL

=============================================================================
