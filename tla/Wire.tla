--------------------------------- MODULE Wire ---------------------------------
(***************************************************************************)
(* What a statement is turned into on its way from `verify-source`'s       *)
(* output to the contract: an object id parsed from text, the bytes that   *)
(* are signed (BCS) in Rust and rebuilt in Move, hex text and back.        *)
(* Constant operators only.                                                *)
(*                                                                         *)
(*  - A text is a sequence of symbols: 0 .. Base-1 are the hex digits and  *)
(*    X is any other, the x of "0x" included.  Base stands for 16 and      *)
(*    IdBytes for 32; a byte is two digits.                                *)
(*  - Of a String field only its bytes matter, none above MaxByte.         *)
(*  - A signature is as good as the bytes it was made over: they stand for *)
(*    it where it is written as hex.                                       *)
(***************************************************************************)
EXTENDS Naturals, SequencesExt

CONSTANTS
    Base,       \* number of hex digits
    IdBytes,    \* bytes of an object id
    TimeBytes,  \* bytes of a u64
    Error

X        == Base
MaxByte  == Base * Base - 1
Byte     == 0 .. MaxByte
ObjectId == [1 .. IdBytes -> Byte]
OxPrefix == <<0, X>>

ASSUME WireAssumption ==
    /\ Base \in Nat \ {0, 1} /\ IdBytes \in Nat \ {0} /\ TimeBytes \in Nat \ {0}
    /\ Error \notin Seq(Nat)

-----------------------------------------------------------------------------
(* Hex *)

(* `Hex::decode`: two digits to a byte. *)
HexDecode(s) ==
    IF Len(s) % 2 = 0 /\ X \notin ToSet(s)
    THEN [k \in 1 .. Len(s) \div 2 |-> s[2 * k - 1] * Base + s[2 * k]]
    ELSE Error

(* `Hex::encode`, and Python's "{b:02x}" byte by byte. *)
HexEncode(bytes) ==
    [k \in 1 .. 2 * Len(bytes) |-> IF k % 2 = 1 THEN bytes[(k + 1) \div 2] \div Base
                                   ELSE bytes[k \div 2] % Base]

StripPrefix(s) == IF IsPrefix(OxPrefix, s) THEN SubSeq(s, 3, Len(s)) ELSE s

(* Format strings: "{hex:0>64}", and the slip "{hex:0<64}". *)
PadRight(s) == s \o [k \in 1 .. 2 * IdBytes - Len(s) |-> 0]
PadLeft(s)  == [k \in 1 .. 2 * IdBytes - Len(s) |-> 0] \o s

(* The slip leaves it to the caller that an id has IdBytes bytes. *)
parse_any_length(s) == HexDecode(PadLeft(StripPrefix(s)))
parse_pkg_id(s) ==
    LET hex   == StripPrefix(s)
        bytes == HexDecode(PadLeft(hex))
    IN  IF Len(hex) > 2 * IdBytes \/ bytes = Error \/ Len(bytes) # IdBytes
        THEN Error ELSE bytes

(* The number that a sequence of digits of some base writes. *)
NumberOf(digits, base) ==
    LET value[n \in 0 .. Len(digits)] ==
            IF n = 0 THEN 0 ELSE value[n - 1] * base + digits[n]
    IN  value[Len(digits)]

-----------------------------------------------------------------------------
(* The signed bytes *)

(* BCS: integers little-endian and fixed in width, strings with their      *)
(* length first; `rest` is what follows the string.  The slip leaves the   *)
(* length out.                                                             *)
BcsU64(n)            == [k \in 1 .. TimeBytes |->
                            (n \div (Base * Base) ^ (k - 1)) % (Base * Base)]
BcsBareText(s, rest) == s \o rest
BcsString(s, rest)   == <<Len(s)>> \o (s \o rest)

(* IntentMessage but for its payload, the same in both languages.          *)
IntentHeader(intent, ts) == <<intent>> \o BcsU64(ts)

(* SourceVerification as the enclave declares it ... *)
PayloadBytes(p) ==
    p.pkg_id \o BcsString(p.source_hash, BcsString(p.git_url, BcsString(p.subdir,
        BcsString(p.git_sha, BcsString(p.toolchain_version,
            BcsString(p.toolchain_digest, <<>>))))))

(* ... and as the contract does; the slip declares two fields in another   *)
(* order.                                                                  *)
MovePayloadReordered(p) ==
    p.pkg_id \o BcsString(p.git_url, BcsString(p.source_hash, BcsString(p.subdir,
        BcsString(p.git_sha, BcsString(p.toolchain_version,
            BcsString(p.toolchain_digest, <<>>))))))
MovePayloadBytes(p) ==
    p.pkg_id \o BcsString(p.source_hash, BcsString(p.git_url, BcsString(p.subdir,
        BcsString(p.git_sha, BcsString(p.toolchain_version,
            BcsString(p.toolchain_digest, <<>>))))))

SignedBytes(intent, ts, p)  == IntentHeader(intent, ts) \o PayloadBytes(p)
RebuiltBytes(intent, ts, p) == IntentHeader(intent, ts) \o MovePayloadBytes(p)

=============================================================================
