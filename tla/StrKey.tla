------------------------------- MODULE StrKey -------------------------------
(***************************************************************************)
(* validate_account_id: the structural check of a Stellar account address. *)
(* A character of the base32 alphabet is its index 0 .. 31; any other is   *)
(* 32 or more.  The code's address has 56 characters: a version byte, 32   *)
(* bytes of key and a CRC16; here its length is a parameter, a multiple of *)
(* eight so that characters and bytes end together, as they do in the code.*)
(***************************************************************************)
EXTENDS Integers, Sequences, Bitwise

CONSTANT KeyLength     \* ACCOUNT_STRKEY_LEN

ASSUME StrKeyAssumption == KeyLength \in Nat /\ KeyLength % 8 = 0 /\ KeyLength >= 8

Version == 48           \* ED25519_PUBLIC_KEY_VERSION, 6 << 3
Polynomial == 4129      \* 0x1021

(* base32_decode: the characters' bits, five by five, are read off eight   *)
(* by eight.                                                               *)
BitOf(s, k) == (s[(k \div 5) + 1] \div 2 ^ (4 - (k % 5))) % 2
Base32Decode(s) ==
    [b \in 1 .. (Len(s) * 5) \div 8 |->
        LET byte[i \in 0 .. 8] == IF i = 0 THEN 0 ELSE 2 * byte[i - 1] + BitOf(s, 8 * (b - 1) + i - 1)
        IN byte[8]]

(* A shift of crc16_xmodem. *)
Shift ==
    [crc \in 0 .. 2 ^ 16 - 1 |->
        IF crc >= 2 ^ 15 THEN ((2 * crc) % 2 ^ 16) ^^ Polynomial ELSE 2 * crc]

(* Eight shifts for each byte, which is mixed in before the first of them. *)
Crc16Xmodem(data) ==
    LET mixed[crc \in 0 .. 2 ^ 16 - 1, byte \in 0 .. 255] == crc ^^ (byte * 2 ^ 8)
        crc[n \in 0 .. 8 * Len(data)] ==
            IF n = 0 THEN 0
            ELSE IF n % 8 = 1 THEN Shift[mixed[crc[n - 1], data[(n \div 8) + 1]]]
            ELSE Shift[crc[n - 1]]
    IN crc[8 * Len(data)]

(* Mutant: only the low byte of the checksum is compared. *)
ChecksumMatchesLow(payload, checksum) == Crc16Xmodem(payload) % 2 ^ 8 = checksum[1]

LittleEndian(bytes) == bytes[1] + 2 ^ 8 * bytes[2]
ChecksumMatches(payload, checksum) == Crc16Xmodem(payload) = LittleEndian(checksum)

(* validate_account_id finds no fault. *)
IsValidAccountId(s) ==
    /\ Len(s) = KeyLength
    /\ \A i \in DOMAIN s : s[i] < 32
    /\ LET decoded == Base32Decode(s)
       IN /\ decoded[1] = Version
          /\ ChecksumMatches(SubSeq(decoded, 1, Len(decoded) - 2),
                             SubSeq(decoded, Len(decoded) - 1, Len(decoded)))
=============================================================================
