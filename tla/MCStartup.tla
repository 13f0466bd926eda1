------------------------------ MODULE MCStartup ------------------------------
(***************************************************************************)
(* Instances of Startup for TLC, with the addresses of StrKey: eight       *)
(* characters that hold a version byte, two bytes of key and the checksum. *)
(***************************************************************************)
EXTENDS Startup, StrKey

CONSTANTS m1, p1, p2, none, placeholder

BitAt(bytes, k) == (bytes[(k \div 8) + 1] \div 2 ^ (7 - (k % 8))) % 2

AddressOf(key) ==
    LET payload == <<Version>> \o key
        crc == Crc16Xmodem(payload)
        bytes == payload \o <<crc % 2 ^ 8, crc \div 2 ^ 8>>
    IN [c \in 1 .. KeyLength |->
          LET value[i \in 0 .. 5] ==
                  IF i = 0 THEN 0 ELSE 2 * value[i - 1] + BitAt(bytes, 5 * (c - 1) + i - 1)
          IN value[5]]

Gateway == AddressOf(<<201, 7>>)
CircleA == AddressOf(<<18, 240>>)
CircleB == AddressOf(<<0, 1>>)

(* One character mistyped, 32 being one outside the alphabet; two          *)
(* neighbours swapped; one character missing.                              *)
Slips(s) ==
    {[s EXCEPT ![i] = c] : i \in DOMAIN s, c \in 0 .. 32}
    \cup {[s EXCEPT ![i] = s[i + 1], ![i + 1] = s[i]] : i \in 1 .. Len(s) - 1}
    \cup {SubSeq(s, 1, Len(s) - 1)}

GatewaySlips == Slips(Gateway) \cup {placeholder}

(* IsValidAccountId, evaluated once for each address there is. *)
ValidAddresses == {s \in Slips(Gateway) \cup {CircleA, CircleB} : IsValidAccountId(s)}
IsValid(s) == s \in ValidAddresses

Entry(c, i) == [code |-> c, issuer |-> i]
SomeLists ==
    {<<Entry("XLM", none), Entry("USDC", CircleA)>>, <<Entry("USDC", CircleB)>>,
     <<Entry("USDC", none)>>, <<>>,
     <<Entry("USDC", CircleA), Entry("USDC", CircleB)>>}
=============================================================================
