------------------------------ MODULE Customers ------------------------------
(***************************************************************************)
(* Customers and their PIN hashes: Customer.h, PasswordHasher.cpp and the  *)
(* text forms of a role.  A hexadecimal text is a sequence of bytes.       *)
(* PKCS5_PBKDF2_HMAC is OpenSSL's: here a free function of PIN and salt,   *)
(* whose hexadecimal form is the pair itself.  Names are left out.         *)
(***************************************************************************)
EXTENDS Integers, Sequences

CONSTANT Pin

RoleText == [Customer |-> "customer", Teller |-> "teller", Admin |-> "admin"]

role_from_string(s) == CHOOSE r \in DOMAIN RoleText : RoleText[r] = s

HexDigit == (48..57) \cup (97..102) \cup (65..70)

nibble(c) == IF c <= 57 THEN c - 48 ELSE IF c <= 70 THEN c - 55 ELSE c - 87

hex(d) == IF d < 10 THEN 48 + d ELSE 87 + d

bytes_to_hex(bytes) ==
    [i \in 1..(2 * Len(bytes)) |->
        IF i % 2 = 1 THEN hex(bytes[(i + 1) \div 2] \div 16)
        ELSE hex(bytes[i \div 2] % 16)]

\* hex_to_bytes throws std::invalid_argument.
hex_throws(s) == Len(s) % 2 # 0 \/ \E i \in DOMAIN s : s[i] \notin HexDigit

\* Mutant of hex_to_bytes: the nibbles of a byte are swapped.
hex_to_bytes_swapped(s) ==
    [i \in 1..(Len(s) \div 2) |-> nibble(s[2 * i - 1]) + 16 * nibble(s[2 * i])]

hex_to_bytes(s) ==
    [i \in 1..(Len(s) \div 2) |-> 16 * nibble(s[2 * i - 1]) + nibble(s[2 * i])]

AlgorithmName == "pbkdf2-sha256"
NoDigest == <<>>

derive(pin, salt) ==
    [algorithm |-> AlgorithmName, salt |-> bytes_to_hex(salt),
     digest |-> <<pin, salt>>]

\* A malformed stored hash verifies nothing.
verify(pin, stored) ==
    /\ stored.algorithm = AlgorithmName
    /\ stored.digest # NoDigest
    /\ ~hex_throws(stored.salt)
    /\ derive(pin, hex_to_bytes(stored.salt)).digest = stored.digest

-----------------------------------------------------------------------------
(* The hashes customers are stored with.                                   *)

\* The same digits, perhaps in capitals, as a migration may write them.
Spells(text, digits) ==
    /\ text \in Seq(0..255) /\ Len(text) = Len(digits)
    /\ \A i \in DOMAIN digits :
          text[i] = digits[i] \/ (digits[i] > 96 /\ text[i] = digits[i] - 32)

\* h is what hash made of a PIN and a salt.
IsHash(h, pin, salt) ==
    LET made == derive(pin, salt)
    IN  /\ h.algorithm = made.algorithm /\ h.digest = made.digest
        /\ Spells(h.salt, made.salt)

Malformed(h) == h.algorithm # AlgorithmName \/ hex_throws(h.salt)
=============================================================================
