--------------------------------- MODULE Wire ---------------------------------
(***************************************************************************)
(* The encoding that both implementations share: QUIC variable-length      *)
(* integers and strings with their length in front.  A stream is a         *)
(* sequence of octets.                                                     *)
(***************************************************************************)
EXTENDS Naturals, Sequences

\* The two implementations, as the two ends of a stream.
Impls == {"rust", "go"}

\* Octets of the varint for n.
VarIntLen(n) ==
    IF n <= 63 THEN 1
    ELSE IF n <= 16383 THEN 2
    ELSE IF n <= 1073741823 THEN 4
    ELSE 8

\* The octet of n that has k octets behind it.
Octet(n, k) ==
    LET shifted[i \in 0 .. 7] == IF i = 0 THEN n ELSE shifted[i - 1] \div 256
    IN  shifted[k] % 256

\* The two high bits of the first octet give the length.
AppendVarInt(n) ==
    LET len == VarIntLen(n)
        tag == CASE len = 1 -> 0 [] len = 2 -> 64 [] len = 4 -> 128 [] len = 8 -> 192
    IN  [i \in 1 .. len |-> Octet(n, len - i) + (IF i = 1 THEN tag ELSE 0)]

\* Octets of the varint that starts at position p of stream s.
VarIntSize(s, p) == 2 ^ (s[p] \div 64)

\* The varint that starts at position p of stream s.
ReadVarInt(s, p) ==
    LET value[i \in 0 .. 7] ==
            IF i = 0 THEN s[p] % 64 ELSE value[i - 1] * 256 + s[p + i]
    IN  value[VarIntSize(s, p) - 1]

\* MAX_SSH_STRING_LEN of the Rust implementation is the same number.
MaxSSHStringLength == 16777216

\* validatePacketSize of the Go implementation
ValidPacketSize(m) == 64 <= m /\ m <= MaxSSHStringLength

AppendSSHString(str) == AppendVarInt(Len(str)) \o str
=============================================================================
