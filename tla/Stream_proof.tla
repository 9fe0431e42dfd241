---------------------------- MODULE Stream_proof ----------------------------
(***************************************************************************)
(* Proofs about the octets of a channel's stream: how long the messages    *)
(* are that WriteData cuts a buffer into, what the encoding of Wire gives  *)
(* back, and that the reader of ChannelReceive gives the application what  *)
(* the peer wrote.  They hold for every packet size and buffer, and for    *)
(* any number of messages of any length.                                   *)
(*                                                                         *)
(* The recursion of Wire runs over the eight octets of a varint at most,   *)
(* and that of Encode over the ten fields of a message at most, so that    *)
(* both can be unfolded.  The messages of a stream are unbounded in        *)
(* number; the invariant says only that there are places in the stream     *)
(* where they start, and each step of the writer adds the next place.      *)
(***************************************************************************)
EXTENDS WriteData, ChannelReceive, TLAPS

-----------------------------------------------------------------------------
(* The lengths of the messages of a write.  The bounds are inductive       *)
(* together with TypeOK; the work is in the arithmetic.                    *)

\* There are four lengths of varints.
LEMMA VarIntLenType ==
    ASSUME NEW n \in Nat
    PROVE  VarIntLen(n) \in {1, 2, 4, 8}
BY DEF VarIntLen

\* A shorter string has no longer a length prefix.
LEMMA VarIntLenMonotone ==
    ASSUME NEW n \in Nat, NEW m \in Nat, n <= m
    PROVE  VarIntLen(n) <= VarIntLen(m)
BY DEF VarIntLen

\* The message type, with the data type of extended data, takes two or three octets.
LEMMA PrefixValue ==
    ASSUME NEW t \in DataTypes
    PROVE  Prefix(t) \in {2, 3} /\ DataMessageLen(t, 0) = Prefix(t) + 1
BY DEF DataTypes, Prefix, DataMessageLen, VarIntLen

\* A message carries no more than what is left of the buffer.
LEMMA PayloadType ==
    ASSUME TypeOK, Accepted
    PROVE  Payload \in Nat /\ Payload <= left
<1>1. DataMessageLen(type, 0) \in Nat /\ GoOverhead(type) \in Nat
  BY PrefixValue DEF TypeOK, GoOverhead
<1>2. RustPayload(max, type) \in Nat
  BY <1>1 DEF RustPayload, TypeOK
<1> QED
  BY <1>1, <1>2 DEF Payload, TypeOK

\* The first state has the types.
LEMMA InitType == WriteInit => TypeOK
BY WriteAssumption DEF WriteAssumption, WriteInit, TypeOK

\* So has the state behind every step.
LEMMA NextType == TypeOK /\ [WriteNext]_writeVars => TypeOK'
<1> SUFFICES ASSUME TypeOK, [WriteNext]_writeVars PROVE TypeOK'
  OBVIOUS
<1>1. CASE WriteMessage
  <2>1. Payload \in Nat /\ Payload <= left
    BY <1>1, PayloadType DEF WriteMessage
  <2>2. DataMessageLen(type, Payload) \in Nat
    BY <2>1, VarIntLenType, PrefixValue DEF DataMessageLen, TypeOK
  <2> QED
    BY <1>1, <2>1, <2>2 DEF WriteMessage, TypeOK
<1>2. CASE Reject \/ WriteFails \/ Return \/ UNCHANGED writeVars
  BY <1>2 DEF Reject, WriteFails, Return, writeVars, TypeOK
<1> QED
  BY <1>1, <1>2 DEF WriteNext

\* The buffer is never advanced past its end by either implementation.
THEOREM TypeCorrect == WriteSpec => []TypeOK
BY InitType, NextType, PTL DEF WriteSpec

\* The encoded length of a message is bounded by what the writer reserved.
LEMMA GoMessageFits ==
    ASSUME TypeOK, impl = "go", Accepted
    PROVE  DataMessageLen(type, Payload) <= max
<1>1. max >= 64 /\ max <= 16777216 /\ max \in Nat
  BY DEF Accepted, ValidPacketSize, TypeOK, MaxSSHStringLength
<1>2. Prefix(type) \in {2, 3} /\ GoOverhead(type) = Prefix(type) + 8
  BY PrefixValue DEF GoOverhead, TypeOK
<1>3. Payload \in Nat /\ Payload <= max - GoOverhead(type)
  BY <1>1, <1>2 DEF Payload, TypeOK
<1>4. VarIntLen(Payload) \in {1, 2, 4, 8}
  BY <1>3, VarIntLenType
<1> QED
  BY <1>1, <1>2, <1>3, <1>4 DEF DataMessageLen

\* No message of the Go implementation exceeds the packet size of the peer,
\* whatever sizes the peer advertises and whatever is written.
THEOREM GoPacketsBounded == WriteSpec => []GoPacketBounded
<1>1. WriteInit => GoPacketBounded
  BY WriteAssumption DEF WriteAssumption, WriteInit, GoPacketBounded, PacketBounded
<1>2. TypeOK /\ GoPacketBounded /\ [WriteNext]_writeVars => GoPacketBounded'
  <2> SUFFICES ASSUME TypeOK, GoPacketBounded, [WriteNext]_writeVars PROVE GoPacketBounded'
    OBVIOUS
  <2>1. CASE WriteMessage
    <3>1. impl' = impl /\ max' = max /\ last' = DataMessageLen(type, Payload) /\ Accepted
      BY <2>1 DEF WriteMessage
    <3> QED
      BY <3>1, GoMessageFits DEF GoPacketBounded, PacketBounded
  <2>2. CASE Reject \/ WriteFails \/ Return \/ UNCHANGED writeVars
    BY <2>2 DEF Reject, WriteFails, Return, writeVars, GoPacketBounded, PacketBounded
  <2> QED
    BY <2>1, <2>2 DEF WriteNext
<1> QED
  BY <1>1, <1>2, TypeCorrect, PTL DEF WriteSpec

\* The one byte that write_data reserves for the length prefix may be too few by the rest
\* of the prefix.
LEMMA RustMessageOverrun ==
    ASSUME TypeOK, impl = "rust", Accepted
    PROVE  DataMessageLen(type, Payload) <= max + VarIntLen(max)
<1>1. max \in Nat /\ left \in Nat /\ Prefix(type) \in {2, 3} /\ max >= Prefix(type) + 1
  BY PrefixValue DEF Accepted, TypeOK
<1>2. Payload \in Nat /\ Payload <= RustPayload(max, type)
  <2>1. RustPayload(max, type) \in Nat
    BY <1>1, PrefixValue DEF RustPayload, TypeOK
  <2> QED
    BY <1>1, <2>1 DEF Payload
<1>3. CASE max > Prefix(type) + 1
  <2>1. Payload <= max - Prefix(type) - 1 /\ Payload <= max
    BY <1>1, <1>2, <1>3, PrefixValue DEF RustPayload, TypeOK
  <2>2. VarIntLen(Payload) <= VarIntLen(max)
    BY <1>1, <1>2, <2>1, VarIntLenMonotone
  <2> QED
    BY <1>1, <1>2, <2>1, <2>2, VarIntLenType DEF DataMessageLen
<1>4. CASE max = Prefix(type) + 1
  <2>1. Payload <= 1
    BY <1>1, <1>2, <1>4, PrefixValue DEF RustPayload, TypeOK
  <2>2. VarIntLen(Payload) = 1 /\ VarIntLen(max) \in {1, 2, 4, 8}
    BY <1>1, <1>2, <2>1, VarIntLenType DEF VarIntLen
  <2> QED
    BY <1>1, <1>2, <1>4, <2>1, <2>2 DEF DataMessageLen
<1> QED
  BY <1>1, <1>3, <1>4

\* So no message of either implementation is longer than this.
LEMMA MessageOverrun ==
    ASSUME TypeOK, Accepted
    PROVE  DataMessageLen(type, Payload) <= max + VarIntLen(max)
<1>1. max \in Nat /\ VarIntLen(max) \in {1, 2, 4, 8} /\ impl \in Impls
  BY VarIntLenType DEF TypeOK
<1>2. CASE impl = "go"
  <2>1. DataMessageLen(type, Payload) \in Nat
    BY PayloadType, VarIntLenType, PrefixValue DEF DataMessageLen, TypeOK
  <2> QED
    BY <1>1, <1>2, <2>1, GoMessageFits
<1>3. CASE impl = "rust"
  BY <1>3, RustMessageOverrun
<1> QED
  BY <1>1, <1>2, <1>3 DEF Impls

\* A message exceeds the packet size by no more than the length prefix, for
\* which the Rust implementation reserves only one byte.
THEOREM OverrunIsBounded == WriteSpec => []OverrunBounded
<1>1. WriteInit => OverrunBounded
  BY WriteAssumption, VarIntLenType DEF WriteAssumption, WriteInit, OverrunBounded
<1>2. TypeOK /\ OverrunBounded /\ [WriteNext]_writeVars => OverrunBounded'
  <2> SUFFICES ASSUME TypeOK, OverrunBounded, [WriteNext]_writeVars PROVE OverrunBounded'
    OBVIOUS
  <2>1. CASE WriteMessage
    <3>1. max' = max /\ last' = DataMessageLen(type, Payload) /\ Accepted
      BY <2>1 DEF WriteMessage
    <3> QED
      BY <3>1, MessageOverrun DEF OverrunBounded
  <2>2. CASE Reject \/ WriteFails \/ Return \/ UNCHANGED writeVars
    BY <2>2 DEF Reject, WriteFails, Return, writeVars, OverrunBounded
  <2> QED
    BY <2>1, <2>2 DEF WriteNext
<1> QED
  BY <1>1, <1>2, TypeCorrect, PTL DEF WriteSpec

-----------------------------------------------------------------------------
(* The varint.  The recursive functions of Octet and ReadVarInt have the   *)
(* domain 0 .. 7, so their equations are unfolded without an induction.    *)

\* The largest number that has a varint: 2^62 - 1.
MaxVarInt == 4611686018427387903

\* n divided by 256, i times: the function in Octet.
Shifted(n) == CHOOSE g : g = [i \in 0 .. 7 |-> IF i = 0 THEN n ELSE g[i - 1] \div 256]

\* The function in Octet, value by value.
LEMMA OctetUnfolds ==
    ASSUME NEW n
    PROVE  /\ \A k : Octet(n, k) = Shifted(n)[k] % 256
           /\ Shifted(n)[0] = n
           /\ \A i \in 1 .. 7 : Shifted(n)[i] = Shifted(n)[i - 1] \div 256
<1>. DEFINE rest(x) == x \div 256
            F(g) == [i \in 0 .. 7 |-> IF i = 0 THEN n ELSE rest(g[i - 1])]
            q == Shifted(n)
            q1 == rest(n)
            q2 == rest(q1)
            q3 == rest(q2)
            q4 == rest(q3)
            q5 == rest(q4)
            q6 == rest(q5)
            q7 == rest(q6)
<1>1. \A k : Octet(n, k) = q[k] % 256
  BY DEF Octet, Shifted
<1>2. \E g : g = F(g)
  <2>. HIDE DEF rest, q1, q2, q3, q4, q5, q6, q7
  <2>. DEFINE d == [i \in 0 .. 7 |-> <<n, q1, q2, q3, q4, q5, q6, q7>>[i + 1]]
  <2>1. /\ d = [i \in 0 .. 7 |-> d[i]]
        /\ d[0] = n /\ d[1] = q1 /\ d[2] = q2 /\ d[3] = q3
        /\ d[4] = q4 /\ d[5] = q5 /\ d[6] = q6 /\ d[7] = q7
    OBVIOUS
  <2>. HIDE DEF d
  <2>2. /\ d[1] = rest(d[0]) /\ d[2] = rest(d[1]) /\ d[3] = rest(d[2])
        /\ d[4] = rest(d[3]) /\ d[5] = rest(d[4]) /\ d[6] = rest(d[5])
        /\ d[7] = rest(d[6])
    BY <2>1 DEF q1, q2, q3, q4, q5, q6, q7
  <2>3. \A i \in 0 .. 7 : d[i] = IF i = 0 THEN n ELSE rest(d[i - 1])
    <3>. SUFFICES ASSUME NEW i \in 0 .. 7
                  PROVE  d[i] = IF i = 0 THEN n ELSE rest(d[i - 1])
      OBVIOUS
    <3>0. CASE i = 0
      BY <2>1, <2>2, <3>0
    <3>1. CASE i = 1
      BY <2>1, <2>2, <3>1
    <3>2. CASE i = 2
      BY <2>1, <2>2, <3>2
    <3>3. CASE i = 3
      BY <2>1, <2>2, <3>3
    <3>4. CASE i = 4
      BY <2>1, <2>2, <3>4
    <3>5. CASE i = 5
      BY <2>1, <2>2, <3>5
    <3>6. CASE i = 6
      BY <2>1, <2>2, <3>6
    <3>7. CASE i = 7
      BY <2>1, <2>2, <3>7
    <3>8. i = 0 \/ i = 1 \/ i = 2 \/ i = 3 \/ i = 4 \/ i = 5 \/ i = 6 \/ i = 7
      OBVIOUS
    <3>. QED
      BY <3>0, <3>1, <3>2, <3>3, <3>4, <3>5, <3>6, <3>7, <3>8
  <2>4. d = F(d)
    BY <2>1, <2>3
  <2>. QED
    BY <2>4
<1>3. q = F(q)
  BY <1>2 DEF Shifted
<1>. HIDE DEF q
<1>4. q[0] = n /\ \A i \in 1 .. 7 : q[i] = q[i - 1] \div 256
  BY <1>3
<1>. QED
  BY <1>1, <1>4 DEF q

\* What i + 1 octets of a varint amount to: the function in ReadVarInt.
Value(s, p) ==
    CHOOSE g : g = [i \in 0 .. 7 |-> IF i = 0 THEN s[p] % 64 ELSE g[i - 1] * 256 + s[p + i]]

\* The function in ReadVarInt, value by value.
LEMMA ReadVarIntUnfolds ==
    ASSUME NEW s, NEW p
    PROVE  /\ ReadVarInt(s, p) = Value(s, p)[VarIntSize(s, p) - 1]
           /\ Value(s, p)[0] = s[p] % 64
           /\ \A i \in 1 .. 7 : Value(s, p)[i] = Value(s, p)[i - 1] * 256 + s[p + i]
<1>. DEFINE F(g) == [i \in 0 .. 7 |-> IF i = 0 THEN s[p] % 64 ELSE g[i - 1] * 256 + s[p + i]]
            v == Value(s, p)
            v0 == s[p] % 64
            v1 == v0 * 256 + s[p + 1]
            v2 == v1 * 256 + s[p + 2]
            v3 == v2 * 256 + s[p + 3]
            v4 == v3 * 256 + s[p + 4]
            v5 == v4 * 256 + s[p + 5]
            v6 == v5 * 256 + s[p + 6]
            v7 == v6 * 256 + s[p + 7]
<1>1. ReadVarInt(s, p) = v[VarIntSize(s, p) - 1]
  BY DEF ReadVarInt, Value
<1>2. \E g : g = F(g)
  <2>. HIDE DEF v0, v1, v2, v3, v4, v5, v6, v7
  <2>. DEFINE d == [i \in 0 .. 7 |-> <<v0, v1, v2, v3, v4, v5, v6, v7>>[i + 1]]
  <2>1. /\ d = [i \in 0 .. 7 |-> d[i]]
        /\ d[0] = v0 /\ d[1] = v1 /\ d[2] = v2 /\ d[3] = v3
        /\ d[4] = v4 /\ d[5] = v5 /\ d[6] = v6 /\ d[7] = v7
    OBVIOUS
  <2>. HIDE DEF d
  <2>2. /\ d[0] = s[p] % 64
        /\ d[1] = d[0] * 256 + s[p + 1] /\ d[2] = d[1] * 256 + s[p + 2]
        /\ d[3] = d[2] * 256 + s[p + 3] /\ d[4] = d[3] * 256 + s[p + 4]
        /\ d[5] = d[4] * 256 + s[p + 5] /\ d[6] = d[5] * 256 + s[p + 6]
        /\ d[7] = d[6] * 256 + s[p + 7]
    BY <2>1 DEF v0, v1, v2, v3, v4, v5, v6, v7
  <2>3. \A i \in 0 .. 7 : d[i] = IF i = 0 THEN s[p] % 64 ELSE d[i - 1] * 256 + s[p + i]
    <3>. SUFFICES ASSUME NEW i \in 0 .. 7
                  PROVE  d[i] = IF i = 0 THEN s[p] % 64 ELSE d[i - 1] * 256 + s[p + i]
      OBVIOUS
    <3>0. CASE i = 0
      BY <2>2, <3>0
    <3>1. CASE i = 1
      BY <2>2, <3>1
    <3>2. CASE i = 2
      BY <2>2, <3>2
    <3>3. CASE i = 3
      BY <2>2, <3>3
    <3>4. CASE i = 4
      BY <2>2, <3>4
    <3>5. CASE i = 5
      BY <2>2, <3>5
    <3>6. CASE i = 6
      BY <2>2, <3>6
    <3>7. CASE i = 7
      BY <2>2, <3>7
    <3>8. i = 0 \/ i = 1 \/ i = 2 \/ i = 3 \/ i = 4 \/ i = 5 \/ i = 6 \/ i = 7
      OBVIOUS
    <3>. QED
      BY <3>0, <3>1, <3>2, <3>3, <3>4, <3>5, <3>6, <3>7, <3>8
  <2>4. d = F(d)
    BY <2>1, <2>3
  <2>. QED
    BY <2>4
<1>3. v = F(v)
  BY <1>2 DEF Value
<1>. HIDE DEF v
<1>4. v[0] = s[p] % 64 /\ \A i \in 1 .. 7 : v[i] = v[i - 1] * 256 + s[p + i]
  BY <1>3
<1>. QED
  BY <1>1, <1>4 DEF v

\* The bits that say how long the varint is.
Tag(len) == CASE len = 1 -> 0 [] len = 2 -> 64 [] len = 4 -> 128 [] len = 8 -> 192

\* The tags of the four lengths.
LEMMA TagValues == Tag(1) = 0 /\ Tag(2) = 64 /\ Tag(4) = 128 /\ Tag(8) = 192
BY DEF Tag

\* The octets of a varint.
LEMMA AppendVarIntIs ==
    ASSUME NEW n
    PROVE  AppendVarInt(n) =
              [i \in 1 .. VarIntLen(n) |->
                  Octet(n, VarIntLen(n) - i) + (IF i = 1 THEN Tag(VarIntLen(n)) ELSE 0)]
BY Zenon DEF AppendVarInt, Tag

\* Each quotient is the next one and an octet, and the one that is written first leaves
\* two bits for the length.
LEMMA Quotients ==
    ASSUME NEW n \in Nat, n <= MaxVarInt
    PROVE  LET q == Shifted(n)
           IN  /\ q[0] = n
               /\ \A i \in 0 .. 7 : q[i] \in Nat
               /\ \A i \in 1 .. 7 : q[i - 1] = q[i] * 256 + (q[i - 1] % 256)
               /\ q[VarIntLen(n) - 1] <= 63
<1>. DEFINE q == Shifted(n)
<1>1. /\ \A k : Octet(n, k) = q[k] % 256
      /\ q[0] = n
      /\ \A i \in 1 .. 7 : q[i] = q[i - 1] \div 256
  BY OctetUnfolds
<1>. HIDE DEF q
<1>2. q[0] \in Nat /\ q[1] \in Nat /\ q[2] \in Nat /\ q[3] \in Nat
  BY <1>1
<1>3. q[4] \in Nat /\ q[5] \in Nat /\ q[6] \in Nat /\ q[7] \in Nat
  BY <1>1, <1>2
<1>4. \A i \in 0 .. 7 : q[i] \in Nat
  BY <1>2, <1>3
<1>5. \A i \in 1 .. 7 : q[i - 1] = q[i] * 256 + (q[i - 1] % 256)
  <2>. SUFFICES ASSUME NEW i \in 1 .. 7 PROVE q[i - 1] = q[i] * 256 + (q[i - 1] % 256)
    OBVIOUS
  <2>1. q[i - 1] \in Nat /\ q[i] = q[i - 1] \div 256
    BY <1>1, <1>4
  <2>. QED
    BY <2>1
<1>6. q[VarIntLen(n) - 1] <= 63
  <2>1. CASE n <= 63
    BY <1>1, <2>1 DEF VarIntLen
  <2>2. CASE n > 63 /\ n <= 16383
    BY <1>1, <2>2 DEF VarIntLen
  <2>3. CASE n > 16383 /\ n <= 1073741823
    <3>1. q[1] <= 4194303
      BY <1>1, <1>2, <2>3
    <3>2. q[2] <= 16383
      BY <1>1, <1>2, <3>1
    <3>3. q[3] <= 63
      BY <1>1, <1>2, <3>2
    <3>. QED
      BY <2>3, <3>3 DEF VarIntLen
  <2>4. CASE n > 1073741823
    <3>1. q[1] <= 18014398509481983
      BY <1>1, <1>2, <2>4 DEF MaxVarInt
    <3>2. q[2] <= 70368744177663
      BY <1>1, <1>2, <3>1
    <3>3. q[3] <= 274877906943
      BY <1>1, <1>2, <3>2
    <3>4. q[4] <= 1073741823
      BY <1>1, <1>2, <1>3, <3>3
    <3>5. q[5] <= 4194303
      BY <1>1, <1>3, <3>4
    <3>6. q[6] <= 16383
      BY <1>1, <1>3, <3>5
    <3>7. q[7] <= 63
      BY <1>1, <1>3, <3>6
    <3>. QED
      BY <2>4, <3>7 DEF VarIntLen
  <2>. QED
    BY <2>1, <2>2, <2>3, <2>4
<1>7. q[0] = n
  BY <1>1
<1>. QED
  BY <1>4, <1>5, <1>6, <1>7, Zenon DEF q

\* The first octet says how long the varint is, and has the highest bits of the number.
LEMMA FirstOctet ==
    ASSUME NEW n \in Nat, n <= MaxVarInt, NEW s, NEW p, s[p] = AppendVarInt(n)[1]
    PROVE  /\ VarIntSize(s, p) = VarIntLen(n)
           /\ s[p] % 64 = Shifted(n)[VarIntLen(n) - 1]
<1>. DEFINE len == VarIntLen(n)
            q == Shifted(n)
<1>1. len \in {1, 2, 4, 8}
  BY DEF VarIntLen
<1>2. q[len - 1] <= 63
  BY Quotients
<1>3. \A i \in 0 .. 7 : q[i] \in Nat
  BY Quotients, Zenon
<1>4. AppendVarInt(n) =
         [i \in 1 .. len |-> (q[len - i] % 256) + (IF i = 1 THEN Tag(len) ELSE 0)]
  BY AppendVarIntIs, OctetUnfolds
<1>. HIDE DEF len, q
<1>5. 1 \in 1 .. len /\ len - 1 \in 0 .. 7
  BY <1>1
<1>6. AppendVarInt(n)[1] = (q[len - 1] % 256) + Tag(len)
  BY <1>4, <1>5
<1>7. q[len - 1] \in 0 .. 63
  BY <1>2, <1>3, <1>5
<1>8. q[len - 1] % 256 = q[len - 1]
  BY <1>7
<1>9. s[p] = q[len - 1] + Tag(len)
  BY <1>6, <1>8
<1>10. CASE len = 1
  <2>1. s[p] = q[len - 1] + 0
    BY <1>9, <1>10, TagValues
  <2>2. s[p] \div 64 = 0 /\ s[p] % 64 = q[len - 1] /\ 2 ^ 0 = 1
    BY <1>7, <2>1
  <2>. QED
    BY <1>10, <2>2 DEF VarIntSize, len, q
<1>11. CASE len = 2
  <2>1. s[p] = q[len - 1] + 64
    BY <1>9, <1>11, TagValues
  <2>2. s[p] \div 64 = 1 /\ s[p] % 64 = q[len - 1] /\ 2 ^ 1 = 2
    BY <1>7, <2>1
  <2>. QED
    BY <1>11, <2>2 DEF VarIntSize, len, q
<1>12. CASE len = 4
  <2>1. s[p] = q[len - 1] + 128
    BY <1>9, <1>12, TagValues
  <2>2. s[p] \div 64 = 2 /\ s[p] % 64 = q[len - 1] /\ 2 ^ 2 = 4
    BY <1>7, <2>1
  <2>. QED
    BY <1>12, <2>2 DEF VarIntSize, len, q
<1>13. CASE len = 8
  <2>1. s[p] = q[len - 1] + 192
    BY <1>9, <1>13, TagValues
  <2>2. s[p] \div 64 = 3 /\ s[p] % 64 = q[len - 1] /\ 2 ^ 3 = 8
    BY <1>7, <2>1
  <2>. QED
    BY <1>13, <2>2 DEF VarIntSize, len, q
<1>. QED
  BY <1>1, <1>10, <1>11, <1>12, <1>13

\* What readers of both implementations make of the octets of AppendVarInt at any place of
\* a stream: the same length and the same number, for every number that has a varint.
THEOREM VarIntRoundTrip ==
    ASSUME NEW n \in Nat, n <= MaxVarInt, NEW s, NEW p \in Nat,
           \A i \in 1 .. VarIntLen(n) : s[p + (i - 1)] = AppendVarInt(n)[i]
    PROVE  VarIntSize(s, p) = VarIntLen(n) /\ ReadVarInt(s, p) = n
<1>. DEFINE len == VarIntLen(n)
            q == Shifted(n)
            v == Value(s, p)
<1>1. len \in {1, 2, 4, 8}
  BY DEF VarIntLen
<1>2. /\ q[0] = n
      /\ q[len - 1] <= 63
      /\ \A i \in 1 .. 7 : q[i - 1] = q[i] * 256 + (q[i - 1] % 256)
  BY Quotients
<1>10. \A i \in 0 .. 7 : q[i] \in Nat
  BY Quotients, Zenon
<1>3. /\ ReadVarInt(s, p) = v[VarIntSize(s, p) - 1]
      /\ v[0] = s[p] % 64
      /\ \A i \in 1 .. 7 : v[i] = v[i - 1] * 256 + s[p + i]
  BY ReadVarIntUnfolds
<1>12. AppendVarInt(n) =
         [i \in 1 .. len |-> (q[len - i] % 256) + (IF i = 1 THEN Tag(len) ELSE 0)]
  BY AppendVarIntIs, OctetUnfolds
<1>. HIDE DEF len, q, v
<1>4. \A i \in 1 .. len :
         AppendVarInt(n)[i] = (q[len - i] % 256) + (IF i = 1 THEN Tag(len) ELSE 0)
  BY <1>12
<1>11. \A i \in 0 .. 7 : q[i] \in Nat /\ q[i] % 256 \in Nat
  BY <1>10
<1>6. \A i \in 1 .. len - 1 : s[p + i] = q[len - 1 - i] % 256
  <2>. SUFFICES ASSUME NEW i \in 1 .. len - 1 PROVE s[p + i] = q[len - 1 - i] % 256
    OBVIOUS
  <2>1. i + 1 \in 1 .. len /\ p + ((i + 1) - 1) = p + i /\ i + 1 # 1
        /\ len - (i + 1) = len - 1 - i /\ len - 1 - i \in 0 .. 7
    BY <1>1
  <2>2. s[p + i] = AppendVarInt(n)[i + 1]
    BY <2>1 DEF len
  <2>3. AppendVarInt(n)[i + 1] = (q[len - 1 - i] % 256) + 0
    BY <1>4, <2>1
  <2>4. q[len - 1 - i] % 256 \in Nat
    BY <1>11, <2>1
  <2>. QED
    BY <2>2, <2>3, <2>4
<1>7. VarIntSize(s, p) = len /\ v[0] = q[len - 1]
  <2>1. 1 \in 1 .. len /\ p + (1 - 1) = p
    BY <1>1
  <2>2. s[p] = AppendVarInt(n)[1]
    BY <2>1 DEF len
  <2>. QED
    BY <1>3, <2>2, FirstOctet DEF len, q
\* One octet more has been read, one quotient less is missing.
<1>8. \A i \in 1 .. len - 1 : v[i - 1] = q[len - i] => v[i] = q[len - 1 - i]
  <2>. SUFFICES ASSUME NEW i \in 1 .. len - 1, v[i - 1] = q[len - i]
                PROVE  v[i] = q[len - 1 - i]
    OBVIOUS
  <2>1. i \in 1 .. 7 /\ len - i \in 1 .. 7 /\ (len - i) - 1 = len - 1 - i
    BY <1>1
  <2>2. v[i] = q[len - i] * 256 + (q[len - 1 - i] % 256)
    BY <1>3, <1>6, <2>1
  <2>3. q[(len - i) - 1] = q[len - i] * 256 + (q[(len - i) - 1] % 256)
    BY <1>2, <2>1
  <2>. QED
    BY <2>1, <2>2, <2>3
<1>9. v[len - 1] = q[0]
  <2>1. CASE len = 1
    BY <1>7, <2>1
  <2>2. CASE len = 2
    BY <1>7, <1>8, <2>2
  <2>3. CASE len = 4
    BY <1>7, <1>8, <2>3
  <2>4. CASE len = 8
    <3>1. v[0] = q[7] /\ v[1] = q[6] /\ v[2] = q[5] /\ v[3] = q[4]
      BY <1>7, <1>8, <2>4
    <3>2. v[4] = q[3] /\ v[5] = q[2] /\ v[6] = q[1] /\ v[7] = q[0]
      BY <1>8, <2>4, <3>1
    <3>. QED
      BY <2>4, <3>2
  <2>. QED
    BY <1>1, <2>1, <2>2, <2>3, <2>4
<1>. QED
  BY <1>2, <1>3, <1>7, <1>9 DEF len

\* The octets of a varint are as many as varint_len counts.
LEMMA AppendVarIntType ==
    ASSUME NEW n \in Nat, n <= MaxVarInt
    PROVE  AppendVarInt(n) \in Seq(Nat) /\ Len(AppendVarInt(n)) = VarIntLen(n)
<1>. DEFINE len == VarIntLen(n)
            q == Shifted(n)
<1>1. len \in {1, 2, 4, 8} /\ Tag(len) \in Nat
  BY TagValues DEF VarIntLen
<1>2. AppendVarInt(n) =
         [i \in 1 .. len |-> (q[len - i] % 256) + (IF i = 1 THEN Tag(len) ELSE 0)]
  BY AppendVarIntIs, OctetUnfolds
<1>3. \A i \in 0 .. 7 : q[i] \in Nat
  BY Quotients, Zenon
<1>. HIDE DEF len, q
<1>4. \A i \in 1 .. len : (q[len - i] % 256) + (IF i = 1 THEN Tag(len) ELSE 0) \in Nat
  <2>. SUFFICES ASSUME NEW i \in 1 .. len
                PROVE  (q[len - i] % 256) + (IF i = 1 THEN Tag(len) ELSE 0) \in Nat
    OBVIOUS
  <2>1. len - i \in 0 .. 7
    BY <1>1
  <2>2. q[len - i] \in Nat
    BY <1>3, <2>1
  <2>. QED
    BY <1>1, <2>2
<1>5. AppendVarInt(n) \in [1 .. len -> Nat] /\ len \in Nat
  BY <1>1, <1>2, <1>4
<1>. QED
  BY <1>5 DEF len

\* What \o and SubSeq do to a sequence.
LEMMA ConcatFacts ==
    ASSUME NEW x \in Seq(Nat), NEW y \in Seq(Nat)
    PROVE  /\ x \o y \in Seq(Nat)
           /\ Len(x \o y) = Len(x) + Len(y)
           /\ Len(x) \in Nat /\ Len(y) \in Nat
           /\ \A i \in 1 .. Len(x) : (x \o y)[i] = x[i]
           /\ \A i \in 1 .. Len(y) : (x \o y)[Len(x) + i] = y[i]
<1>1. x \o y \in Seq(Nat) /\ Len(x \o y) = Len(x) + Len(y)
  OBVIOUS
<1>2. Len(x) \in Nat /\ Len(y) \in Nat
  OBVIOUS
<1>3. \A i \in 1 .. Len(x) : (x \o y)[i] = x[i]
  OBVIOUS
<1>4. \A i \in 1 .. Len(y) : (x \o y)[Len(x) + i] = y[i]
  OBVIOUS
<1>. QED
  BY <1>1, <1>2, <1>3, <1>4

\* A part of x that agrees with y everywhere is y.
LEMMA SubSeqFacts ==
    ASSUME NEW x \in Seq(Nat), NEW y \in Seq(Nat), NEW k \in Nat,
           k + Len(y) <= Len(x), \A i \in 1 .. Len(y) : x[k + i] = y[i]
    PROVE  SubSeq(x, k + 1, k + Len(y)) = y
<1>. DEFINE t == SubSeq(x, k + 1, k + Len(y))
<1>1. Len(y) \in Nat /\ Len(x) \in Nat
  OBVIOUS
<1>2. t \in Seq(Nat) /\ Len(t) = Len(y)
  BY <1>1
<1>3. \A i \in 1 .. Len(y) : t[i] = x[k + i]
  BY <1>1
<1>. HIDE DEF t
<1>4. \A i \in 1 .. Len(y) : t[i] = y[i]
  BY <1>3
<1>5. t = [i \in 1 .. Len(y) |-> t[i]]
  BY <1>2
<1>6. y = [i \in 1 .. Len(y) |-> y[i]]
  OBVIOUS
<1>7. [i \in 1 .. Len(y) |-> t[i]] = [i \in 1 .. Len(y) |-> y[i]]
  BY <1>4
<1>8. t = y
  BY <1>5, <1>6, <1>7, Zenon
<1>. QED
  BY <1>8 DEF t

\* A string is read back from any place of a stream.
THEOREM StringRoundTrip ==
    ASSUME NEW str \in Seq(Nat), Len(str) <= MaxVarInt,
           NEW s \in Seq(Nat), NEW m \in Nat, m + Len(AppendSSHString(str)) <= Len(s),
           \A i \in 1 .. Len(AppendSSHString(str)) : s[m + i] = AppendSSHString(str)[i]
    PROVE  /\ ReadVarInt(s, m + 1) = Len(str)
           /\ m + VarIntSize(s, m + 1) + Len(str) = m + Len(AppendSSHString(str))
           /\ SubSeq(s, (m + VarIntSize(s, m + 1)) + 1, (m + VarIntSize(s, m + 1)) + Len(str))
                  = str
<1>. DEFINE n == Len(str)
            a == AppendVarInt(n)
            len == VarIntLen(n)
<1>1. a \in Seq(Nat) /\ Len(a) = len /\ n \in Nat
  BY AppendVarIntType
<1>2. len \in Nat /\ len > 0 /\ n <= MaxVarInt
  BY <1>1 DEF VarIntLen
<1>3. AppendSSHString(str) = a \o str
  BY DEF AppendSSHString
<1>. HIDE DEF n, a, len
<1>4. Len(a \o str) = len + n
  BY <1>1, ConcatFacts DEF n
<1>5. \A i \in 1 .. len : (a \o str)[i] = a[i]
  BY <1>1, ConcatFacts
<1>6. \A i \in 1 .. n : (a \o str)[len + i] = str[i]
  BY <1>1, ConcatFacts DEF n
<1>7. \A i \in 1 .. len + n : s[m + i] = (a \o str)[i]
  BY <1>3, <1>4
<1>8. \A i \in 1 .. len : s[(m + 1) + (i - 1)] = a[i]
  <2>. SUFFICES ASSUME NEW i \in 1 .. len PROVE s[(m + 1) + (i - 1)] = a[i]
    OBVIOUS
  <2>1. i \in 1 .. len + n /\ (m + 1) + (i - 1) = m + i
    BY <1>1, <1>2
  <2>. QED
    BY <1>5, <1>7, <2>1
<1>9. VarIntSize(s, m + 1) = len /\ ReadVarInt(s, m + 1) = n
  <2>1. m + 1 \in Nat
    OBVIOUS
  <2>. QED
    BY <1>1, <1>2, <1>8, <2>1, VarIntRoundTrip DEF a, len
<1>10. ASSUME NEW i \in 1 .. n PROVE s[(m + len) + i] = str[i]
  <2>1. len + i \in 1 .. len + n /\ (m + len) + i = m + (len + i)
    BY <1>1, <1>2
  <2>2. s[m + (len + i)] = (a \o str)[len + i]
    BY <1>7, <2>1
  <2>3. (a \o str)[len + i] = str[i]
    BY <1>6
  <2>. QED
    BY <2>1, <2>2, <2>3
<1>11. (m + len) + n <= Len(s) /\ m + len \in Nat /\ Len(s) \in Nat
  BY <1>1, <1>2, <1>3, <1>4
<1>12. SubSeq(s, (m + len) + 1, (m + len) + n) = str
  BY <1>10, <1>11, SubSeqFacts DEF n
<1>13. m + len + n = m + Len(AppendSSHString(str))
  BY <1>1, <1>2, <1>3, <1>4
<1>. QED
  BY <1>9, <1>12, <1>13 DEF n

\* The first part of ConcatFacts, to be instantiated by itself.
LEMMA ConcatLen ==
    \A x, y \in Seq(Nat) : x \o y \in Seq(Nat) /\ Len(x \o y) = Len(x) + Len(y)
  BY ConcatFacts

\* The lengths that WriteData computes with are those of the octets that are written: the
\* message type, for extended data the data type, and the data as a string.
THEOREM DataMessageLenIsTrue ==
    ASSUME NEW t \in DataTypes, NEW data \in Seq(Nat), Len(data) <= MaxVarInt
    PROVE  DataMessageLen(t, Len(data)) =
              Len((IF t = 0 THEN AppendVarInt(94) ELSE AppendVarInt(95) \o AppendVarInt(t))
                      \o AppendSSHString(data))
<1>1. /\ AppendVarInt(94) \in Seq(Nat) /\ Len(AppendVarInt(94)) = VarIntLen(94)
      /\ AppendVarInt(95) \in Seq(Nat) /\ Len(AppendVarInt(95)) = VarIntLen(95)
  BY AppendVarIntType DEF MaxVarInt
<1>2. AppendVarInt(t) \in Seq(Nat) /\ Len(AppendVarInt(t)) = VarIntLen(t) /\ t \in {0, 1}
  BY AppendVarIntType DEF DataTypes, MaxVarInt
<1>3. /\ AppendVarInt(Len(data)) \in Seq(Nat)
      /\ Len(AppendVarInt(Len(data))) = VarIntLen(Len(data))
  BY AppendVarIntType
<1>4. /\ AppendSSHString(data) \in Seq(Nat)
      /\ Len(AppendSSHString(data)) = VarIntLen(Len(data)) + Len(data)
  BY <1>3, ConcatLen, Zenon DEF AppendSSHString
<1>5. /\ VarIntLen(94) \in Nat /\ VarIntLen(95) \in Nat /\ VarIntLen(t) \in Nat
      /\ VarIntLen(Len(data)) \in Nat /\ Len(data) \in Nat
  BY <1>2 DEF VarIntLen
<1>. DEFINE a == AppendVarInt(94)
            b == AppendVarInt(95)
            c == AppendVarInt(t)
            d == AppendSSHString(data)
<1>6. /\ a \in Seq(Nat) /\ Len(a) = VarIntLen(94)
      /\ b \in Seq(Nat) /\ Len(b) = VarIntLen(95)
      /\ c \in Seq(Nat) /\ Len(c) = VarIntLen(t)
      /\ d \in Seq(Nat) /\ Len(d) = VarIntLen(Len(data)) + Len(data)
  BY <1>1, <1>2, <1>4
<1>. HIDE DEF a, b, c, d
<1>7. a \in Seq(Nat) /\ d \in Seq(Nat)
  BY <1>6
<1>8. Len(a \o d) = Len(a) + Len(d)
  BY <1>7, ConcatLen, Zenon
<1>9. b \in Seq(Nat) /\ c \in Seq(Nat)
  BY <1>6
<1>10. b \o c \in Seq(Nat) /\ Len(b \o c) = Len(b) + Len(c)
  BY <1>9, ConcatLen, Zenon
<1>11. Len((b \o c) \o d) = (Len(b) + Len(c)) + Len(d)
  BY <1>7, <1>10, ConcatLen, Zenon
<1>12. CASE t = 0
  <2>1. DataMessageLen(t, Len(data)) = Len(a \o d)
    BY <1>5, <1>6, <1>8, <1>12 DEF DataMessageLen, Prefix
  <2>. QED
    BY <1>12, <2>1 DEF a, d
<1>13. CASE t = 1
  <2>1. DataMessageLen(t, Len(data)) = Len((b \o c) \o d)
    BY <1>5, <1>6, <1>11, <1>13 DEF DataMessageLen, Prefix
  <2>. QED
    BY <1>13, <2>1 DEF b, c, d
<1>. QED
  BY <1>2, <1>12, <1>13

-----------------------------------------------------------------------------
(* One field at the reader *)

Kinds == {"int", "protocol", "family", "string", "bool", "octets", "port"}

\* Whether the stream has e behind pos, as far as the stream goes.
Follows(e) == \A x \in 1 .. Len(e) : pos + x <= Len(wire) => wire[pos + x] = e[x]

\* What the reader makes of a field that was written as v: it has enough of it when the
\* whole field is there, and not before unless it refuses the field, and then it reads v
\* and stands behind the field.
ReadBack(f, v) ==
    LET e == EncodeField(f, v) IN
    /\ e \in Seq(Nat)
    /\ Len(e) > 0
    /\ Complete(f) /\ ~Refused(f) => pos + Len(e) <= Len(wire)
    /\ pos + Len(e) <= Len(wire) =>
          Complete(f) /\ FieldValue(f) = v /\ FieldEnd(f) = pos + Len(e)

\* The bound of IsVarInt is 2^62.
LEMMA VarIntBound ==
    ASSUME NEW n, IsVarInt(n)
    PROVE  n \in Nat /\ n <= MaxVarInt
<1>1. n \in Nat /\ (n \div 1073741824) \div 4 < 1073741824
  BY DEF IsVarInt
<1>2. n \div 1073741824 < 4294967296
  BY <1>1
<1>. QED
  BY <1>1, <1>2 DEF MaxVarInt

\* A varint is there when its octets are, and then it is read back.
LEMMA VarIntAtReader ==
    ASSUME wire \in Seq(Nat), pos \in Nat, pos <= Len(wire),
           NEW n, IsVarInt(n), Follows(AppendVarInt(n))
    PROVE  /\ AppendVarInt(n) \in Seq(Nat)
           /\ Len(AppendVarInt(n)) = VarIntLen(n)
           /\ VarIntLen(n) \in Nat /\ VarIntLen(n) > 0
           /\ VarIntThere(pos) <=> pos + VarIntLen(n) <= Len(wire)
           /\ VarIntThere(pos) => VarInt = n /\ VarIntEnd = pos + VarIntLen(n)
<1>. DEFINE len == VarIntLen(n)
            a == AppendVarInt(n)
<1>1. n \in Nat /\ n <= MaxVarInt
  BY VarIntBound
<1>2. len \in Nat /\ len > 0 /\ Len(wire) \in Nat
  BY DEF VarIntLen
<1>3. a \in Seq(Nat) /\ Len(a) = len
  BY <1>1, AppendVarIntType
<1>. HIDE DEF len, a
<1>4. \A x \in 1 .. len : pos + x <= Len(wire) => wire[pos + x] = a[x]
  BY <1>3 DEF Follows, a
<1>5. pos < Len(wire) => VarIntSize(wire, pos + 1) = len
  <2>. SUFFICES ASSUME pos < Len(wire) PROVE VarIntSize(wire, pos + 1) = len
    OBVIOUS
  <2>1. 1 \in 1 .. len /\ pos + 1 <= Len(wire)
    BY <1>2
  <2>2. wire[pos + 1] = a[1]
    BY <1>4, <2>1
  <2>. QED
    BY <1>1, <2>2, FirstOctet DEF len, a
<1>6. VarIntThere(pos) <=> pos + len <= Len(wire)
  BY <1>2, <1>5 DEF VarIntThere
<1>7. ASSUME pos + len <= Len(wire) PROVE VarInt = n /\ VarIntEnd = pos + len
  <2>1. \A i \in 1 .. len : wire[(pos + 1) + (i - 1)] = a[i]
    <3>. SUFFICES ASSUME NEW i \in 1 .. len PROVE wire[(pos + 1) + (i - 1)] = a[i]
      OBVIOUS
    <3>1. pos + i <= Len(wire) /\ (pos + 1) + (i - 1) = pos + i
      BY <1>2, <1>7
    <3>. QED
      BY <1>4, <3>1
  <2>2. pos + 1 \in Nat
    OBVIOUS
  <2>3. ReadVarInt(wire, pos + 1) = n /\ VarIntSize(wire, pos + 1) = len
    BY <1>1, <2>1, <2>2, VarIntRoundTrip DEF len, a
  <2>. QED
    BY <2>3 DEF VarInt, VarIntEnd
<1>. QED
  BY <1>2, <1>3, <1>6, <1>7 DEF len, a

\* A number is read back.
LEMMA IntReadBack ==
    ASSUME wire \in Seq(Nat), pos \in Nat, pos <= Len(wire),
           NEW f, f[1] \in {"int", "protocol", "family"},
           NEW v, IsVarInt(v), Follows(EncodeField(f, v))
    PROVE  ReadBack(f, v)
<1>1. EncodeField(f, v) = AppendVarInt(v)
  BY DEF EncodeField
<1>2. Complete(f) <=> VarIntThere(pos)
  BY DEF Complete
<1>3. FieldValue(f) = VarInt /\ FieldEnd(f) = VarIntEnd
  BY DEF FieldValue, FieldEnd
<1>4. Follows(AppendVarInt(v))
  BY <1>1
<1>. QED
  BY <1>1, <1>2, <1>3, <1>4, VarIntAtReader DEF ReadBack

\* A truth value is read back.
LEMMA BoolReadBack ==
    ASSUME wire \in Seq(Nat), pos \in Nat, pos <= Len(wire),
           NEW f, f[1] = "bool",
           NEW v \in BOOLEAN, Follows(EncodeField(f, v))
    PROVE  ReadBack(f, v)
<1>. DEFINE e == <<IF v THEN 1 ELSE 0>>
<1>1. EncodeField(f, v) = e
  BY DEF EncodeField
<1>2. Complete(f) <=> pos + 1 <= Len(wire)
  BY DEF Complete
<1>3. (FieldValue(f) <=> wire[pos + 1] # 0) /\ FieldEnd(f) = pos + 1
  BY DEF FieldValue, FieldEnd
<1>4. e \in Seq(Nat) /\ Len(e) = 1 /\ e[1] = IF v THEN 1 ELSE 0
  OBVIOUS
<1>. HIDE DEF e
<1>5. pos + 1 <= Len(wire) => wire[pos + 1] = e[1]
  BY <1>1, <1>4 DEF Follows
<1>6. pos + 1 <= Len(wire) => (wire[pos + 1] # 0 <=> v)
  BY <1>4, <1>5
<1>7. FieldValue(f) \in BOOLEAN
  BY DEF FieldValue
<1>8. pos + 1 <= Len(wire) => FieldValue(f) = v
  BY <1>3, <1>6, <1>7
<1>. QED
  BY <1>1, <1>2, <1>3, <1>4, <1>8 DEF ReadBack

\* An address or a port, whose length the reader knows, is read back.
LEMMA OctetsReadBack ==
    ASSUME wire \in Seq(Nat), pos \in Nat, pos <= Len(wire),
           NEW f, f[1] \in {"octets", "port"},
           NEW v \in Seq(Nat), Len(v) = Wanted(f), Len(v) > 0,
           Follows(EncodeField(f, v))
    PROVE  ReadBack(f, v)
<1>1. EncodeField(f, v) = v
  BY DEF EncodeField
<1>2. Complete(f) <=> pos + Len(v) <= Len(wire)
  BY DEF Complete, Wanted
<1>3. FieldValue(f) = SubSeq(wire, pos + 1, pos + Len(v)) /\ FieldEnd(f) = pos + Len(v)
  BY DEF FieldValue, FieldEnd
<1>4. ASSUME pos + Len(v) <= Len(wire) PROVE SubSeq(wire, pos + 1, pos + Len(v)) = v
  <2>1. \A i \in 1 .. Len(v) : wire[pos + i] = v[i]
    <3>. SUFFICES ASSUME NEW i \in 1 .. Len(v) PROVE wire[pos + i] = v[i]
      OBVIOUS
    <3>1. Len(v) \in Nat /\ Len(wire) \in Nat
      OBVIOUS
    <3>2. pos + i <= Len(wire)
      BY <1>4, <3>1
    <3>. QED
      BY <1>1, <3>2 DEF Follows
  <2>. QED
    BY <1>4, <2>1, SubSeqFacts
<1>. QED
  BY <1>1, <1>2, <1>3, <1>4 DEF ReadBack

\* A string is read back, unless the reader refuses its length before its octets are there.
LEMMA StringReadBack ==
    ASSUME wire \in Seq(Nat), pos \in Nat, pos <= Len(wire),
           NEW f, f[1] = "string",
           NEW v \in Seq(Nat), IsVarInt(Len(v)), Follows(EncodeField(f, v))
    PROVE  ReadBack(f, v)
<1>. DEFINE n == Len(v)
            a == AppendVarInt(n)
            len == VarIntLen(n)
            e == AppendSSHString(v)
<1>1. EncodeField(f, v) = e /\ e = a \o v
  BY DEF EncodeField, AppendSSHString
<1>2. Complete(f) <=> /\ VarIntThere(pos)
                      /\ VarInt > MaxString \/ VarIntEnd + VarInt <= Len(wire)
  BY DEF Complete
<1>3. FieldValue(f) = SubSeq(wire, VarIntEnd + 1, VarIntEnd + VarInt)
      /\ FieldEnd(f) = VarIntEnd + VarInt
  BY DEF FieldValue, FieldEnd
<1>4. n \in Nat /\ n <= MaxVarInt
  BY VarIntBound
<1>5. a \in Seq(Nat) /\ Len(a) = len /\ len \in Nat /\ len > 0
  BY <1>4, AppendVarIntType DEF VarIntLen
<1>6. e \in Seq(Nat) /\ Len(e) = len + n
  BY <1>1, <1>5, ConcatFacts
<1>7. Follows(a)
  <2>. SUFFICES ASSUME NEW x \in 1 .. Len(a), pos + x <= Len(wire)
                PROVE  wire[pos + x] = a[x]
    BY DEF Follows
  <2>1. x \in 1 .. Len(e)
    BY <1>4, <1>5, <1>6
  <2>2. wire[pos + x] = e[x]
    BY <1>1, <2>1 DEF Follows
  <2>3. e[x] = a[x]
    BY <1>1, <1>5, ConcatFacts
  <2>. QED
    BY <2>2, <2>3
<1>8. /\ VarIntThere(pos) <=> pos + len <= Len(wire)
      /\ VarIntThere(pos) => VarInt = n /\ VarIntEnd = pos + len
  BY <1>7, VarIntAtReader
<1>9. ASSUME pos + Len(e) <= Len(wire)
      PROVE  SubSeq(wire, (pos + len) + 1, (pos + len) + n) = v
  <2>1. \A i \in 1 .. Len(e) : wire[pos + i] = e[i]
    <3>. SUFFICES ASSUME NEW i \in 1 .. Len(e) PROVE wire[pos + i] = e[i]
      OBVIOUS
    <3>1. Len(e) \in Nat /\ Len(wire) \in Nat
      BY <1>6
    <3>2. pos + i <= Len(wire)
      BY <1>9, <3>1
    <3>. QED
      BY <1>1, <3>2 DEF Follows
  <2>2. VarIntThere(pos) /\ VarIntSize(wire, pos + 1) = len
    <3>1. VarIntThere(pos)
      BY <1>4, <1>5, <1>6, <1>8, <1>9
    <3>3. 1 \in 1 .. Len(e) /\ 1 \in 1 .. Len(a)
      BY <1>4, <1>5, <1>6
    <3>4. e[1] = a[1]
      BY <1>1, <1>5, <3>3, ConcatFacts
    <3>2. wire[pos + 1] = a[1]
      BY <2>1, <3>3, <3>4
    <3>. QED
      BY <1>4, <3>1, <3>2, FirstOctet
  <2>3. SubSeq(wire, (pos + VarIntSize(wire, pos + 1)) + 1,
                    (pos + VarIntSize(wire, pos + 1)) + Len(v)) = v
    BY <1>4, <1>9, <2>1, StringRoundTrip
  <2>. QED
    BY <2>2, <2>3
<1>. HIDE DEF n, a, len, e
<1>10. Complete(f) /\ ~Refused(f) => pos + Len(e) <= Len(wire)
  <2>. SUFFICES ASSUME Complete(f), ~Refused(f) PROVE pos + Len(e) <= Len(wire)
    OBVIOUS
  <2>1. ~(VarInt > MaxString)
    BY DEF Refused
  <2>. QED
    BY <1>2, <1>4, <1>5, <1>6, <1>8, <2>1
<1>11. ASSUME pos + Len(e) <= Len(wire)
       PROVE  Complete(f) /\ FieldValue(f) = v /\ FieldEnd(f) = pos + Len(e)
  <2>1. VarIntThere(pos) /\ VarInt = n /\ VarIntEnd = pos + len
    BY <1>4, <1>5, <1>6, <1>8, <1>11
  <2>2. VarIntEnd + VarInt = pos + Len(e)
    BY <1>4, <1>5, <1>6, <2>1
  <2>3. FieldValue(f) = v
    BY <1>3, <1>9, <1>11, <2>1
  <2>. QED
    BY <1>2, <1>3, <1>11, <2>1, <2>2, <2>3
<1>. QED
  BY <1>1, <1>4, <1>5, <1>6, <1>10, <1>11 DEF ReadBack

\* Every field of a message that the writer filled in.
LEMMA FieldReadBack ==
    ASSUME wire \in Seq(Nat), pos \in Nat, pos <= Len(wire),
           NEW m, NEW f, f[1] \in Kinds, HasKind(f, m),
           f[1] = "octets" => msg.family = m.family,
           Follows(EncodeField(f, m[f[2]]))
    PROVE  ReadBack(f, m[f[2]])
<1>. DEFINE v == m[f[2]]
<1>1. CASE f[1] \in {"int", "protocol", "family"}
  <2>1. IsVarInt(v)
    BY <1>1 DEF HasKind
  <2>. QED
    BY <1>1, <2>1, IntReadBack
<1>2. CASE f[1] = "string"
  <2>1. v \in Seq(Nat) /\ IsVarInt(Len(v))
    BY <1>2 DEF HasKind
  <2>. QED
    BY <1>2, <2>1, StringReadBack
<1>3. CASE f[1] = "bool"
  <2>1. v \in BOOLEAN
    BY <1>3 DEF HasKind
  <2>. QED
    BY <1>3, <2>1, BoolReadBack
<1>4. CASE f[1] = "octets"
  <2>1. v \in Seq(Nat) /\ Len(v) = IF m.family = 4 THEN 4 ELSE 16
    BY <1>4 DEF HasKind
  <2>2. Len(v) = Wanted(f) /\ Len(v) > 0
    BY <1>4, <2>1 DEF Wanted, AddressLen
  <2>. QED
    BY <1>4, <2>1, <2>2, OctetsReadBack
<1>5. CASE f[1] = "port"
  <2>1. v \in Seq(Nat) /\ Len(v) = 2
    BY <1>5 DEF HasKind
  <2>2. Len(v) = Wanted(f) /\ Len(v) > 0
    BY <1>5, <2>1 DEF Wanted
  <2>. QED
    BY <1>5, <2>1, <2>2, OctetsReadBack
<1>. QED
  BY <1>1, <1>2, <1>3, <1>4, <1>5 DEF Kinds

-----------------------------------------------------------------------------
(* The layouts.  A message is read in stages: what a field says decides    *)
(* which fields follow.                                                    *)

\* The names of the fields.
FieldNames ==
    {"address", "channel_type", "char_height", "char_width", "command", "conversation",
     "core_dumped", "data", "data_type", "encoded_terminal_modes",
     "error_message_utf8", "exit_status", "family", "frame", "language_tag",
     "max_packet_size", "pixel_height", "pixel_width", "port", "protocol",
     "reason_code", "request", "signal_name_without_sig", "single_connection",
     "subsystem_name", "term", "type", "want_reply", "x11_authentication_cookie",
     "x11_authentication_protocol", "x11_screen_number"}

\* A kind and a name.
Field == Kinds \X FieldNames

\* The fields of a message.
Layout(m) == WriteLayout("rust", m)

\* The three parts of a layout of a message, and the two of a header's.
Target(m) == IF "family" \in DOMAIN m THEN RustTarget ELSE <<>>
RequestPart(m) == IF "request" \in DOMAIN m THEN RustRequest(m.request) ELSE <<>>

\* How many fields the reader knows of when it has read j of them: the header, or the
\* type, then the body, then the payload of the request.
First(m) == IF "frame" \in DOMAIN m THEN 4 ELSE 1
Second(m) == IF "frame" \in DOMAIN m THEN 4 ELSE 1 + Len(RustBody(m.type))
Stage(m, j) ==
    IF j < First(m) THEN First(m) ELSE IF j < Second(m) THEN Second(m) ELSE Len(Layout(m))

\* An address behind its family, and nothing that the reader takes for more than a field.
Plain(s) ==
    /\ s \in Seq(Field)
    /\ \A i \in 1 .. Len(s) :
          /\ s[i] \notin {Int("type"), Bool("want_reply"), Int("max_packet_size")}
          /\ s[i][1] = "octets" => i > 1 /\ s[i - 1] = Family

\* Every field of Messages is a pair of a kind and a name.
LEMMA FieldsAre ==
    /\ \A name \in FieldNames : Int(name) \in Field /\ Str(name) \in Field
                                /\ Bool(name) \in Field
    /\ Protocol \in Field /\ Family \in Field /\ Address \in Field /\ Port \in Field
<1>1. \A k \in Kinds, name \in FieldNames : <<k, name>> \in Field
  BY DEF Field
<1>2. {"protocol", "family", "address", "port"} \subseteq FieldNames
  BY DEF FieldNames
<1>. QED
  BY <1>1, <1>2 DEF Kinds, Int, Str, Bool, Protocol, Family, Address, Port

\* The target of a forwarding: family, address and port.
LEMMA TargetIs == RustTarget \in Seq(Field) /\ Len(RustTarget) = 3 /\ Plain(RustTarget)
<1>1. RustTarget \in Seq(Field) /\ Len(RustTarget) = 3
  BY FieldsAre DEF FieldNames, RustTarget
<1>2. RustTarget[1] = Family /\ RustTarget[2] = Address /\ RustTarget[3] = Port
  BY DEF RustTarget
<1>3. ASSUME NEW i \in 1 .. 3
      PROVE  /\ RustTarget[i] \notin {Int("type"), Bool("want_reply"), Int("max_packet_size")}
             /\ RustTarget[i][1] = "octets" => i > 1 /\ RustTarget[i - 1] = Family
  <2>1. i = 1 \/ i = 2 \/ i = 3
    OBVIOUS
  <2>. QED
    BY <1>2, <2>1 DEF Family, Address, Port, Int, Bool
<1>. QED
  BY <1>1, <1>3 DEF Plain

\* The payload of a request, whichever it is.
LEMMA RequestIs ==
    ASSUME NEW r
    PROVE  Plain(RustRequest(r)) /\ Len(RustRequest(r)) \in 0 .. 6
<1>. DEFINE s == RustRequest(r)
<1>1. CASE s = <<>>
  <2>1. s \in Seq(Field) /\ Len(s) = 0
    BY <1>1
  <2>. QED
    BY <2>1 DEF Plain
<1>2. CASE s = RustPtyRequest
  <2>1. s \in Seq(Field) /\ Len(s) = 6
    BY <1>2, FieldsAre DEF FieldNames, RustPtyRequest
  <2>2. \A i \in 1 .. 6 : /\ s[i][1] \in {"int", "string"}
                          /\ s[i][2] \notin {"type", "want_reply", "max_packet_size"}
    BY <1>2 DEF RustPtyRequest, Int, Str, Bool
  <2>. HIDE DEF s
  <2>3. Plain(s)
    BY <2>1, <2>2 DEF Plain, Int, Bool
  <2>. QED
    BY <2>1, <2>3 DEF s
<1>3. CASE s = RustX11Request
  <2>1. s \in Seq(Field) /\ Len(s) = 4
    BY <1>3, FieldsAre DEF FieldNames, RustX11Request
  <2>2. \A i \in 1 .. 4 : /\ s[i][1] # "octets"
                          /\ s[i][2] \notin {"type", "want_reply", "max_packet_size"}
    BY <1>3 DEF RustX11Request, Int, Str, Bool
  <2>. HIDE DEF s
  <2>3. Plain(s)
    BY <2>1, <2>2 DEF Plain, Int, Bool
  <2>. QED
    BY <2>1, <2>3 DEF s
<1>4. CASE s = RustExecRequest
  <2>1. s \in Seq(Field) /\ Len(s) = 1
    BY <1>4, FieldsAre DEF FieldNames, RustExecRequest
  <2>2. \A i \in 1 .. 1 : /\ s[i][1] # "octets"
                          /\ s[i][2] \notin {"type", "want_reply", "max_packet_size"}
    BY <1>4 DEF RustExecRequest, Int, Str, Bool
  <2>. HIDE DEF s
  <2>3. Plain(s)
    BY <2>1, <2>2 DEF Plain, Int, Bool
  <2>. QED
    BY <2>1, <2>3 DEF s
<1>5. CASE s = RustSubsystemRequest
  <2>1. s \in Seq(Field) /\ Len(s) = 1
    BY <1>5, FieldsAre DEF FieldNames, RustSubsystemRequest
  <2>2. \A i \in 1 .. 1 : /\ s[i][1] # "octets"
                          /\ s[i][2] \notin {"type", "want_reply", "max_packet_size"}
    BY <1>5 DEF RustSubsystemRequest, Int, Str, Bool
  <2>. HIDE DEF s
  <2>3. Plain(s)
    BY <2>1, <2>2 DEF Plain, Int, Bool
  <2>. QED
    BY <2>1, <2>3 DEF s
<1>6. CASE s = RustWindowChangeRequest
  <2>1. s \in Seq(Field) /\ Len(s) = 4
    BY <1>6, FieldsAre DEF FieldNames, RustWindowChangeRequest
  <2>2. \A i \in 1 .. 4 : /\ s[i][1] # "octets"
                          /\ s[i][2] \notin {"type", "want_reply", "max_packet_size"}
    BY <1>6 DEF RustWindowChangeRequest, Int, Str, Bool
  <2>. HIDE DEF s
  <2>3. Plain(s)
    BY <2>1, <2>2 DEF Plain, Int, Bool
  <2>. QED
    BY <2>1, <2>3 DEF s
<1>7. CASE s = RustSignalRequest
  <2>1. s \in Seq(Field) /\ Len(s) = 1
    BY <1>7, FieldsAre DEF FieldNames, RustSignalRequest
  <2>2. \A i \in 1 .. 1 : /\ s[i][1] # "octets"
                          /\ s[i][2] \notin {"type", "want_reply", "max_packet_size"}
    BY <1>7 DEF RustSignalRequest, Int, Str, Bool
  <2>. HIDE DEF s
  <2>3. Plain(s)
    BY <2>1, <2>2 DEF Plain, Int, Bool
  <2>. QED
    BY <2>1, <2>3 DEF s
<1>8. CASE s = RustExitStatusRequest
  <2>1. s \in Seq(Field) /\ Len(s) = 1
    BY <1>8, FieldsAre DEF FieldNames, RustExitStatusRequest
  <2>2. \A i \in 1 .. 1 : /\ s[i][1] # "octets"
                          /\ s[i][2] \notin {"type", "want_reply", "max_packet_size"}
    BY <1>8 DEF RustExitStatusRequest, Int, Str, Bool
  <2>. HIDE DEF s
  <2>3. Plain(s)
    BY <2>1, <2>2 DEF Plain, Int, Bool
  <2>. QED
    BY <2>1, <2>3 DEF s
<1>9. CASE s = RustExitSignalRequest
  <2>1. s \in Seq(Field) /\ Len(s) = 4
    BY <1>9, FieldsAre DEF FieldNames, RustExitSignalRequest
  <2>2. \A i \in 1 .. 4 : /\ s[i][1] # "octets"
                          /\ s[i][2] \notin {"type", "want_reply", "max_packet_size"}
    BY <1>9 DEF RustExitSignalRequest, Int, Str, Bool
  <2>. HIDE DEF s
  <2>3. Plain(s)
    BY <2>1, <2>2 DEF Plain, Int, Bool
  <2>. QED
    BY <2>1, <2>3 DEF s
<1>10. CASE s = RustForwardingRequest
  <2>1. s \in Seq(Field) /\ Len(s) = 4
    BY <1>10, FieldsAre DEF FieldNames, RustForwardingRequest
  <2>2. s[1] = Protocol /\ s[2] = Family /\ s[3] = Address /\ s[4] = Port
    BY <1>10 DEF RustForwardingRequest
  <2>. HIDE DEF s
  <2>3. ASSUME NEW i \in 1 .. 4
        PROVE  /\ s[i] \notin {Int("type"), Bool("want_reply"), Int("max_packet_size")}
               /\ s[i][1] = "octets" => i > 1 /\ s[i - 1] = Family
    <3>1. i = 1 \/ i = 2 \/ i = 3 \/ i = 4
      OBVIOUS
    <3>. QED
      BY <2>2, <3>1 DEF Protocol, Family, Address, Port, Int, Bool
  <2>4. Plain(s)
    BY <2>1, <2>3 DEF Plain
  <2>. QED
    BY <2>1, <2>4 DEF s
<1>. QED
  BY <1>1, <1>2, <1>3, <1>4, <1>5, <1>6, <1>7, <1>8, <1>9, <1>10 DEF RustRequest

\* Concatenation of lists of fields.
LEMMA ConcatFields ==
    ASSUME NEW x \in Seq(Field), NEW y \in Seq(Field)
    PROVE  /\ x \o y \in Seq(Field)
           /\ Len(x \o y) = Len(x) + Len(y)
           /\ Len(x) \in Nat /\ Len(y) \in Nat
           /\ \A i \in 1 .. Len(x) : (x \o y)[i] = x[i]
           /\ \A i \in 1 .. Len(y) : (x \o y)[Len(x) + i] = y[i]
<1>1. x \o y \in Seq(Field) /\ Len(x \o y) = Len(x) + Len(y)
  OBVIOUS
<1>2. Len(x) \in Nat /\ Len(y) \in Nat
  OBVIOUS
<1>3. \A i \in 1 .. Len(x) : (x \o y)[i] = x[i]
  OBVIOUS
<1>4. \A i \in 1 .. Len(y) : (x \o y)[Len(x) + i] = y[i]
  OBVIOUS
<1>. QED
  BY <1>1, <1>2, <1>3, <1>4

\* The body of a message, for every number that may stand for its type.
LEMMA BodyIs ==
    ASSUME NEW t
    PROVE  LET s == RustBody(t) IN
           /\ s \in Seq(Field)
           /\ Len(s) \in 0 .. 3
           /\ \A i \in 1 .. Len(s) : s[i] # Int("type") /\ s[i][1] # "octets"
           /\ \A i \in 1 .. Len(s) :
                 s[i] = Bool("want_reply") => t = SSH_MSG_CHANNEL_REQUEST /\ i = 2
           /\ t = SSH_MSG_CHANNEL_REQUEST =>
                 Len(s) = 2 /\ s[1] = Str("request") /\ s[2] = Bool("want_reply")
           /\ t \notin KnownTypes => Len(s) = 0
<1>. DEFINE s == RustBody(t)
            OK == /\ s \in Seq(Field)
                  /\ Len(s) \in 0 .. 3
                  /\ \A i \in 1 .. Len(s) : s[i] # Int("type") /\ s[i][1] # "octets"
                  /\ \A i \in 1 .. Len(s) :
                        s[i] = Bool("want_reply") => t = SSH_MSG_CHANNEL_REQUEST /\ i = 2
                  /\ t = SSH_MSG_CHANNEL_REQUEST =>
                        Len(s) = 2 /\ s[1] = Str("request") /\ s[2] = Bool("want_reply")
                  /\ t \notin KnownTypes => Len(s) = 0
<1>0. SUFFICES OK
  OBVIOUS
<1>1. CASE t = SSH_MSG_CHANNEL_REQUEST
  <2>1. s = <<Str("request"), Bool("want_reply")>> /\ t \in KnownTypes
    BY <1>1 DEF RustBody, RustChannelRequest, SSH_MSG_CHANNEL_OPEN_CONFIRMATION,
                SSH_MSG_CHANNEL_REQUEST, SSH_MSG_CHANNEL_OPEN_FAILURE,
                SSH_MSG_CHANNEL_DATA, SSH_MSG_CHANNEL_EXTENDED_DATA, KnownTypes
  <2>2. s \in Seq(Field) /\ Len(s) = 2 /\ s[1] = Str("request") /\ s[2] = Bool("want_reply")
    BY <2>1, FieldsAre DEF FieldNames
  <2>. HIDE DEF s
  <2>3. \A i \in 1 .. Len(s) : i = 1 \/ i = 2
    BY <2>2
  <2>4. \A i \in 1 .. Len(s) :
           /\ s[i] # Int("type") /\ s[i][1] # "octets"
           /\ s[i] = Bool("want_reply") => t = SSH_MSG_CHANNEL_REQUEST /\ i = 2
    BY <1>1, <2>2, <2>3 DEF Str, Bool, Int
  <2>. QED
    BY <2>1, <2>2, <2>4
<1>2. CASE t = SSH_MSG_CHANNEL_OPEN_CONFIRMATION
  <2>1. s = <<Int("max_packet_size")>> /\ t # SSH_MSG_CHANNEL_REQUEST /\ t \in KnownTypes
    BY <1>2 DEF RustBody, RustChannelOpenConfirmation, SSH_MSG_CHANNEL_OPEN_CONFIRMATION,
                SSH_MSG_CHANNEL_REQUEST, SSH_MSG_CHANNEL_OPEN_FAILURE,
                SSH_MSG_CHANNEL_DATA, SSH_MSG_CHANNEL_EXTENDED_DATA, KnownTypes
  <2>2. s \in Seq(Field) /\ Len(s) = 1 /\ s[1] = Int("max_packet_size")
    BY <2>1, FieldsAre DEF FieldNames
  <2>. HIDE DEF s
  <2>3. \A i \in 1 .. Len(s) :
           /\ s[i] # Int("type") /\ s[i][1] # "octets"
           /\ s[i] # Bool("want_reply")
    BY <2>2 DEF Str, Bool, Int
  <2>. QED
    BY <2>1, <2>2, <2>3
<1>3. CASE t = SSH_MSG_CHANNEL_OPEN_FAILURE
  <2>1. /\ s = <<Int("reason_code"), Str("error_message_utf8"), Str("language_tag")>>
        /\ t # SSH_MSG_CHANNEL_REQUEST /\ t \in KnownTypes
    BY <1>3 DEF RustBody, RustChannelOpenFailure, SSH_MSG_CHANNEL_OPEN_CONFIRMATION,
                SSH_MSG_CHANNEL_REQUEST, SSH_MSG_CHANNEL_OPEN_FAILURE,
                SSH_MSG_CHANNEL_DATA, SSH_MSG_CHANNEL_EXTENDED_DATA, KnownTypes
  <2>2. s \in Seq(Field) /\ Len(s) = 3
    BY <2>1, FieldsAre DEF FieldNames
  <2>3. \A i \in 1 .. 3 : /\ s[i][2] \notin {"type", "want_reply"}
                          /\ s[i][1] # "octets"
    BY <2>1 DEF Str, Bool, Int
  <2>. HIDE DEF s
  <2>4. \A i \in 1 .. Len(s) :
           /\ s[i] # Int("type") /\ s[i][1] # "octets"
           /\ s[i] # Bool("want_reply")
    BY <2>2, <2>3 DEF Str, Bool, Int
  <2>. QED
    BY <2>1, <2>2, <2>4
<1>4. CASE t = SSH_MSG_CHANNEL_DATA
  <2>1. s = <<Str("data")>> /\ t # SSH_MSG_CHANNEL_REQUEST /\ t \in KnownTypes
    BY <1>4 DEF RustBody, RustDataOrExtendedData, SSH_MSG_CHANNEL_OPEN_CONFIRMATION,
                SSH_MSG_CHANNEL_REQUEST, SSH_MSG_CHANNEL_OPEN_FAILURE,
                SSH_MSG_CHANNEL_DATA, KnownTypes
  <2>2. s \in Seq(Field) /\ Len(s) = 1 /\ s[1] = Str("data")
    BY <2>1, FieldsAre DEF FieldNames
  <2>. HIDE DEF s
  <2>3. \A i \in 1 .. Len(s) :
           /\ s[i] # Int("type") /\ s[i][1] # "octets"
           /\ s[i] # Bool("want_reply")
    BY <2>2 DEF Str, Bool, Int
  <2>. QED
    BY <2>1, <2>2, <2>3
<1>5. CASE t = SSH_MSG_CHANNEL_EXTENDED_DATA
  <2>1. /\ s = <<Int("data_type"), Str("data")>>
        /\ t # SSH_MSG_CHANNEL_REQUEST /\ t \in KnownTypes
    BY <1>5 DEF RustBody, RustDataOrExtendedData, SSH_MSG_CHANNEL_OPEN_CONFIRMATION,
                SSH_MSG_CHANNEL_REQUEST, SSH_MSG_CHANNEL_OPEN_FAILURE,
                SSH_MSG_CHANNEL_DATA, SSH_MSG_CHANNEL_EXTENDED_DATA, KnownTypes
  <2>2. s \in Seq(Field) /\ Len(s) = 2 /\ s[1] = Int("data_type") /\ s[2] = Str("data")
    BY <2>1, FieldsAre DEF FieldNames
  <2>. HIDE DEF s
  <2>3. \A i \in 1 .. Len(s) : i = 1 \/ i = 2
    BY <2>2
  <2>4. \A i \in 1 .. Len(s) :
           /\ s[i] # Int("type") /\ s[i][1] # "octets"
           /\ s[i] # Bool("want_reply")
    BY <2>2, <2>3 DEF Str, Bool, Int
  <2>. QED
    BY <2>1, <2>2, <2>4
<1>6. CASE t \notin KnownTypes
  <2>1. s = <<>> /\ t # SSH_MSG_CHANNEL_REQUEST
    BY <1>6 DEF RustBody, KnownTypes
  <2>2. s \in Seq(Field) /\ Len(s) = 0
    BY <2>1
  <2>. QED
    BY <2>1, <2>2
<1>. QED
  BY <1>1, <1>2, <1>3, <1>4, <1>5, <1>6 DEF KnownTypes

\* The readers of both implementations, and the Go writer, have the layouts of the Rust
\* writer.
LEMMA SameBodies ==
    ASSUME NEW t
    PROVE  /\ GoBody(t).write = RustBody(t)
           /\ t \in KnownTypes =>
                 RustReadMessage(t) = RustBody(t) /\ GoBody(t).parse = RustBody(t)
<1>. USE DEF RustBody, GoBody, RustReadMessage, SSH_MSG_CHANNEL_OPEN_CONFIRMATION,
             SSH_MSG_CHANNEL_REQUEST, SSH_MSG_CHANNEL_OPEN_FAILURE,
             SSH_MSG_CHANNEL_DATA, SSH_MSG_CHANNEL_EXTENDED_DATA,
             RustDataOrExtendedData, RustChannelOpenFailure, RustChannelOpenConfirmation,
             RustChannelRequest, GoDataOrExtendedData, GoChannelOpenFailure,
             GoChannelOpenConfirmation, GoChannelRequest
<1>1. CASE t \in {91, 92, 94, 95, 98}
  <2>1. CASE t = 91
    BY <2>1
  <2>2. CASE t = 92
    BY <2>2
  <2>3. CASE t = 94
    BY <2>3
  <2>4. CASE t = 95
    BY <2>4
  <2>5. CASE t = 98
    BY <2>5
  <2>. QED
    BY <1>1, <2>1, <2>2, <2>3, <2>4, <2>5
<1>2. CASE t \notin {91, 92, 94, 95, 98}
  BY <1>2 DEF KnownTypes
<1>. QED
  BY <1>1, <1>2

\* What both implementations write and read behind the request type is the same.
LEMMA SameRequests ==
    ASSUME NEW r
    PROVE  /\ r # ForwardPort => GoRequest(r).write = RustRequest(r)
           /\ r \in RustRequestTypes => RustReadRequest(r) = RustRequest(r)
           /\ r \in GoRequestTypes => GoRequest(r).parse = RustRequest(r)
<1>. DEFINE Known == {Pty, X11, Shell, Exec, Subsystem, WindowChange, Signal, ExitStatus,
                      ExitSignal, ForwardPort}
<1>1. \A i \in 1 .. 10, k \in 1 .. 10 : <<i>> = <<k>> => i = k
  OBVIOUS
<1>. USE DEF RustRequest, GoRequest, RustReadRequest, RustRequestTypes, GoRequestTypes,
             RustPtyRequest, RustX11Request, RustExecRequest, RustSubsystemRequest,
             RustWindowChangeRequest, RustSignalRequest, RustExitStatusRequest,
             RustExitSignalRequest, RustForwardingRequest,
             GoPtyRequest, GoX11Request, GoShellRequest, GoExecRequest, GoSubsystemRequest,
             GoWindowChangeRequest, GoSignalRequest, GoExitStatusRequest,
             GoExitSignalRequest,
             Pty, X11, Shell, Exec, Subsystem, WindowChange, Signal, ExitStatus,
             ExitSignal, ForwardPort
<1>2. CASE r = <<1>>
  BY <1>1, <1>2
<1>3. CASE r = <<2>>
  BY <1>1, <1>3
<1>4. CASE r = <<3>>
  BY <1>1, <1>4
<1>5. CASE r = <<4>>
  BY <1>1, <1>5
<1>6. CASE r = <<5>>
  BY <1>1, <1>6
<1>7. CASE r = <<6>>
  BY <1>1, <1>7
<1>8. CASE r = <<7>>
  BY <1>1, <1>8
<1>9. CASE r = <<8>>
  BY <1>1, <1>9
<1>10. CASE r = <<9>>
  BY <1>1, <1>10
<1>11. CASE r = <<10>>
  BY <1>1, <1>11
<1>12. CASE r \notin Known
  BY <1>12
<1>. QED
  BY <1>2, <1>3, <1>4, <1>5, <1>6, <1>7, <1>8, <1>9, <1>10, <1>11, <1>12

\* So are the header of a channel and the target of a forwarding.
LEMMA SameHeaders ==
    /\ GoHeader.write = RustHeader /\ GoHeader.parse = RustHeader
    /\ RustReadHeader = RustHeader
    /\ GoTarget.write = RustTarget /\ GoTarget.parse = RustTarget
    /\ RustReadTarget = RustTarget
BY DEF GoHeader, RustHeader, RustReadHeader, GoTarget, RustTarget, RustReadTarget

\* The layout of a message is its type, the body of that type and the payload of its request.
LEMMA LayoutOfMessage ==
    ASSUME NEW m, "frame" \notin DOMAIN m
    PROVE  LET B == RustBody(m.type)
               R == RequestPart(m)
               L == Layout(m)
           IN  /\ B \in Seq(Field) /\ R \in Seq(Field) /\ L \in Seq(Field)
               /\ Len(B) \in 0 .. 3 /\ Len(R) \in 0 .. 6
               /\ Len(L) = (1 + Len(B)) + Len(R)
               /\ L[1] = Int("type")
               /\ \A i \in 1 .. Len(B) : L[1 + i] = B[i]
               /\ \A i \in 1 .. Len(R) : L[(1 + Len(B)) + i] = R[i]
               /\ Plain(R)
<1>. DEFINE A == <<Int("type")>>
            B == RustBody(m.type)
            R == RequestPart(m)
            L == Layout(m)
<1>1. L = (A \o B) \o R
  BY DEF Layout, WriteLayout, RequestPart
<1>2. A \in Seq(Field) /\ Len(A) = 1 /\ A[1] = Int("type")
  BY FieldsAre DEF FieldNames
<1>3. B \in Seq(Field) /\ Len(B) \in 0 .. 3
  BY BodyIs
<1>4. Plain(R) /\ Len(R) \in 0 .. 6
  <2>1. CASE "request" \in DOMAIN m
    BY <2>1, RequestIs DEF RequestPart
  <2>2. CASE "request" \notin DOMAIN m
    <3>1. R = <<>>
      BY <2>2 DEF RequestPart
    <3>2. R \in Seq(Field) /\ Len(R) = 0
      BY <3>1
    <3>. QED
      BY <3>2 DEF Plain
  <2>. QED
    BY <2>1, <2>2
<1>5. R \in Seq(Field)
  BY <1>4 DEF Plain
<1>. HIDE DEF A, B, R, L
<1>6. /\ A \o B \in Seq(Field) /\ Len(A \o B) = 1 + Len(B)
      /\ (A \o B)[1] = Int("type")
      /\ \A i \in 1 .. Len(B) : (A \o B)[1 + i] = B[i]
  <2>1. A \in Seq(Field) /\ B \in Seq(Field)
    BY <1>2, <1>3
  <2>2. /\ A \o B \in Seq(Field) /\ Len(A \o B) = Len(A) + Len(B)
        /\ \A i \in 1 .. Len(A) : (A \o B)[i] = A[i]
        /\ \A i \in 1 .. Len(B) : (A \o B)[Len(A) + i] = B[i]
    BY <2>1, ConcatFields
  <2>3. Len(A) = 1 /\ A[1] = Int("type")
    BY <1>2
  <2>4. 1 \in 1 .. 1
    OBVIOUS
  <2>5. (A \o B)[1] = Int("type")
    BY <2>2, <2>3, <2>4, Zenon
  <2>. QED
    BY <2>2, <2>3, <2>5, Zenon
<1>7. /\ L \in Seq(Field) /\ Len(L) = (1 + Len(B)) + Len(R)
      /\ \A i \in 1 .. 1 + Len(B) : L[i] = (A \o B)[i]
      /\ \A i \in 1 .. Len(R) : L[(1 + Len(B)) + i] = R[i]
  <2>. DEFINE C == A \o B
  <2>1. L = C \o R /\ C \in Seq(Field) /\ Len(C) = 1 + Len(B)
    BY <1>1, <1>6
  <2>. HIDE DEF C
  <2>2. /\ L \in Seq(Field) /\ Len(L) = Len(C) + Len(R)
        /\ \A i \in 1 .. Len(C) : L[i] = C[i]
        /\ \A i \in 1 .. Len(R) : L[Len(C) + i] = R[i]
    BY <1>5, <2>1, ConcatFields, Zenon
  <2>3. /\ L \in Seq(Field) /\ Len(L) = (1 + Len(B)) + Len(R)
        /\ \A i \in 1 .. 1 + Len(B) : L[i] = C[i]
        /\ \A i \in 1 .. Len(R) : L[(1 + Len(B)) + i] = R[i]
    BY <2>1, <2>2
  <2>. QED
    BY <2>3 DEF C
<1>8. L[1] = Int("type")
  BY <1>3, <1>6, <1>7
<1>9. ASSUME NEW i \in 1 .. Len(B) PROVE L[1 + i] = B[i]
  <2>1. 1 + i \in 1 .. 1 + Len(B)
    BY <1>3
  <2>. QED
    BY <1>6, <1>7, <2>1
<1>. QED
  BY <1>3, <1>4, <1>5, <1>7, <1>8, <1>9 DEF B, R, L

\* The layout of a header is four fields and, for a forwarding, its target.
LEMMA LayoutOfHeader ==
    ASSUME NEW m, "frame" \in DOMAIN m
    PROVE  LET T == Target(m)
               L == Layout(m)
           IN  /\ T \in Seq(Field) /\ L \in Seq(Field)
               /\ Len(T) \in {0, 3}
               /\ Len(L) = 4 + Len(T)
               /\ RustHeader \in Seq(Field) /\ Len(RustHeader) = 4
               /\ \A i \in 1 .. 4 : L[i] = RustHeader[i]
               /\ L[1] = Int("frame") /\ L[2] = Int("conversation")
               /\ L[3] = Str("channel_type") /\ L[4] = Int("max_packet_size")
               /\ \A i \in 1 .. Len(T) : L[4 + i] = T[i]
               /\ Plain(T)
<1>. DEFINE A == RustHeader
            T == Target(m)
            L == Layout(m)
<1>1. L = A \o T
  BY DEF Layout, WriteLayout, Target
<1>2. A \in Seq(Field) /\ Len(A) = 4
  BY FieldsAre DEF FieldNames, RustHeader
<1>3. /\ A[1] = Int("frame") /\ A[2] = Int("conversation")
      /\ A[3] = Str("channel_type") /\ A[4] = Int("max_packet_size")
  BY DEF RustHeader
<1>4. Plain(T) /\ Len(T) \in {0, 3}
  <2>1. CASE "family" \in DOMAIN m
    BY <2>1, TargetIs DEF Target
  <2>2. CASE "family" \notin DOMAIN m
    <3>1. T = <<>>
      BY <2>2 DEF Target
    <3>2. T \in Seq(Field) /\ Len(T) = 0
      BY <3>1
    <3>. QED
      BY <3>2 DEF Plain
  <2>. QED
    BY <2>1, <2>2
<1>5. T \in Seq(Field)
  BY <1>4 DEF Plain
<1>. HIDE DEF A, T, L
<1>6. /\ L \in Seq(Field) /\ Len(L) = 4 + Len(T)
      /\ \A i \in 1 .. 4 : L[i] = A[i]
      /\ \A i \in 1 .. Len(T) : L[4 + i] = T[i]
  <2>1. /\ L \in Seq(Field) /\ Len(L) = Len(A) + Len(T)
        /\ \A i \in 1 .. Len(A) : L[i] = A[i]
        /\ \A i \in 1 .. Len(T) : L[Len(A) + i] = T[i]
    BY <1>1, <1>2, <1>5, ConcatFields, Zenon
  <2>. QED
    BY <1>2, <2>1
<1>. QED
  BY <1>2, <1>3, <1>4, <1>5, <1>6 DEF A, T, L

\* What both kinds of layout have in common.
LEMMA LayoutShape ==
    ASSUME NEW m
    PROVE  LET L == Layout(m) IN
           /\ L \in Seq(Field)
           /\ Len(L) \in 1 .. 10
           /\ \A i \in 1 .. Len(L) : L[i] \in Field /\ L[i][1] \in Kinds
           /\ \A i \in 1 .. Len(L) : L[i][1] = "octets" => i > 1 /\ L[i - 1] = Family
<1>. DEFINE L == Layout(m)
<1>1. CASE "frame" \in DOMAIN m
  <2>. DEFINE T == Target(m)
  <2>1. /\ L \in Seq(Field) /\ Len(T) \in {0, 3} /\ Len(L) = 4 + Len(T)
        /\ L[1] = Int("frame") /\ L[2] = Int("conversation")
        /\ L[3] = Str("channel_type") /\ L[4] = Int("max_packet_size")
        /\ \A i \in 1 .. Len(T) : L[4 + i] = T[i]
        /\ Plain(T)
    BY <1>1, LayoutOfHeader
  <2>. HIDE DEF L, T
  <2>2. Len(L) \in 1 .. 10
    <3>1. Len(T) \in {0, 3} /\ Len(L) = 4 + Len(T)
      BY <2>1
    <3>2. \A x \in {0, 3} : 4 + x \in 1 .. 10
      OBVIOUS
    <3>. QED
      BY <3>1, <3>2, Zenon
  <2>3. ASSUME NEW i \in 1 .. Len(L), L[i][1] = "octets" PROVE i > 1 /\ L[i - 1] = Family
    <3>1. CASE i \in 1 .. 4
      <4>1. i = 1 \/ i = 2 \/ i = 3 \/ i = 4
        BY <3>1
      <4>. QED
        BY <2>1, <2>3, <4>1 DEF Int, Str
    <3>2. CASE i \notin 1 .. 4
      <4>1. i - 4 \in 1 .. Len(T) /\ 4 + (i - 4) = i /\ i > 1
        BY <2>1, <3>2
      <4>2. L[i] = T[i - 4]
        BY <2>1, <4>1
      <4>3. i - 4 > 1 /\ T[(i - 4) - 1] = Family
        BY <2>1, <2>3, <4>1, <4>2 DEF Plain
      <4>4. (i - 4) - 1 \in 1 .. Len(T) /\ 4 + ((i - 4) - 1) = i - 1
        BY <2>1, <4>1, <4>3
      <4>. QED
        BY <2>1, <4>1, <4>3, <4>4
    <3>. QED
      BY <3>1, <3>2
  <2>4. \A i \in 1 .. Len(L) : L[i] \in Field
    BY <2>1
  <2>5. \A i \in 1 .. Len(L) : L[i][1] \in Kinds
    BY <2>4 DEF Field
  <2>. QED
    BY <2>1, <2>2, <2>3, <2>4, <2>5 DEF L
<1>2. CASE "frame" \notin DOMAIN m
  <2>. DEFINE B == RustBody(m.type)
              R == RequestPart(m)
  <2>1. /\ L \in Seq(Field) /\ Len(B) \in 0 .. 3 /\ Len(R) \in 0 .. 6
        /\ Len(L) = (1 + Len(B)) + Len(R)
        /\ L[1] = Int("type")
        /\ \A i \in 1 .. Len(B) : L[1 + i] = B[i]
        /\ \A i \in 1 .. Len(R) : L[(1 + Len(B)) + i] = R[i]
        /\ Plain(R)
    BY <1>2, LayoutOfMessage
  <2>6. \A i \in 1 .. Len(B) : B[i][1] # "octets"
    BY BodyIs
  <2>. HIDE DEF L, B, R
  <2>2. Len(L) \in 1 .. 10
    <3>1. Len(B) \in 0 .. 3 /\ Len(R) \in 0 .. 6 /\ Len(L) = (1 + Len(B)) + Len(R)
      BY <2>1
    <3>2. \A b \in 0 .. 3, r \in 0 .. 6 : (1 + b) + r \in 1 .. 10
      OBVIOUS
    <3>. QED
      BY <3>1, <3>2, Zenon
  <2>3. ASSUME NEW i \in 1 .. Len(L), L[i][1] = "octets" PROVE i > 1 /\ L[i - 1] = Family
    <3>1. CASE i = 1
      BY <2>1, <2>3, <3>1 DEF Int
    <3>2. CASE i \in 2 .. 1 + Len(B)
      <4>1. i - 1 \in 1 .. Len(B) /\ 1 + (i - 1) = i
        BY <2>1, <3>2
      <4>. QED
        BY <2>1, <2>3, <2>6, <4>1
    <3>3. CASE i > 1 + Len(B)
      <4>. DEFINE h == i - (1 + Len(B))
      <4>1. h \in 1 .. Len(R) /\ (1 + Len(B)) + h = i /\ i > 1
        BY <2>1, <3>3
      <4>. HIDE DEF h
      <4>2. L[i] = R[h]
        BY <2>1, <4>1
      <4>3. h > 1 /\ R[h - 1] = Family
        BY <2>1, <2>3, <4>1, <4>2 DEF Plain
      <4>4. h - 1 \in 1 .. Len(R) /\ (1 + Len(B)) + (h - 1) = i - 1
        <5>1. Len(B) \in Nat /\ Len(R) \in Nat
          BY <2>1
        <5>. QED
          BY <4>1, <4>3, <5>1
      <4>. QED
        BY <2>1, <4>1, <4>3, <4>4
    <3>. QED
      BY <2>1, <3>1, <3>2, <3>3
  <2>4. \A i \in 1 .. Len(L) : L[i] \in Field
    BY <2>1
  <2>5. \A i \in 1 .. Len(L) : L[i][1] \in Kinds
    BY <2>4 DEF Field
  <2>. QED
    BY <2>1, <2>2, <2>3, <2>4, <2>5 DEF L
<1>. QED
  BY <1>1, <1>2

\* encode of the Rust types and Write of the Go ones put the same octets on a stream, for
\* every header and message but the forwarding request, of which Go has no sender.
THEOREM WritersAgree ==
    ASSUME NEW writer \in Impls, NEW m,
           "request" \in DOMAIN m /\ m.request = ForwardPort => writer = "rust"
    PROVE  Encode(writer, m) = Encode("rust", m)
<1>1. CASE writer = "rust"
  BY <1>1
<1>2. CASE writer = "go"
  <2>1. "request" \in DOMAIN m => GoRequest(m.request).write = RustRequest(m.request)
    BY <1>2, SameRequests
  <2>2. GoBody(m.type).write = RustBody(m.type)
    BY SameBodies
  <2>3. WriteLayout("go", m) = WriteLayout("rust", m)
    BY <2>1, <2>2, SameHeaders DEF WriteLayout
  <2>. QED
    BY <1>2, <2>3, Zenon DEF Encode
<1>. QED
  BY <1>1, <1>2 DEF Impls

-----------------------------------------------------------------------------
(* The octets of a message, field by field *)

\* The octets of field i.
Piece(m, i) == EncodeField(Layout(m)[i], m[Layout(m)[i][2]])

\* The function in Encode: the octets of the first i fields.
Bytes(m) ==
    CHOOSE g : g = [i \in 0 .. Len(Layout(m)) |->
                       IF i = 0 THEN <<>> ELSE g[i - 1] \o Piece(m, i)]

Octets(m) == Encode("rust", m)

\* Where field i ends.
Off(m, i) == Len(Bytes(m)[i])

\* The function in Encode, field by field.
LEMMA BytesUnfold ==
    ASSUME NEW m
    PROVE  /\ Octets(m) = Bytes(m)[Len(Layout(m))]
           /\ Bytes(m)[0] = <<>>
           /\ \A i \in 1 .. Len(Layout(m)) : Bytes(m)[i] = Bytes(m)[i - 1] \o Piece(m, i)
<1>. DEFINE n == Len(Layout(m))
            P(i) == Piece(m, i)
            Join(x, y) == x \o y
            F(g) == [i \in 0 .. n |-> IF i = 0 THEN <<>> ELSE Join(g[i - 1], P(i))]
            b == Bytes(m)
            b1 == Join(<<>>, P(1))
            b2 == Join(b1, P(2))
            b3 == Join(b2, P(3))
            b4 == Join(b3, P(4))
            b5 == Join(b4, P(5))
            b6 == Join(b5, P(6))
            b7 == Join(b6, P(7))
            b8 == Join(b7, P(8))
            b9 == Join(b8, P(9))
            b10 == Join(b9, P(10))
<1>1. n \in 1 .. 10
  BY LayoutShape
<1>2. Octets(m) = b[n]
  BY DEF Octets, Encode, Bytes, Piece, Layout
<1>3. \E g : g = F(g)
  <2>. HIDE DEF n, P, Join
  <2>. DEFINE d == [i \in 0 .. n |-> <<<<>>, b1, b2, b3, b4, b5, b6, b7, b8, b9, b10>>[i + 1]]
  <2>0. /\ b1 = Join(<<>>, P(1)) /\ b2 = Join(b1, P(2)) /\ b3 = Join(b2, P(3))
        /\ b4 = Join(b3, P(4)) /\ b5 = Join(b4, P(5)) /\ b6 = Join(b5, P(6))
        /\ b7 = Join(b6, P(7)) /\ b8 = Join(b7, P(8)) /\ b9 = Join(b8, P(9))
        /\ b10 = Join(b9, P(10))
    OBVIOUS
  <2>. HIDE DEF b1, b2, b3, b4, b5, b6, b7, b8, b9, b10
  <2>1. /\ d = [i \in 0 .. n |-> d[i]]
        /\ 0 \in 0 .. n => d[0] = <<>>
        /\ 1 \in 0 .. n => d[1] = b1
        /\ 2 \in 0 .. n => d[2] = b2
        /\ 3 \in 0 .. n => d[3] = b3
        /\ 4 \in 0 .. n => d[4] = b4
        /\ 5 \in 0 .. n => d[5] = b5
        /\ 6 \in 0 .. n => d[6] = b6
        /\ 7 \in 0 .. n => d[7] = b7
        /\ 8 \in 0 .. n => d[8] = b8
        /\ 9 \in 0 .. n => d[9] = b9
        /\ 10 \in 0 .. n => d[10] = b10
    OBVIOUS
  <2>. HIDE DEF d
  <2>2. ASSUME NEW i \in 0 .. n
        PROVE  d[i] = IF i = 0 THEN <<>> ELSE Join(d[i - 1], P(i))
    <3>1. \/ i = 0 \/ i = 1 \/ i = 2 \/ i = 3 \/ i = 4 \/ i = 5
          \/ i = 6 \/ i = 7 \/ i = 8 \/ i = 9 \/ i = 10
      BY <1>1
    <3>2. \A c \in 0 .. 10 : c <= i => c \in 0 .. n
      BY <1>1
    <3>3. CASE i = 0
      BY <2>1, <3>2, <3>3
    <3>4. CASE i = 1
      BY <2>0, <2>1, <3>2, <3>4
    <3>5. CASE i = 2
      BY <2>0, <2>1, <3>2, <3>5
    <3>6. CASE i = 3
      BY <2>0, <2>1, <3>2, <3>6
    <3>7. CASE i = 4
      BY <2>0, <2>1, <3>2, <3>7
    <3>8. CASE i = 5
      BY <2>0, <2>1, <3>2, <3>8
    <3>9. CASE i = 6
      BY <2>0, <2>1, <3>2, <3>9
    <3>10. CASE i = 7
      BY <2>0, <2>1, <3>2, <3>10
    <3>11. CASE i = 8
      BY <2>0, <2>1, <3>2, <3>11
    <3>12. CASE i = 9
      BY <2>0, <2>1, <3>2, <3>12
    <3>13. CASE i = 10
      BY <2>0, <2>1, <3>2, <3>13
    <3>. QED
      BY <3>1, <3>3, <3>4, <3>5, <3>6, <3>7, <3>8, <3>9, <3>10, <3>11, <3>12, <3>13
  <2>3. [i \in 0 .. n |-> d[i]] = F(d)
    BY <2>2
  <2>4. d = F(d)
    BY <2>1, <2>3, Zenon
  <2>. QED
    BY <2>4
<1>4. b = (CHOOSE g : g = F(g))
  BY DEF Bytes
<1>. HIDE DEF F, b
<1>5. b = F(b)
  BY <1>3, <1>4, Zenon
<1>6. b = [i \in 0 .. n |-> IF i = 0 THEN <<>> ELSE b[i - 1] \o P(i)]
  BY <1>5 DEF F
<1>. HIDE DEF n, P
<1>7. b[0] = <<>> /\ \A i \in 1 .. n : b[i] = b[i - 1] \o P(i)
  <2>1. 0 \in 0 .. n
    BY <1>1
  <2>2. b[0] = <<>>
    BY <1>6, <2>1
  <2>3. ASSUME NEW i \in 1 .. n PROVE b[i] = b[i - 1] \o P(i)
    <3>1. i \in 0 .. n /\ i # 0
      BY <1>1
    <3>. QED
      BY <1>6, <3>1
  <2>. QED
    BY <2>2, <2>3
<1>. QED
  BY <1>2, <1>7 DEF n, P, b

\* Whether x is the beginning of y.
Begins(x, y) == Len(x) <= Len(y) /\ \A c \in 1 .. Len(x) : y[c] = x[c]

\* The beginning of a beginning.
LEMMA BeginsTransitive ==
    ASSUME NEW x \in Seq(Nat), NEW y \in Seq(Nat), NEW z \in Seq(Nat),
           Begins(x, y), Begins(y, z)
    PROVE  Begins(x, z)
<1>1. Len(x) \in Nat /\ Len(y) \in Nat /\ Len(z) \in Nat
  OBVIOUS
<1>2. Len(x) <= Len(z)
  BY <1>1 DEF Begins
<1>3. ASSUME NEW c \in 1 .. Len(x) PROVE z[c] = x[c]
  <2>1. c \in 1 .. Len(y)
    BY <1>1 DEF Begins
  <2>. QED
    BY <2>1 DEF Begins
<1>. QED
  BY <1>2, <1>3 DEF Begins

\* The fields of a message are octets.
LEMMA PieceType ==
    ASSUME NEW m, WellFormed(m), NEW i \in 1 .. Len(Layout(m))
    PROVE  Piece(m, i) \in Seq(Nat) /\ HasKind(Layout(m)[i], m) /\ Layout(m)[i][1] \in Kinds
<1>. DEFINE f == Layout(m)[i]
            v == m[f[2]]
<1>1. HasKind(f, m) /\ f[1] \in Kinds
  <2>1. HasKind(f, m)
    BY DEF WellFormed, Layout
  <2>. QED
    BY <2>1, LayoutShape
<1>2. Piece(m, i) = EncodeField(f, v)
  BY DEF Piece
<1>3. EncodeField(f, v) \in Seq(Nat)
  <2>1. CASE f[1] \in {"int", "protocol", "family"}
    <3>1. IsVarInt(v)
      BY <1>1, <2>1 DEF HasKind
    <3>2. AppendVarInt(v) \in Seq(Nat)
      BY <3>1, VarIntBound, AppendVarIntType
    <3>. QED
      BY <2>1, <3>2 DEF EncodeField
  <2>2. CASE f[1] = "string"
    <3>1. v \in Seq(Nat) /\ IsVarInt(Len(v))
      BY <1>1, <2>2 DEF HasKind
    <3>2. AppendVarInt(Len(v)) \in Seq(Nat)
      BY <3>1, VarIntBound, AppendVarIntType
    <3>3. AppendSSHString(v) \in Seq(Nat)
      BY <3>1, <3>2, ConcatFacts DEF AppendSSHString
    <3>. QED
      BY <2>2, <3>3 DEF EncodeField
  <2>3. CASE f[1] = "bool"
    BY <2>3 DEF EncodeField
  <2>4. CASE f[1] \in {"octets", "port"}
    <3>1. v \in Seq(Nat)
      BY <1>1, <2>4 DEF HasKind
    <3>. QED
      BY <2>4, <3>1 DEF EncodeField
  <2>. QED
    BY <1>1, <2>1, <2>2, <2>3, <2>4 DEF Kinds
<1>. QED
  BY <1>1, <1>2, <1>3

\* Each field has its place in the octets of its message.
LEMMA PlaceOfField ==
    ASSUME NEW m, WellFormed(m)
    PROVE  /\ Octets(m) \in Seq(Nat)
           /\ Off(m, 0) = 0
           /\ Off(m, Len(Layout(m))) = Len(Octets(m))
           /\ \A i \in 0 .. Len(Layout(m)) : Off(m, i) \in Nat /\ Off(m, i) <= Len(Octets(m))
           /\ \A i \in 1 .. Len(Layout(m)) :
                 /\ Piece(m, i) \in Seq(Nat)
                 /\ Off(m, i) = Off(m, i - 1) + Len(Piece(m, i))
                 /\ \A x \in 1 .. Len(Piece(m, i)) :
                       Octets(m)[Off(m, i - 1) + x] = Piece(m, i)[x]
<1>. DEFINE n == Len(Layout(m))
            b == Bytes(m)
            P(i) == Piece(m, i)
<1>1. n \in 1 .. 10
  BY LayoutShape
<1>2. /\ Octets(m) = b[n]
      /\ b[0] = <<>>
      /\ \A i \in 1 .. n : b[i] = b[i - 1] \o P(i)
  BY BytesUnfold
<1>3. \A i \in 1 .. n : P(i) \in Seq(Nat)
  BY PieceType
<1>. HIDE DEF n, b, P
<1>4. \A i \in 1 .. n : b[i - 1] \in Seq(Nat) => b[i] \in Seq(Nat)
  <2>. SUFFICES ASSUME NEW i \in 1 .. n, b[i - 1] \in Seq(Nat) PROVE b[i] \in Seq(Nat)
    OBVIOUS
  <2>1. P(i) \in Seq(Nat) /\ b[i] = b[i - 1] \o P(i)
    BY <1>2, <1>3
  <2>. QED
    BY <2>1, ConcatFacts
<1>5. b[0] \in Seq(Nat)
  BY <1>2
<1>6. \A i \in 0 .. n : b[i] \in Seq(Nat)
  <2>. DEFINE T(i) == i <= n => b[i] \in Seq(Nat)
  <2>1. \A i \in 1 .. 10 : T(i - 1) => T(i)
    BY <1>1, <1>4
  <2>2. T(0)
    BY <1>5
  <2>. HIDE DEF T
  <2>3. T(1) /\ T(2) /\ T(3)
    BY <2>1, <2>2
  <2>4. T(4) /\ T(5) /\ T(6)
    BY <2>1, <2>3
  <2>5. T(7) /\ T(8) /\ T(9) /\ T(10)
    BY <2>1, <2>4
  <2>6. \A i \in 0 .. 10 : T(i)
    BY <2>2, <2>3, <2>4, <2>5
  <2>7. \A i \in 0 .. n : i \in 0 .. 10 /\ i <= n
    BY <1>1
  <2>. QED
    BY <2>6, <2>7 DEF T
<1>7. ASSUME NEW i \in 1 .. n
      PROVE  /\ Len(b[i]) = Len(b[i - 1]) + Len(P(i))
             /\ Begins(b[i - 1], b[i])
             /\ \A x \in 1 .. Len(P(i)) : b[i][Len(b[i - 1]) + x] = P(i)[x]
  <2>0. i - 1 \in 0 .. n
    BY <1>1
  <2>1. b[i - 1] \in Seq(Nat) /\ P(i) \in Seq(Nat) /\ b[i] = b[i - 1] \o P(i)
    BY <1>2, <1>3, <1>6, <2>0
  <2>. DEFINE u == b[i - 1]
              w == P(i)
              t == b[i]
  <2>2. u \in Seq(Nat) /\ w \in Seq(Nat) /\ t = u \o w
    BY <2>1
  <2>. HIDE DEF u, w, t
  <2>3. /\ Len(t) = Len(u) + Len(w)
        /\ Len(u) \in Nat /\ Len(w) \in Nat
        /\ \A x \in 1 .. Len(u) : t[x] = u[x]
        /\ \A x \in 1 .. Len(w) : t[Len(u) + x] = w[x]
    BY <2>2, ConcatFacts
  <2>4. Begins(u, t)
    BY <2>3 DEF Begins
  <2>. QED
    BY <2>3, <2>4 DEF u, w, t
<1>8. \A i \in 0 .. n : Begins(b[i], b[n])
  <2>. DEFINE T(c) == c <= n => Begins(b[n - c], b[n])
  <2>1. \A c \in 1 .. 10 : T(c - 1) => T(c)
    <3>. SUFFICES ASSUME NEW c \in 1 .. 10, T(c - 1), c <= n
                  PROVE  Begins(b[n - c], b[n])
      OBVIOUS
    <3>. DEFINE i == (n - c) + 1
    <3>1. /\ i \in 1 .. n /\ i - 1 = n - c /\ n - (c - 1) = i /\ c - 1 <= n
          /\ i \in 0 .. n /\ i - 1 \in 0 .. n /\ n \in 0 .. n
      BY <1>1
    <3>. HIDE DEF i
    <3>2. Begins(b[i], b[n])
      BY <3>1
    <3>3. Begins(b[i - 1], b[i])
      BY <1>7, <3>1
    <3>4. b[i - 1] \in Seq(Nat) /\ b[i] \in Seq(Nat) /\ b[n] \in Seq(Nat)
      BY <1>6, <3>1
    <3>. QED
      BY <3>1, <3>2, <3>3, <3>4, BeginsTransitive
  <2>2. T(0)
    <3>1. n - 0 = n /\ n \in 0 .. n
      BY <1>1
    <3>2. b[n] \in Seq(Nat)
      BY <1>6, <3>1
    <3>3. Begins(b[n], b[n])
      BY <3>2 DEF Begins
    <3>. QED
      BY <3>1, <3>3
  <2>. HIDE DEF T
  <2>3. T(1) /\ T(2) /\ T(3)
    BY <2>1, <2>2
  <2>4. T(4) /\ T(5) /\ T(6)
    BY <2>1, <2>3
  <2>5. T(7) /\ T(8) /\ T(9) /\ T(10)
    BY <2>1, <2>4
  <2>6. \A c \in 0 .. 10 : T(c)
    BY <2>2, <2>3, <2>4, <2>5
  <2>7. ASSUME NEW i \in 0 .. n PROVE Begins(b[i], b[n])
    <3>1. n - i \in 0 .. 10 /\ n - i <= n /\ n - (n - i) = i
      BY <1>1
    <3>. QED
      BY <2>6, <3>1 DEF T
  <2>. QED
    BY <2>7
<1>9. n \in 0 .. n /\ \A i \in 1 .. n : i - 1 \in 0 .. n /\ i \in 0 .. n
  BY <1>1
<1>10. b[n] \in Seq(Nat) /\ Len(b[0]) = 0
  BY <1>2, <1>6, <1>9
<1>11. \A i \in 0 .. n : Len(b[i]) \in Nat /\ Len(b[i]) <= Len(b[n])
  BY <1>6, <1>8 DEF Begins
<1>12. ASSUME NEW i \in 1 .. n, NEW x \in 1 .. Len(P(i))
       PROVE  b[n][Len(b[i - 1]) + x] = P(i)[x]
  <2>. DEFINE c == Len(b[i - 1]) + x
  <2>1. Len(b[i - 1]) \in Nat /\ Len(P(i)) \in Nat
    BY <1>3, <1>9, <1>11
  <2>2. c \in 1 .. Len(b[i])
    BY <1>7, <2>1
  <2>. HIDE DEF c
  <2>3. b[n][c] = b[i][c]
    BY <1>8, <1>9, <2>2 DEF Begins
  <2>4. b[i][c] = P(i)[x]
    BY <1>7 DEF c
  <2>. QED
    BY <2>3, <2>4 DEF c
<1>13. \A i \in 1 .. n : Len(b[i]) = Len(b[i - 1]) + Len(P(i))
  BY <1>7
<1>. QED
  BY <1>2, <1>3, <1>10, <1>11, <1>12, <1>13, Zenon DEF n, b, P, Off

-----------------------------------------------------------------------------
(* The reader inside a message *)

\* The first j fields of m.
Names(m, j) == {Layout(m)[i][2] : i \in 1 .. j}
Fields(m, j) == [x \in Names(m, j) |-> m[x]]

\* What a reader of either implementation goes on with is the rest of the layout.
LEMMA ContinuationIs ==
    ASSUME to \in Impls, NEW f, NEW v
    PROVE  /\ f = Int("type") /\ v \in KnownTypes => Continuation(f, v) = RustBody(v)
           /\ f = Bool("want_reply") /\ msg.request \in KnownRequests =>
                 Continuation(f, v) = RustRequest(msg.request)
           /\ f = Int("max_packet_size") /\ InHeader =>
                 Continuation(f, v) = IF msg.channel_type \in {DirectTcp, DirectUdp}
                                      THEN RustTarget ELSE <<>>
           /\ f = Int("max_packet_size") /\ ~InHeader => Continuation(f, v) = <<>>
           /\ f \notin {Int("type"), Bool("want_reply"), Int("max_packet_size")} =>
                 Continuation(f, v) = <<>>
<1>0. Int("type") # Bool("want_reply") /\ Int("type") # Int("max_packet_size")
      /\ Bool("want_reply") # Int("max_packet_size")
  BY DEF Int, Bool
<1>1. ASSUME f = Int("type"), v \in KnownTypes PROVE Continuation(f, v) = RustBody(v)
  <2>1. Continuation(f, v) = IF to = "rust" THEN RustReadMessage(v) ELSE GoBody(v).parse
    BY <1>0, <1>1 DEF Continuation
  <2>. QED
    BY <1>1, <2>1, SameBodies
<1>2. ASSUME f = Bool("want_reply"), msg.request \in KnownRequests
      PROVE  Continuation(f, v) = RustRequest(msg.request)
  <2>1. Continuation(f, v) = IF to = "rust" THEN RustReadRequest(msg.request)
                             ELSE GoRequest(msg.request).parse
    BY <1>0, <1>2 DEF Continuation
  <2>2. CASE to = "rust"
    BY <1>2, <2>1, <2>2, SameRequests DEF KnownRequests
  <2>3. CASE to # "rust"
    BY <1>2, <2>1, <2>3, SameRequests DEF KnownRequests
  <2>. QED
    BY <2>2, <2>3
<1>3. ASSUME f = Int("max_packet_size"), InHeader
      PROVE  Continuation(f, v) = IF msg.channel_type \in {DirectTcp, DirectUdp}
                                  THEN RustTarget ELSE <<>>
  <2>1. CASE msg.channel_type \in {DirectTcp, DirectUdp}
    <3>1. Continuation(f, v) = IF to = "rust" THEN RustReadTarget ELSE GoTarget.parse
      BY <1>0, <1>3, <2>1 DEF Continuation
    <3>. QED
      BY <2>1, <3>1, SameHeaders
  <2>2. CASE msg.channel_type \notin {DirectTcp, DirectUdp}
    BY <1>0, <1>3, <2>2 DEF Continuation
  <2>. QED
    BY <2>1, <2>2
<1>4. ASSUME f = Int("max_packet_size"), ~InHeader PROVE Continuation(f, v) = <<>>
  BY <1>0, <1>4 DEF Continuation
<1>5. ASSUME f \notin {Int("type"), Bool("want_reply"), Int("max_packet_size")}
      PROVE  Continuation(f, v) = <<>>
  BY <1>5 DEF Continuation
<1>. QED
  BY <1>1, <1>2, <1>3, <1>4, <1>5

\* The stages of a header.
LEMMA StageOfHeader ==
    ASSUME NEW m, "frame" \in DOMAIN m, NEW j \in 0 .. Len(Layout(m))
    PROVE  /\ Len(Layout(m)) \in Nat /\ Len(Layout(m)) >= 4
           /\ j < 4 => Stage(m, j) = 4
           /\ j >= 4 => Stage(m, j) = Len(Layout(m))
<1>. DEFINE n == Len(Layout(m))
            t == Len(Target(m))
<1>1. n = 4 + t /\ t \in {0, 3}
  BY LayoutOfHeader
<1>. HIDE DEF n, t
<1>2. First(m) = 4 /\ Second(m) = 4
  BY DEF First, Second
<1>3. Stage(m, j) = IF j < 4 THEN 4 ELSE IF j < 4 THEN 4 ELSE n
  BY <1>2 DEF Stage, n
<1>4. n \in Nat /\ n >= 4
  BY <1>1
<1>5. j \in 0 .. n
  BY DEF n
<1>. QED
  BY <1>3, <1>4, <1>5 DEF n

\* The stages of a message.
LEMMA StageOfMessage ==
    ASSUME NEW m, "frame" \notin DOMAIN m, NEW j \in 0 .. Len(Layout(m))
    PROVE  LET b == Len(RustBody(m.type))
           IN  /\ Len(Layout(m)) \in Nat /\ b \in Nat
               /\ Len(Layout(m)) >= 1 + b
               /\ j = 0 => Stage(m, j) = 1
               /\ j >= 1 /\ j < 1 + b => Stage(m, j) = 1 + b
               /\ j >= 1 + b => Stage(m, j) = Len(Layout(m))
<1>. DEFINE n == Len(Layout(m))
            b == Len(RustBody(m.type))
            r == Len(RequestPart(m))
<1>1. n = (1 + b) + r /\ b \in 0 .. 3 /\ r \in 0 .. 6
  BY LayoutOfMessage
<1>2. First(m) = 1 /\ Second(m) = 1 + b
  BY DEF First, Second
<1>. HIDE DEF n, b, r
<1>3. Stage(m, j) = IF j < 1 THEN 1 ELSE IF j < 1 + b THEN 1 + b ELSE n
  BY <1>2 DEF Stage, n
<1>4. n \in Nat /\ b \in Nat /\ n >= 1 + b
  BY <1>1
<1>5. j \in 0 .. n
  BY DEF n
<1>. QED
  BY <1>3, <1>4, <1>5 DEF n, b

\* There are fields to come, unless the message is complete.
LEMMA StageBounds ==
    ASSUME NEW m, NEW j \in 0 .. Len(Layout(m))
    PROVE  /\ Len(Layout(m)) \in Nat
           /\ Stage(m, j) \in Nat
           /\ j <= Stage(m, j) /\ Stage(m, j) <= Len(Layout(m))
           /\ j = Stage(m, j) => j = Len(Layout(m))
<1>1. CASE "frame" \in DOMAIN m
  BY <1>1, StageOfHeader
<1>2. CASE "frame" \notin DOMAIN m
  BY <1>2, StageOfMessage
<1>. QED
  BY <1>1, <1>2

\* What the reader takes for the rest of a layout when it has read one more field.
Continued(m, j, c) ==
    /\ c \in Seq(Field)
    /\ Len(c) = Stage(m, j + 1) - Stage(m, j)
    /\ \A i \in 1 .. Len(c) : c[i] = Layout(m)[Stage(m, j) + i]

\* A field that decides nothing adds no fields.
LEMMA NothingMore ==
    ASSUME NEW m, NEW j, Stage(m, j) \in Nat, Stage(m, j + 1) = Stage(m, j)
    PROVE  Continued(m, j, <<>>)
<1>1. <<>> \in Seq(Field) /\ Len(<<>>) = 0
  OBVIOUS
<1>2. Stage(m, j + 1) - Stage(m, j) = 0
  OBVIOUS
<1>. QED
  BY <1>1, <1>2 DEF Continued

\* A field of a header adds to the fields to come what the layout has next.
LEMMA HeaderContinues ==
    ASSUME to \in Impls, NEW m \in Headers, NEW j \in 0 .. Len(Layout(m)), j < Stage(m, j),
           msg = Fields(m, j)
    PROVE  Continued(m, j, Continuation(Layout(m)[j + 1], m[Layout(m)[j + 1][2]]))
<1>. DEFINE L == Layout(m)
            T == Target(m)
            f == L[j + 1]
            v == m[f[2]]
<1>1. /\ "frame" \in DOMAIN m
      /\ "family" \in DOMAIN m <=> m.channel_type \in {DirectTcp, DirectUdp}
  BY ReceiveAssumption DEF ReceiveAssumption
<1>2. /\ T \in Seq(Field) /\ Len(T) \in {0, 3} /\ Len(L) = 4 + Len(T)
      /\ L[1] = Int("frame") /\ L[2] = Int("conversation")
      /\ L[3] = Str("channel_type") /\ L[4] = Int("max_packet_size")
      /\ \A i \in 1 .. Len(T) : L[4 + i] = T[i]
      /\ Plain(T)
  BY <1>1, LayoutOfHeader
<1>3. Len(L) \in Nat /\ Len(L) >= 4 /\ j + 1 \in 0 .. Len(L)
  <2>1. Len(L) \in Nat /\ Len(L) >= 4
    BY <1>1, StageOfHeader
  <2>2. Stage(m, j) \in Nat /\ Stage(m, j) <= Len(L)
    BY StageBounds
  <2>. QED
    BY <2>1, <2>2
<1>4. /\ j < 4 => Stage(m, j) = 4
      /\ j >= 4 => Stage(m, j) = Len(L)
      /\ j + 1 < 4 => Stage(m, j + 1) = 4
      /\ j + 1 >= 4 => Stage(m, j + 1) = Len(L)
  BY <1>1, <1>3, StageOfHeader
<1>5. j \in Nat
  OBVIOUS
<1>6. CASE j = 3
  <2>1. f = Int("max_packet_size")
    BY <1>2, <1>6
  <2>2. 1 \in 1 .. j /\ 3 \in 1 .. j
    BY <1>6
  <2>3. L[1][2] = "frame" /\ L[3][2] = "channel_type"
    BY <1>2 DEF Int, Str
  <2>4. "frame" \in Names(m, j) /\ "channel_type" \in Names(m, j)
    BY <2>2, <2>3 DEF Names
  <2>5. "frame" \in DOMAIN msg /\ msg.channel_type = m.channel_type
    BY <2>4 DEF Fields
  <2>6. Continuation(f, v) = T
    <3>1. InHeader
      BY <2>5 DEF InHeader
    <3>2. Continuation(f, v) = IF msg.channel_type \in {DirectTcp, DirectUdp}
                               THEN RustTarget ELSE <<>>
      BY <2>1, <3>1, ContinuationIs
    <3>. QED
      BY <1>1, <2>5, <3>2 DEF Target
  <2>7. Stage(m, j) = 4 /\ Stage(m, j + 1) = Len(L)
    BY <1>4, <1>6
  <2>. HIDE DEF L, T
  <2>8. Len(T) = Len(L) - 4
    BY <1>2
  <2>9. Continued(m, j, T)
    BY <1>2, <2>7, <2>8 DEF Continued, L
  <2>. QED
    BY <2>6, <2>9 DEF L
<1>7. CASE j # 3
  <2>1. Stage(m, j + 1) = Stage(m, j) /\ Stage(m, j) \in Nat
    BY <1>3, <1>4, <1>5, <1>7
  <2>2. f \notin {Int("type"), Bool("want_reply"), Int("max_packet_size")}
    <3>1. CASE j < 3
      <4>1. j = 0 \/ j = 1 \/ j = 2
        BY <3>1
      <4>2. f \in {Int("frame"), Int("conversation"), Str("channel_type")}
        BY <1>2, <4>1
      <4>. QED
        BY <4>2 DEF Int, Str, Bool
    <3>2. CASE j > 3
      <4>1. (j + 1) - 4 \in 1 .. Len(T) /\ 4 + ((j + 1) - 4) = j + 1
        BY <1>2, <1>3, <3>2
      <4>2. f = T[(j + 1) - 4]
        BY <1>2, <4>1
      <4>. QED
        BY <1>2, <4>1, <4>2 DEF Plain
    <3>. QED
      BY <1>5, <1>7, <3>1, <3>2
  <2>3. Continuation(f, v) = <<>>
    BY <2>2, ContinuationIs
  <2>. QED
    BY <2>1, <2>3, NothingMore
<1>. QED
  BY <1>6, <1>7

\* The fields that were read are fields of the message.
LEMMA NamesInDomain ==
    ASSUME NEW m, WellFormed(m), NEW j \in 0 .. Len(Layout(m))
    PROVE  Names(m, j) \subseteq DOMAIN m
<1>1. DOMAIN m = {Layout(m)[i][2] : i \in 1 .. Len(Layout(m))}
  BY DEF WellFormed, Layout
<1>2. Len(Layout(m)) \in Nat
  BY LayoutShape
<1>3. \A i \in 1 .. j : i \in 1 .. Len(Layout(m))
  BY <1>2
<1>. QED
  BY <1>1, <1>3 DEF Names

\* So does a field of a message, if the reader knows the type and does not refuse the field.
LEMMA MessageContinues ==
    ASSUME to \in Impls, NEW m \in Inputs, NEW j \in 0 .. Len(Layout(m)), j < Stage(m, j),
           msg = Fields(m, j), todo # <<>>, todo[1] = Layout(m)[j + 1],
           ~Refused(todo[1]), todo[1] = Int("type") => m.type \in KnownTypes
    PROVE  Continued(m, j, Continuation(Layout(m)[j + 1], m[Layout(m)[j + 1][2]]))
<1>. DEFINE L == Layout(m)
            B == RustBody(m.type)
            R == RequestPart(m)
            f == L[j + 1]
            v == m[f[2]]
<1>1. /\ "frame" \notin DOMAIN m
      /\ "request" \in DOMAIN m <=> m.type = SSH_MSG_CHANNEL_REQUEST
      /\ WellFormed(m)
  BY ReceiveAssumption DEF ReceiveAssumption
<1>2. /\ B \in Seq(Field) /\ R \in Seq(Field)
      /\ Len(B) \in 0 .. 3 /\ Len(R) \in 0 .. 6 /\ Len(L) = (1 + Len(B)) + Len(R)
      /\ L[1] = Int("type")
      /\ \A i \in 1 .. Len(B) : L[1 + i] = B[i]
      /\ \A i \in 1 .. Len(R) : L[(1 + Len(B)) + i] = R[i]
      /\ Plain(R)
  BY <1>1, LayoutOfMessage
<1>3. /\ \A i \in 1 .. Len(B) : B[i] # Int("type")
      /\ \A i \in 1 .. Len(B) :
            B[i] = Bool("want_reply") => m.type = SSH_MSG_CHANNEL_REQUEST /\ i = 2
      /\ m.type = SSH_MSG_CHANNEL_REQUEST =>
            Len(B) = 2 /\ B[1] = Str("request") /\ B[2] = Bool("want_reply")
  BY BodyIs
<1>4. Len(L) \in Nat /\ Len(L) >= 1 + Len(B) /\ j + 1 \in 0 .. Len(L) /\ j + 1 \in 1 .. Len(L)
  <2>1. Len(L) \in Nat /\ Len(L) >= 1 + Len(B)
    BY <1>1, StageOfMessage
  <2>2. Stage(m, j) \in Nat /\ Stage(m, j) <= Len(L)
    BY StageBounds
  <2>. QED
    BY <2>1, <2>2
<1>5. /\ j = 0 => Stage(m, j) = 1
      /\ j >= 1 /\ j < 1 + Len(B) => Stage(m, j) = 1 + Len(B)
      /\ j >= 1 + Len(B) => Stage(m, j) = Len(L)
      /\ j + 1 >= 1 /\ j + 1 < 1 + Len(B) => Stage(m, j + 1) = 1 + Len(B)
      /\ j + 1 >= 1 + Len(B) => Stage(m, j + 1) = Len(L)
  BY <1>1, <1>4, StageOfMessage
<1>6. ~InHeader
  <2>1. "frame" \notin DOMAIN msg
    BY <1>1, NamesInDomain DEF Fields
  <2>2. f[2] \in DOMAIN m
    <3>1. DOMAIN m = {L[i][2] : i \in 1 .. Len(L)}
      BY <1>1 DEF WellFormed, Layout
    <3>. QED
      BY <1>4, <3>1
  <2>3. f # Int("frame")
    BY <1>1, <2>2 DEF Int
  <2>. QED
    BY <2>1, <2>3 DEF InHeader
<1>7. CASE j = 0
  <2>1. f = Int("type")
    BY <1>2, <1>7
  <2>2. v = m.type
    BY <2>1 DEF Int
  <2>3. Continuation(f, v) = B
    BY <2>1, <2>2, ContinuationIs
  <2>4. Stage(m, j) = 1 /\ Stage(m, j + 1) = 1 + Len(B)
    <3>1. Len(B) = 0 => Len(L) = 1
      <4>1. Len(B) = 0 => m.type # SSH_MSG_CHANNEL_REQUEST
        BY <1>3
      <4>2. m.type # SSH_MSG_CHANNEL_REQUEST => Len(R) = 0
        BY <1>1 DEF RequestPart
      <4>. QED
        BY <1>2, <4>1, <4>2
    <3>2. Len(B) \in Nat
      BY <1>2
    <3>3. CASE Len(B) = 0
      <4>1. j + 1 >= 1 + Len(B) /\ Len(L) = 1 + Len(B)
        BY <1>7, <3>1, <3>3
      <4>. QED
        BY <1>5, <1>7, <4>1
    <3>4. CASE Len(B) # 0
      <4>1. j + 1 >= 1 /\ j + 1 < 1 + Len(B)
        BY <1>7, <3>2, <3>4
      <4>. QED
        BY <1>5, <1>7, <4>1
    <3>. QED
      BY <3>3, <3>4
  <2>. HIDE DEF L, B
  <2>6. Len(B) = (1 + Len(B)) - 1
    BY <1>2
  <2>5. Continued(m, j, B)
    BY <1>2, <2>4, <2>6 DEF Continued, L
  <2>. QED
    BY <2>3, <2>5 DEF L
<1>8. CASE j >= 1 /\ f = Bool("want_reply")
  <2>1. m.type = SSH_MSG_CHANNEL_REQUEST /\ j = 2 /\ Len(B) = 2
    <3>1. CASE j < 1 + Len(B)
      <4>1. j \in 1 .. Len(B)
        BY <1>2, <1>8, <3>1
      <4>2. f = B[j]
        BY <1>2, <4>1
      <4>. QED
        BY <1>3, <1>8, <4>1, <4>2
    <3>2. CASE j >= 1 + Len(B)
      <4>. DEFINE h == (j + 1) - (1 + Len(B))
      <4>1. h \in 1 .. Len(R) /\ (1 + Len(B)) + h = j + 1
        BY <1>2, <1>4, <3>2
      <4>2. f = R[h]
        BY <1>2, <4>1
      <4>. QED
        BY <1>2, <1>8, <4>1, <4>2 DEF Plain
    <3>. QED
      BY <1>2, <3>1, <3>2
  <2>2. L[2] = Str("request")
    BY <1>2, <1>3, <2>1
  <2>3. L[2][2] = "request" /\ 2 \in 1 .. j
    BY <2>1, <2>2 DEF Str
  <2>4. "request" \in Names(m, j)
    BY <2>3 DEF Names
  <2>5. msg.request = m.request
    BY <2>4 DEF Fields
  <2>6. msg.request \in KnownRequests
    BY <1>8 DEF Refused
  <2>7. Continuation(f, v) = RustRequest(m.request)
    BY <1>8, <2>5, <2>6, ContinuationIs
  <2>8. R = RustRequest(m.request)
    BY <1>1, <2>1 DEF RequestPart
  <2>9. Stage(m, j) = 3 /\ Stage(m, j + 1) = Len(L) /\ Len(R) = Len(L) - 3
    BY <1>2, <1>5, <2>1
  <2>. HIDE DEF L, B, R
  <2>10. \A i \in 1 .. Len(R) : L[3 + i] = R[i]
    BY <1>2, <2>1
  <2>11. Continued(m, j, R)
    BY <1>2, <2>9, <2>10 DEF Continued, L
  <2>. QED
    BY <2>7, <2>8, <2>11 DEF L
<1>9. CASE j >= 1 /\ f # Bool("want_reply")
  <2>1. f # Int("type")
    <3>1. CASE j < 1 + Len(B)
      <4>1. j \in 1 .. Len(B)
        BY <1>2, <1>9, <3>1
      <4>2. f = B[j]
        BY <1>2, <4>1
      <4>. QED
        BY <1>3, <4>1, <4>2
    <3>2. CASE j >= 1 + Len(B)
      <4>. DEFINE h == (j + 1) - (1 + Len(B))
      <4>1. h \in 1 .. Len(R) /\ (1 + Len(B)) + h = j + 1
        BY <1>2, <1>4, <3>2
      <4>2. f = R[h]
        BY <1>2, <4>1
      <4>. QED
        BY <1>2, <4>1, <4>2 DEF Plain
    <3>. QED
      BY <1>2, <3>1, <3>2
  <2>2. Continuation(f, v) = <<>>
    BY <1>6, <1>9, <2>1, ContinuationIs
  <2>3. Stage(m, j + 1) = Stage(m, j) /\ Stage(m, j) \in Nat
    <3>1. Stage(m, j) \in Nat /\ Len(B) \in Nat /\ j \in Nat
      BY <1>2, StageBounds
    <3>2. CASE j + 1 < 1 + Len(B)
      BY <1>5, <1>9, <3>1, <3>2
    <3>3. CASE j >= 1 + Len(B)
      BY <1>5, <3>1, <3>3
    <3>4. CASE j = Len(B)
      <4>1. m.type # SSH_MSG_CHANNEL_REQUEST
        <5>1. j \in 1 .. Len(B)
          BY <1>9, <3>1, <3>4
        <5>2. f = B[j]
          BY <1>2, <5>1
        <5>. QED
          BY <1>3, <1>9, <3>4, <5>2
      <4>2. Len(R) = 0
        BY <1>1, <4>1 DEF RequestPart
      <4>3. Len(L) = 1 + Len(B)
        BY <1>2, <3>1, <4>2
      <4>. QED
        BY <1>5, <1>9, <3>1, <3>4, <4>3
    <3>. QED
      BY <3>1, <3>2, <3>3, <3>4
  <2>. QED
    BY <2>2, <2>3, NothingMore
<1>. QED
  BY <1>7, <1>8, <1>9

\* A reader at position p that has these fields of a message, and the rest to come, has
\* read j fields of message m, whose octets start behind the first s.
ReadingAt(p, fields, rest, m, s, j) ==
    /\ j \in 0 .. Len(Layout(m))
    /\ p = s + Off(m, j)
    /\ fields = Fields(m, j)
    /\ rest \in Seq(Field)
    /\ Len(rest) = Stage(m, j) - j
    /\ \A i \in 1 .. Len(rest) : rest[i] = Layout(m)[j + i]

\* The same of the reader of the channel.
Reading(m, s, j) == ReadingAt(pos, msg, todo, m, s, j)

\* The stream has the octets of m behind the first s, as far as it goes.
Placed(m, s) ==
    \A x \in 1 .. Len(Octets(m)) : s + x <= Len(wire) => wire[s + x] = Octets(m)[x]

\* Both kinds of message are well-formed.
LEMMA InputsWellFormed ==
    ASSUME NEW m \in Headers \cup Inputs
    PROVE  WellFormed(m)
BY ReceiveAssumption DEF ReceiveAssumption

\* The reader has no field to come only when it has them all.
LEMMA TodoEmpty ==
    ASSUME NEW m, NEW s, NEW j, Reading(m, s, j)
    PROVE  /\ todo = <<>> => j = Len(Layout(m))
           /\ todo # <<>> => j < Stage(m, j) /\ todo[1] = Layout(m)[j + 1]
                             /\ j + 1 \in 1 .. Len(Layout(m))
<1>1. /\ j \in 0 .. Len(Layout(m)) /\ todo \in Seq(Field)
      /\ Len(todo) = Stage(m, j) - j
  BY DEF Reading, ReadingAt
<1>2. /\ Len(Layout(m)) \in Nat /\ Stage(m, j) \in Nat
      /\ j <= Stage(m, j) /\ Stage(m, j) <= Len(Layout(m))
      /\ j = Stage(m, j) => j = Len(Layout(m))
  BY <1>1, StageBounds
<1>3. j \in Nat
  BY <1>1, <1>2
<1>4. ASSUME todo = <<>> PROVE j = Len(Layout(m))
  <2>1. Len(todo) = 0
    BY <1>4
  <2>. QED
    BY <1>1, <1>2, <1>3, <2>1
<1>5. ASSUME todo # <<>>
      PROVE  j < Stage(m, j) /\ todo[1] = Layout(m)[j + 1] /\ j + 1 \in 1 .. Len(Layout(m))
  <2>1. Len(todo) \in Nat /\ Len(todo) # 0
    BY <1>1, <1>5
  <2>2. 1 \in 1 .. Len(todo)
    BY <2>1
  <2>3. todo[1] = Layout(m)[j + 1]
    BY <2>2 DEF Reading, ReadingAt
  <2>. QED
    BY <1>1, <1>2, <1>3, <2>1, <2>3
<1>. QED
  BY <1>4, <1>5

\* The next field of the message is what the reader has next on the stream.
LEMMA AtField ==
    ASSUME wire \in Seq(Nat), NEW m \in Headers \cup Inputs, NEW s \in Nat, NEW j,
           Reading(m, s, j), Placed(m, s), pos <= Len(wire), todo # <<>>
    PROVE  /\ ReadBack(todo[1], m[todo[1][2]])
           /\ EncodeField(todo[1], m[todo[1][2]]) = Piece(m, j + 1)
           /\ s + Off(m, j + 1) = pos + Len(Piece(m, j + 1))
           /\ pos \in Nat /\ Len(Piece(m, j + 1)) \in Nat
<1>. DEFINE f == todo[1]
            v == m[f[2]]
            L == Layout(m)
            P == Piece(m, j + 1)
<1>1. j < Stage(m, j) /\ f = L[j + 1] /\ j + 1 \in 1 .. Len(L)
  BY TodoEmpty
<1>2. WellFormed(m)
  BY InputsWellFormed
<1>3. HasKind(f, m) /\ f[1] \in Kinds
  BY <1>1, <1>2, PieceType
<1>4. EncodeField(f, v) = P
  BY <1>1 DEF Piece
<1>5. j \in 0 .. Len(L) /\ (j + 1) - 1 = j /\ j \in Nat
  BY <1>1 DEF Reading, ReadingAt
<1>6. Off(m, j) \in Nat
  BY <1>2, <1>5, PlaceOfField, Zenon
<1>7. pos = s + Off(m, j) /\ pos \in Nat
  BY <1>6 DEF Reading, ReadingAt
<1>8. \A i \in 1 .. Len(L) :
         /\ Piece(m, i) \in Seq(Nat)
         /\ Off(m, i) = Off(m, i - 1) + Len(Piece(m, i))
         /\ \A x \in 1 .. Len(Piece(m, i)) :
               Octets(m)[Off(m, i - 1) + x] = Piece(m, i)[x]
  BY <1>2, PlaceOfField, Zenon
<1>9. P \in Seq(Nat) /\ Off(m, j + 1) = Off(m, j) + Len(P)
  BY <1>1, <1>5, <1>8
<1>10. \A x \in 1 .. Len(P) : Octets(m)[Off(m, j) + x] = P[x]
  BY <1>1, <1>5, <1>8
<1>11. Len(P) \in Nat /\ Octets(m) \in Seq(Nat) /\ Off(m, j + 1) <= Len(Octets(m))
  <2>1. j + 1 \in 0 .. Len(L)
    BY <1>1, <1>5
  <2>2. Off(m, j + 1) <= Len(Octets(m)) /\ Octets(m) \in Seq(Nat)
    BY <1>2, <2>1, PlaceOfField, Zenon
  <2>. QED
    BY <1>9, <2>2
<1>. HIDE DEF P
<1>12. Follows(P)
  <2>. SUFFICES ASSUME NEW x \in 1 .. Len(P), pos + x <= Len(wire)
                PROVE  wire[pos + x] = P[x]
    BY DEF Follows
  <2>1. Len(Octets(m)) \in Nat
    BY <1>11
  <2>4. \A o, p, l \in Nat : x \in 1 .. p /\ o + p <= l => o + x \in 1 .. l
    OBVIOUS
  <2>5. Off(m, j) + Len(P) <= Len(Octets(m))
    BY <1>9, <1>11
  <2>6. \A o \in Nat : (s + o) + x = s + (o + x)
    BY <1>11
  <2>2. Off(m, j) + x \in 1 .. Len(Octets(m)) /\ pos + x = s + (Off(m, j) + x)
    BY <1>6, <1>7, <1>11, <2>1, <2>4, <2>5, <2>6, Zenon
  <2>3. wire[s + (Off(m, j) + x)] = Octets(m)[Off(m, j) + x]
    BY <2>2 DEF Placed
  <2>. QED
    BY <1>10, <2>2, <2>3
<1>13. f[1] = "octets" => msg.family = m.family
  <2>. SUFFICES ASSUME f[1] = "octets" PROVE msg.family = m.family
    OBVIOUS
  <2>1. j + 1 > 1 /\ L[(j + 1) - 1] = Family
    BY <1>1, LayoutShape
  <2>2. j \in 1 .. j /\ L[j][2] = "family"
    BY <1>5, <2>1 DEF Family
  <2>3. "family" \in Names(m, j)
    BY <2>2 DEF Names
  <2>4. msg = Fields(m, j)
    BY DEF Reading, ReadingAt
  <2>. QED
    BY <2>3, <2>4 DEF Fields
<1>14. ReadBack(f, v)
  <2>1. Follows(EncodeField(f, m[f[2]]))
    BY <1>4, <1>12
  <2>. HIDE DEF f
  <2>. QED
    BY <1>3, <1>7, <1>13, <2>1, FieldReadBack
<1>15. s + Off(m, j + 1) = pos + Len(P)
  BY <1>6, <1>7, <1>9, <1>11
<1>. QED
  BY <1>4, <1>7, <1>11, <1>14, <1>15 DEF P

\* The whole of a field that is read is there.
LEMMA FieldIsThere ==
    ASSUME wire \in Seq(Nat), NEW m \in Headers \cup Inputs, NEW s \in Nat, NEW j,
           Reading(m, s, j), Placed(m, s), pos <= Len(wire), todo # <<>>,
           Complete(todo[1]), ~Refused(todo[1])
    PROVE  /\ FieldValue(todo[1]) = m[todo[1][2]]
           /\ FieldEnd(todo[1]) = s + Off(m, j + 1)
           /\ s + Off(m, j + 1) <= Len(wire)
           /\ todo[1] = Int("type") => VarInt = m.type
<1>. DEFINE f == todo[1]
            v == m[f[2]]
            P == Piece(m, j + 1)
<1>1. /\ ReadBack(f, v) /\ EncodeField(f, v) = P
      /\ s + Off(m, j + 1) = pos + Len(P)
      /\ pos \in Nat /\ Len(P) \in Nat
  BY AtField
<1>2. pos + Len(P) <= Len(wire)
  BY <1>1 DEF ReadBack
<1>3. FieldValue(f) = v /\ FieldEnd(f) = pos + Len(P)
  BY <1>1, <1>2 DEF ReadBack
<1>4. ASSUME f = Int("type") PROVE VarInt = m.type
  <2>1. f[1] = "int" /\ f[2] = "type"
    BY <1>4 DEF Int
  <2>2. FieldValue(f) = VarInt
    BY <2>1 DEF FieldValue
  <2>. QED
    BY <1>3, <2>1, <2>2
<1>. QED
  BY <1>1, <1>2, <1>3, <1>4

\* One more field has been read.
LEMMA AdvanceReads ==
    ASSUME wire \in Seq(Nat), to \in Impls,
           NEW m \in Headers \cup Inputs, NEW s \in Nat, NEW j,
           Reading(m, s, j), Placed(m, s), pos <= Len(wire), todo # <<>>,
           Complete(todo[1]), ~Refused(todo[1]),
           todo[1] = Int("type") => VarInt \in KnownTypes,
           Advance(todo[1], FieldValue(todo[1]), FieldEnd(todo[1]))
    PROVE  Reading(m, s, j + 1)' /\ pos' <= Len(wire)
<1>. DEFINE f == todo[1]
            v == m[f[2]]
            L == Layout(m)
            C == Continuation(f, v)
<1>1. /\ FieldValue(f) = v /\ FieldEnd(f) = s + Off(m, j + 1)
      /\ s + Off(m, j + 1) <= Len(wire)
      /\ f = Int("type") => VarInt = m.type
  BY FieldIsThere
<1>2. j < Stage(m, j) /\ f = L[j + 1] /\ j + 1 \in 1 .. Len(L)
  BY TodoEmpty
<1>3. /\ msg' = [x \in DOMAIN msg \cup {f[2]} |-> IF x = f[2] THEN v ELSE msg[x]]
      /\ todo' = Tail(todo) \o C
      /\ pos' = s + Off(m, j + 1)
  BY <1>1, Zenon DEF Advance
<1>4. j \in 0 .. Len(L) /\ msg = Fields(m, j) /\ todo \in Seq(Field)
      /\ Len(todo) = Stage(m, j) - j
  BY DEF Reading, ReadingAt
<1>5. Continued(m, j, C)
  <2>1. CASE m \in Headers
    BY <1>2, <1>4, <2>1, HeaderContinues
  <2>2. CASE m \in Inputs
    <3>1. f = Int("type") => m.type \in KnownTypes
      BY <1>1
    <3>. QED
      BY <1>2, <1>4, <2>2, <3>1, MessageContinues
  <2>. QED
    BY <2>1, <2>2
<1>6. msg' = Fields(m, j + 1)
  <2>1. \A i : i \in 1 .. j + 1 <=> i \in 1 .. j \/ i = j + 1
    BY <1>4
  <2>2. Names(m, j + 1) = Names(m, j) \cup {f[2]}
    BY <1>2, <2>1 DEF Names
  <2>3. DOMAIN msg = Names(m, j) /\ \A x \in Names(m, j) : msg[x] = m[x]
    BY <1>4 DEF Fields
  <2>4. \A x \in Names(m, j) \cup {f[2]} : (IF x = f[2] THEN v ELSE msg[x]) = m[x]
    BY <2>3
  <2>. HIDE DEF f
  <2>5. msg' = [x \in Names(m, j) \cup {f[2]} |-> IF x = f[2] THEN v ELSE msg[x]]
    BY <1>3, <2>3
  <2>6. msg' = [x \in Names(m, j) \cup {f[2]} |-> m[x]]
    BY <2>4, <2>5
  <2>. QED
    BY <2>2, <2>6 DEF Fields
<1>7. /\ todo' \in Seq(Field)
      /\ Len(todo') = Stage(m, j + 1) - (j + 1)
      /\ \A i \in 1 .. Len(todo') : todo'[i] = L[(j + 1) + i]
  <2>. DEFINE t == Tail(todo)
  <2>. HIDE DEF f, C, L
  <2>1. C \in Seq(Field) /\ Len(C) = Stage(m, j + 1) - Stage(m, j)
        /\ \A i \in 1 .. Len(C) : C[i] = L[Stage(m, j) + i]
    BY <1>5 DEF Continued, L
  <2>2. t \in Seq(Field) /\ Len(t) = Len(todo) - 1
        /\ \A i \in 1 .. Len(t) : t[i] = todo[i + 1]
    BY <1>4
  <2>. HIDE DEF t
  <2>3. /\ Stage(m, j) \in Nat /\ Stage(m, j + 1) \in Nat /\ j \in Nat
        /\ Len(t) \in Nat /\ Len(C) \in Nat /\ Len(todo) \in Nat
    <3>1. Stage(m, j) \in Nat
      BY <1>4, StageBounds DEF L
    <3>2. j + 1 \in 0 .. Len(Layout(m))
      BY <1>2 DEF L
    <3>3. Stage(m, j + 1) \in Nat
      BY <3>2, StageBounds
    <3>. QED
      BY <1>4, <2>1, <2>2, <3>1, <3>3
  <2>4. /\ t \o C \in Seq(Field)
        /\ Len(t \o C) = Len(t) + Len(C)
        /\ \A i \in 1 .. Len(t) : (t \o C)[i] = t[i]
        /\ \A i \in 1 .. Len(C) : (t \o C)[Len(t) + i] = C[i]
    BY <2>1, <2>2, ConcatFields
  <2>5. todo' = t \o C
    BY <1>3 DEF t
  <2>6. Len(t) = Stage(m, j) - j - 1
    BY <1>4, <2>2, <2>3
  <2>7. Len(todo') = Stage(m, j + 1) - (j + 1)
    BY <2>1, <2>3, <2>4, <2>5, <2>6
  <2>8. ASSUME NEW i \in 1 .. Len(todo') PROVE todo'[i] = L[(j + 1) + i]
    <3>1. CASE i <= Len(t)
      <4>1. i \in 1 .. Len(t) /\ i + 1 \in 1 .. Len(todo) /\ j + (i + 1) = (j + 1) + i
        BY <2>2, <2>3, <3>1
      <4>2. todo'[i] = todo[i + 1]
        BY <2>2, <2>4, <2>5, <4>1
      <4>3. todo[i + 1] = L[j + (i + 1)]
        BY <4>1 DEF Reading, ReadingAt, L
      <4>. QED
        BY <4>1, <4>2, <4>3
    <3>2. CASE i > Len(t)
      <4>. DEFINE h == i - Len(t)
      <4>3. \A a, c, g \in Nat : i \in 1 .. a + c /\ i > a /\ a = g - j - 1 =>
               i - a \in 1 .. c /\ a + (i - a) = i /\ g + (i - a) = (j + 1) + i
        BY <2>3
      <4>4. i \in 1 .. Len(t) + Len(C)
        BY <2>4, <2>5
      <4>1. h \in 1 .. Len(C) /\ Len(t) + h = i /\ Stage(m, j) + h = (j + 1) + i
        BY <2>3, <2>6, <3>2, <4>3, <4>4, Zenon
      <4>. HIDE DEF h
      <4>2. todo'[i] = C[h]
        BY <2>4, <2>5, <4>1
      <4>. QED
        BY <2>1, <4>1, <4>2
    <3>. QED
      BY <2>3, <3>1, <3>2
  <2>. QED
    BY <2>4, <2>5, <2>7, <2>8
<1>8. j + 1 \in 0 .. Len(L)
  BY <1>2, <1>4
<1>. QED
  BY <1>1, <1>3, <1>6, <1>7, <1>8 DEF Reading, ReadingAt

\* The reader in front of a message.
LEMMA StartsReading ==
    ASSUME NEW m, NEW s \in Nat, NEW rest,
           (m \in Headers /\ rest = RustHeader) \/ (m \in Inputs /\ rest = Message)
    PROVE  ReadingAt(s, NoFields, rest, m, s, 0)
<1>1. WellFormed(m)
  BY InputsWellFormed
<1>2. Off(m, 0) = 0
  BY <1>1, PlaceOfField, Zenon
<1>3. NoFields = Fields(m, 0)
  <2>1. Names(m, 0) = {}
    BY DEF Names
  <2>. QED
    BY <2>1 DEF Fields, NoFields
<1>4. Len(Layout(m)) \in Nat /\ 0 \in 0 .. Len(Layout(m))
  BY LayoutShape
<1>5. CASE m \in Headers /\ rest = RustHeader
  <2>1. "frame" \in DOMAIN m
    BY <1>5, ReceiveAssumption DEF ReceiveAssumption
  <2>2. /\ RustHeader \in Seq(Field) /\ Len(RustHeader) = 4
        /\ \A i \in 1 .. 4 : Layout(m)[i] = RustHeader[i]
    BY <2>1, LayoutOfHeader
  <2>3. Stage(m, 0) = 4
    BY <1>4, <2>1, StageOfHeader
  <2>4. \A i \in 1 .. 4 : 0 + i = i
    OBVIOUS
  <2>5. rest \in Seq(Field) /\ Len(rest) = 4
    BY <1>5, <2>2
  <2>6. ASSUME NEW i \in 1 .. Len(rest) PROVE rest[i] = Layout(m)[0 + i]
    <3>1. i \in 1 .. 4
      BY <2>5
    <3>2. 0 + i = i
      BY <2>4, <3>1
    <3>. QED
      BY <1>5, <2>2, <3>1, <3>2, Zenon
  <2>. QED
    BY <1>2, <1>3, <1>4, <2>3, <2>5, <2>6 DEF ReadingAt
<1>6. CASE m \in Inputs /\ rest = Message
  <2>1. "frame" \notin DOMAIN m
    BY <1>6, ReceiveAssumption DEF ReceiveAssumption
  <2>2. Layout(m)[1] = Int("type")
    BY <2>1, LayoutOfMessage
  <2>3. Stage(m, 0) = 1
    BY <1>4, <2>1, StageOfMessage
  <2>4. Message \in Seq(Field) /\ Len(Message) = 1 /\ Message[1] = Int("type")
    BY FieldsAre DEF Message, FieldNames
  <2>5. \A i \in 1 .. 1 : i = 1 /\ 0 + i = 1
    OBVIOUS
  <2>6. \A i \in 1 .. Len(rest) : rest[i] = Layout(m)[0 + i]
    BY <1>6, <2>2, <2>4, <2>5
  <2>. QED
    BY <1>2, <1>3, <1>4, <1>6, <2>3, <2>4, <2>6 DEF ReadingAt
<1>. QED
  BY <1>5, <1>6

\* The reader behind the last field: it has the message as it was written.
LEMMA MessageRead ==
    ASSUME NEW m \in Headers \cup Inputs, NEW s \in Nat, NEW j,
           Reading(m, s, j), todo = <<>>
    PROVE  /\ msg = m
           /\ pos = s + Len(Octets(m))
           /\ InHeader <=> "frame" \in DOMAIN m
<1>1. j = Len(Layout(m))
  BY TodoEmpty
<1>2. WellFormed(m)
  BY InputsWellFormed
<1>3. pos = s + Len(Octets(m))
  <2>1. Off(m, Len(Layout(m))) = Len(Octets(m))
    BY <1>2, PlaceOfField, Zenon
  <2>. QED
    BY <1>1, <2>1 DEF Reading, ReadingAt
<1>4. Names(m, j) = DOMAIN m
  BY <1>1, <1>2 DEF Names, WellFormed, Layout
<1>5. m = [x \in DOMAIN m |-> m[x]]
  BY <1>2 DEF WellFormed
<1>6. msg = m
  BY <1>4, <1>5, Zenon DEF Reading, ReadingAt, Fields
<1>7. InHeader <=> "frame" \in DOMAIN m
  BY <1>6 DEF InHeader
<1>. QED
  BY <1>3, <1>6, <1>7

-----------------------------------------------------------------------------
(* What the application should have: the function in Deliverable.  All its *)
(* solutions are looked at together, so that none of its values has to be  *)
(* computed by an induction.                                               *)

\* All that may be written.
Msgs == Headers \cup Inputs

\* Whether f is the function, for the messages s: f[i] is what is for the application of the
\* first i of them.
Upto(f, s) ==
    f = [i \in 0 .. Len(s) |->
            IF i = 0 THEN <<>>
            ELSE IF ForApplication(s[i]) THEN Append(f[i - 1], s[i])
            ELSE f[i - 1]]

\* There is such a function, and what it has for a part of s is the beginning of what it
\* has for s.
Chain(s) ==
    /\ \E f : Upto(f, s)
    /\ \A f : Upto(f, s) =>
          \A i \in 0 .. Len(s) : f[i] \in Seq(Msgs) /\ Begins(f[i], f[Len(s)])

\* The function, value by value.
LEMMA UptoUnfolds ==
    ASSUME NEW s \in Seq(Msgs), NEW f, Upto(f, s)
    PROVE  /\ f[0] = <<>>
           /\ \A i \in 1 .. Len(s) :
                 f[i] = IF ForApplication(s[i]) THEN Append(f[i - 1], s[i]) ELSE f[i - 1]
<1>0. Len(s) \in Nat
  OBVIOUS
<1>. DEFINE F == [i \in 0 .. Len(s) |->
                     IF i = 0 THEN <<>>
                     ELSE IF ForApplication(s[i]) THEN Append(f[i - 1], s[i])
                     ELSE f[i - 1]]
<1>1. f = F
  BY DEF Upto
<1>2. F[0] = <<>>
  BY <1>0
<1>3. ASSUME NEW i \in 1 .. Len(s)
      PROVE  F[i] = IF ForApplication(s[i]) THEN Append(f[i - 1], s[i]) ELSE f[i - 1]
  <2>1. i \in 0 .. Len(s) /\ i # 0
    BY <1>0
  <2>. QED
    BY <2>1
<1>. HIDE DEF F
<1>. QED
  BY <1>1, <1>2, <1>3

\* Nothing was written, and nothing is for the application.
LEMMA ChainEmpty == Chain(<<>>)
<1>1. <<>> \in Seq(Msgs) /\ Len(<<>>) = 0 /\ \A i \in 0 .. 0 : i = 0
  OBVIOUS
<1>2. Upto([i \in 0 .. 0 |-> <<>>], <<>>)
  BY <1>1 DEF Upto
<1>3. ASSUME NEW f, Upto(f, <<>>), NEW i \in 0 .. 0
      PROVE  f[i] \in Seq(Msgs) /\ Begins(f[i], f[0])
  <2>1. i = 0
    OBVIOUS
  <2>2. f[0] = <<>>
    BY <1>1, <1>3, UptoUnfolds
  <2>. QED
    BY <1>1, <2>1, <2>2 DEF Begins
<1>. QED
  BY <1>1, <1>2, <1>3 DEF Chain

\* Appending to a sequence.
LEMMA AppendFacts ==
    ASSUME NEW S, NEW s \in Seq(S), NEW m \in S
    PROVE  /\ Append(s, m) \in Seq(S)
           /\ Len(s) \in Nat
           /\ Len(Append(s, m)) = Len(s) + 1
           /\ \A i \in 1 .. Len(s) : Append(s, m)[i] = s[i]
           /\ Append(s, m)[Len(s) + 1] = m
OBVIOUS

\* What was a beginning stays one.
LEMMA BeginsAppend ==
    ASSUME NEW x \in Seq(Msgs), NEW y \in Seq(Msgs), NEW m \in Msgs, Begins(x, y)
    PROVE  Begins(x, Append(y, m))
<1>1. /\ Len(y) \in Nat /\ Len(Append(y, m)) = Len(y) + 1
      /\ \A i \in 1 .. Len(y) : Append(y, m)[i] = y[i]
  BY AppendFacts
<1>2. Len(x) \in Nat /\ Len(x) <= Len(y) /\ \A c \in 1 .. Len(x) : y[c] = x[c]
  BY DEF Begins
<1>3. \A c \in 1 .. Len(x) : c \in 1 .. Len(y)
  BY <1>1, <1>2
<1>. QED
  BY <1>1, <1>2, <1>3 DEF Begins

\* A solution for a longer stream is one for the shorter.
LEMMA UptoOfPart ==
    ASSUME NEW s \in Seq(Msgs), NEW m \in Msgs, NEW f, Upto(f, Append(s, m))
    PROVE  \E g : Upto(g, s) /\ \A i \in 0 .. Len(s) : g[i] = f[i]
<1>. DEFINE t == Append(s, m)
            g == [i \in 0 .. Len(s) |-> f[i]]
<1>1. /\ t \in Seq(Msgs) /\ Len(s) \in Nat /\ Len(t) = Len(s) + 1
      /\ \A i \in 1 .. Len(s) : t[i] = s[i]
  BY AppendFacts
<1>2. f[0] = <<>>
      /\ \A i \in 1 .. Len(t) :
            f[i] = IF ForApplication(t[i]) THEN Append(f[i - 1], t[i]) ELSE f[i - 1]
  BY <1>1, UptoUnfolds
<1>. HIDE DEF t
<1>3. ASSUME NEW i \in 0 .. Len(s)
      PROVE  g[i] = IF i = 0 THEN <<>>
                    ELSE IF ForApplication(s[i]) THEN Append(g[i - 1], s[i])
                    ELSE g[i - 1]
  <2>1. CASE i = 0
    BY <1>2, <2>1
  <2>2. CASE i # 0
    <3>1. i \in 1 .. Len(s) /\ i \in 1 .. Len(t) /\ i - 1 \in 0 .. Len(s)
      BY <1>1, <2>2
    <3>2. g[i] = f[i] /\ g[i - 1] = f[i - 1] /\ t[i] = s[i]
      BY <1>1, <3>1
    <3>3. f[i] = IF ForApplication(t[i]) THEN Append(f[i - 1], t[i]) ELSE f[i - 1]
      BY <1>2, <3>1
    <3>. HIDE DEF g
    <3>. QED
      BY <2>2, <3>2, <3>3
  <2>. QED
    BY <2>1, <2>2
<1>4. g = [i \in 0 .. Len(s) |-> g[i]] /\ \A i \in 0 .. Len(s) : g[i] = f[i]
  OBVIOUS
<1>. HIDE DEF g
<1>5. [i \in 0 .. Len(s) |-> g[i]] =
         [i \in 0 .. Len(s) |-> IF i = 0 THEN <<>>
                                ELSE IF ForApplication(s[i]) THEN Append(g[i - 1], s[i])
                                ELSE g[i - 1]]
  BY <1>3
<1>6. Upto(g, s)
  BY <1>4, <1>5, Zenon DEF Upto
<1>. QED
  BY <1>4, <1>6

\* Another message is written.
LEMMA ChainGrows ==
    ASSUME NEW s \in Seq(Msgs), NEW m \in Msgs, Chain(s)
    PROVE  Chain(Append(s, m))
<1>. DEFINE t == Append(s, m)
            n == Len(s)
<1>1. /\ t \in Seq(Msgs) /\ n \in Nat /\ Len(t) = n + 1
      /\ \A i \in 1 .. n : t[i] = s[i]
      /\ t[n + 1] = m
  BY AppendFacts
<1>2. \E f : Upto(f, t)
  <2>1. PICK f : Upto(f, s)
    BY DEF Chain
  <2>2. f[0] = <<>>
        /\ \A i \in 1 .. n :
              f[i] = IF ForApplication(s[i]) THEN Append(f[i - 1], s[i]) ELSE f[i - 1]
    BY <2>1, UptoUnfolds
  <2>. DEFINE final == IF ForApplication(m) THEN Append(f[n], m) ELSE f[n]
              g == [i \in 0 .. n + 1 |-> IF i = n + 1 THEN final ELSE f[i]]
  <2>. HIDE DEF t, n, final
  <2>3. ASSUME NEW i \in 0 .. n + 1
        PROVE  g[i] = IF i = 0 THEN <<>>
                      ELSE IF ForApplication(t[i]) THEN Append(g[i - 1], t[i])
                      ELSE g[i - 1]
    <3>1. CASE i = 0
      <4>1. i # n + 1
        BY <1>1, <3>1
      <4>. QED
        BY <2>2, <3>1, <4>1
    <3>2. CASE i \in 1 .. n
      <4>1. i # n + 1 /\ i - 1 # n + 1 /\ i - 1 \in 0 .. n + 1 /\ i # 0
        BY <1>1, <3>2
      <4>2. g[i] = f[i] /\ g[i - 1] = f[i - 1] /\ t[i] = s[i]
        BY <1>1, <3>2, <4>1
      <4>. HIDE DEF g
      <4>. QED
        BY <2>2, <3>2, <4>1, <4>2
    <3>3. CASE i = n + 1
      <4>1. i - 1 = n /\ n \in 0 .. n + 1 /\ n # n + 1 /\ i # 0
        BY <1>1, <3>3
      <4>2. g[i] = final /\ g[i - 1] = f[n] /\ t[i] = m
        BY <1>1, <3>3, <4>1
      <4>. HIDE DEF g
      <4>. QED
        BY <4>1, <4>2 DEF final
    <3>. QED
      BY <1>1, <3>1, <3>2, <3>3
  <2>4. g = [i \in 0 .. n + 1 |-> g[i]]
    OBVIOUS
  <2>. HIDE DEF g
  <2>5. [i \in 0 .. n + 1 |-> g[i]] =
           [i \in 0 .. n + 1 |-> IF i = 0 THEN <<>>
                                 ELSE IF ForApplication(t[i]) THEN Append(g[i - 1], t[i])
                                 ELSE g[i - 1]]
    BY <2>3
  <2>6. Upto(g, t)
    BY <1>1, <2>4, <2>5, Zenon DEF Upto
  <2>. QED
    BY <2>6
<1>3. ASSUME NEW f, Upto(f, t)
      PROVE  \A i \in 0 .. n + 1 : f[i] \in Seq(Msgs) /\ Begins(f[i], f[n + 1])
  <2>1. PICK g : Upto(g, s) /\ \A i \in 0 .. n : g[i] = f[i]
    BY <1>3, UptoOfPart
  <2>2. \A i \in 0 .. n : f[i] \in Seq(Msgs) /\ Begins(f[i], f[n])
    <3>1. \A i \in 0 .. n : g[i] \in Seq(Msgs) /\ Begins(g[i], g[n])
      BY <2>1 DEF Chain
    <3>2. n \in 0 .. n
      BY <1>1
    <3>. QED
      BY <2>1, <3>1, <3>2
  <2>3. f[n + 1] = f[n] \/ f[n + 1] = Append(f[n], m)
    <3>1. \A i \in 1 .. Len(t) :
             f[i] = IF ForApplication(t[i]) THEN Append(f[i - 1], t[i]) ELSE f[i - 1]
      BY <1>1, <1>3, UptoUnfolds
    <3>2. n + 1 \in 1 .. Len(t) /\ (n + 1) - 1 = n
      BY <1>1
    <3>. QED
      BY <1>1, <3>1, <3>2
  <2>. HIDE DEF t, n
  <2>4. n \in 0 .. n /\ f[n] \in Seq(Msgs)
    BY <1>1, <2>2
  <2>5. f[n + 1] \in Seq(Msgs)
    BY <2>3, <2>4, AppendFacts
  <2>6. \A i \in 0 .. n : Begins(f[i], f[n + 1])
    BY <2>2, <2>3, <2>4, BeginsAppend
  <2>7. Begins(f[n + 1], f[n + 1])
    BY <2>5 DEF Begins
  <2>8. \A i \in 0 .. n + 1 : i \in 0 .. n \/ i = n + 1
    BY <1>1
  <2>. QED
    BY <2>2, <2>5, <2>6, <2>7, <2>8
<1>. QED
  BY <1>1, <1>2, <1>3 DEF Chain

\* Deliverable is what such a function has for the whole stream.
LEMMA DeliverableIs ==
    ASSUME Chain(sent)
    PROVE  \E f : Upto(f, sent) /\ Deliverable = f[Len(sent)]
<1>. DEFINE f == CHOOSE g : Upto(g, sent)
<1>1. Upto(f, sent)
  <2>1. \E g : Upto(g, sent)
    BY DEF Chain
  <2>. QED
    BY <2>1, Zenon
<1>2. Deliverable = f[Len(sent)]
  BY DEF Deliverable, Upto
<1>. QED
  BY <1>1, <1>2

-----------------------------------------------------------------------------
(* The inductive invariant.  The stream is cut at the places st into the   *)
(* octets of messages ms; the reader is inside message k, or in front of   *)
(* it, and the application has what was for it of the messages before.     *)

\* What the variables are.
Types ==
    /\ from \in Impls /\ to \in Impls /\ opened \in {0, 1}
    /\ sent \in Seq(Msgs)
    /\ wire \in Seq(Nat)
    /\ misread \in {0, 1}

\* The stream has the octets of messages ms, message i behind the first st[i] octets: the
\* messages that were written in full and, if the writer stopped inside one, that one.
Stream(ms, st) ==
    /\ ms \in Seq(Msgs)
    /\ st \in [1 .. Len(ms) + 1 -> Nat]
    /\ Len(ms) \in {Len(sent), Len(sent) + 1}
    /\ \A i \in 1 .. Len(sent) : ms[i] = sent[i]
    /\ \A i \in 1 .. Len(ms) : ms[i] \in (IF opened = 0 /\ i = 1 THEN Headers ELSE Inputs)
    /\ \A i \in 1 .. Len(ms) : st[i + 1] = st[i] + Len(Octets(ms[i]))
    /\ \A i \in 1 .. Len(ms) : Placed(ms[i], st[i])
    /\ \A i \in 1 .. Len(sent) : st[i + 1] <= Len(wire)
    /\ Len(ms) = Len(sent) => st[Len(ms) + 1] = Len(wire)
    /\ Len(ms) > Len(sent) => end # "open" /\ Len(wire) < st[Len(ms) + 1]

\* The fields the reader starts message k with.
Expected(k) == IF opened = 0 /\ k = 1 THEN RustHeader ELSE Message

\* The reader has read j fields of message k.
AtReader(ms, st, k, j) ==
    /\ k \in 1 .. Len(ms) + 1
    /\ k <= Len(sent) + 1
    /\ state \in {"reading", "queued"} =>
          /\ pos <= Len(wire)
          /\ k <= Len(ms) => Reading(ms[k], st[k], j)
          /\ k > Len(ms) => pos = st[k] /\ msg = NoFields /\ todo = Expected(k)
    /\ state = "queued" => k <= Len(ms) /\ todo = <<>> /\ InHeader
    /\ state = "eof" => end # "open" /\ k = Len(sent) + 1

\* The application has what is for it of the messages in front of message k.
GotIs(k) == \A f : Upto(f, sent) => got = f[k - 1]

\* There are such places.
Where == \E ms, st, k, j : Stream(ms, st) /\ AtReader(ms, st, k, j) /\ GotIs(k)

\* A message of an unknown type was written.
UnknownSent ==
    \E i \in DOMAIN sent : "type" \in DOMAIN sent[i] /\ sent[i].type \notin KnownTypes

\* The inductive invariant.
IInv ==
    /\ Types
    /\ Chain(sent)
    /\ misread = 0 => Where
    /\ state = "panic" => misread = 1 \/ UnknownSent

\* A header has a frame type, and nothing else has one.
LEMMA DisjointInputs ==
    ASSUME NEW m
    PROVE  /\ m \in Headers => "frame" \in DOMAIN m
           /\ m \in Inputs => "frame" \notin DOMAIN m
BY ReceiveAssumption DEF ReceiveAssumption

\* A message is written as a sequence of octets.
LEMMA OctetsType ==
    ASSUME NEW m \in Msgs
    PROVE  Octets(m) \in Seq(Nat) /\ Len(Octets(m)) \in Nat
<1>1. WellFormed(m)
  BY InputsWellFormed DEF Msgs
<1>2. Octets(m) \in Seq(Nat)
  BY <1>1, PlaceOfField, Zenon
<1>. QED
  BY <1>2

\* The starts of the messages when m is written behind the others.
Starts(ms, st, m) ==
    [i \in 1 .. Len(ms) + 2 |-> IF i <= Len(ms) + 1 THEN st[i]
                                ELSE st[Len(ms) + 1] + Len(Octets(m))]

\* More of the stream: the octets of m, or the first of them.
LEMMA StreamGrows ==
    ASSUME Types, NEW ms, NEW st, Stream(ms, st), NEW m \in Msgs, MaySend(m),
           NEW e \in Seq(Nat), Begins(e, Octets(m)), wire' = wire \o e, opened' = opened,
           \/ sent' = Append(sent, m) /\ e = Octets(m)
           \/ sent' = sent /\ end' = "fin" /\ Len(e) < Len(Octets(m))
    PROVE  /\ Stream(Append(ms, m), Starts(ms, st, m))'
           /\ Len(ms) = Len(sent)
<1>. DEFINE ns == Append(ms, m)
            nt == Starts(ms, st, m)
            n == Len(ms)
            o == Len(Octets(m))
<1>1. ms \in Seq(Msgs) /\ sent \in Seq(Msgs) /\ wire \in Seq(Nat) /\ end = "open"
  BY DEF Stream, Types, MaySend
<1>2. n \in Nat /\ Len(sent) \in Nat /\ Len(wire) \in Nat /\ o \in Nat /\ Len(e) \in Nat
  BY <1>1, OctetsType
<1>3. n = Len(sent)
  BY <1>1, <1>2 DEF Stream
<1>4. /\ ns \in Seq(Msgs) /\ Len(ns) = n + 1
      /\ \A i \in 1 .. n : ns[i] = ms[i]
      /\ ns[n + 1] = m
  BY <1>1, AppendFacts
<1>5. st \in [1 .. n + 1 -> Nat] /\ st[n + 1] = Len(wire)
  BY <1>3 DEF Stream
<1>6. nt = [i \in 1 .. n + 2 |-> IF i <= n + 1 THEN st[i] ELSE Len(wire) + o]
  BY <1>5, Zenon DEF Starts
<1>7. /\ Len(wire') = Len(wire) + Len(e)
      /\ \A i \in 1 .. Len(wire) : wire'[i] = wire[i]
      /\ \A i \in 1 .. Len(e) : wire'[Len(wire) + i] = e[i]
  BY <1>1, ConcatFacts
<1>8. Len(e) <= o /\ \A c \in 1 .. Len(e) : Octets(m)[c] = e[c]
  BY DEF Begins
<1>. HIDE DEF ns, nt, n, o
<1>9. /\ \A i \in 1 .. n + 1 : nt[i] = st[i] /\ st[i] \in Nat
      /\ nt[n + 2] = Len(wire) + o
  <2>1. ASSUME NEW i \in 1 .. n + 1 PROVE nt[i] = st[i] /\ st[i] \in Nat
    <3>1. i \in 1 .. n + 2 /\ i <= n + 1
      BY <1>2
    <3>. QED
      BY <1>5, <1>6, <3>1
  <2>2. n + 2 \in 1 .. n + 2 /\ ~(n + 2 <= n + 1)
    BY <1>2
  <2>3. nt[n + 2] = Len(wire) + o
    BY <1>6, <2>2
  <2>. QED
    BY <2>1, <2>3
<1>10. nt \in [1 .. Len(ns) + 1 -> Nat]
  <2>1. Len(ns) + 1 = n + 2 /\ Len(wire) + o \in Nat
    BY <1>2, <1>4
  <2>2. \A i \in 1 .. n + 2 : i <= n + 1 => i \in 1 .. n + 1
    BY <1>2
  <2>3. \A i \in 1 .. n + 2 : (IF i <= n + 1 THEN st[i] ELSE Len(wire) + o) \in Nat
    BY <1>9, <2>1, <2>2
  <2>. QED
    BY <1>6, <2>1, <2>3
<1>11. \A i \in 1 .. Len(ns) : ns[i] \in (IF opened = 0 /\ i = 1 THEN Headers ELSE Inputs)
  <2>1. \A i \in 1 .. Len(ns) : i \in 1 .. n \/ i = n + 1
    BY <1>2, <1>4
  <2>2. \A i \in 1 .. n : ns[i] \in (IF opened = 0 /\ i = 1 THEN Headers ELSE Inputs)
    BY <1>4 DEF Stream, n
  <2>3. m \in IF opened = 0 /\ sent = <<>> THEN Headers ELSE Inputs
    BY DEF MaySend
  <2>4. sent = <<>> <=> n + 1 = 1
    BY <1>1, <1>2, <1>3
  <2>5. m \in (IF opened = 0 /\ n + 1 = 1 THEN Headers ELSE Inputs)
    BY <2>3, <2>4
  <2>. QED
    BY <1>4, <2>1, <2>2, <2>5
<1>12. \A i \in 1 .. Len(ns) : nt[i + 1] = nt[i] + Len(Octets(ns[i]))
  <2>1. ASSUME NEW i \in 1 .. n PROVE nt[i + 1] = nt[i] + Len(Octets(ns[i]))
    <3>1. i \in 1 .. n + 1 /\ i + 1 \in 1 .. n + 1
      BY <1>2
    <3>2. st[i + 1] = st[i] + Len(Octets(ms[i]))
      BY DEF Stream, n
    <3>. QED
      BY <1>4, <1>9, <3>1, <3>2
  <2>2. n + 1 \in 1 .. n + 1 /\ (n + 1) + 1 = n + 2
    BY <1>2
  <2>3. nt[(n + 1) + 1] = nt[n + 1] + Len(Octets(ns[n + 1]))
    BY <1>4, <1>5, <1>9, <2>2 DEF o
  <2>4. \A i \in 1 .. Len(ns) : i \in 1 .. n \/ i = n + 1
    BY <1>2, <1>4
  <2>. QED
    BY <2>1, <2>3, <2>4
<1>13. \A i \in 1 .. n : st[i + 1] <= Len(wire)
  BY <1>3 DEF Stream
<1>14. ASSUME NEW i \in 1 .. Len(ns) PROVE Placed(ns[i], nt[i])'
  <2>1. CASE i \in 1 .. n
    <3>1. i \in 1 .. n + 1 /\ ns[i] = ms[i] /\ nt[i] = st[i] /\ st[i] \in Nat
      BY <1>2, <1>4, <1>9, <2>1
    <3>2. st[i + 1] = st[i] + Len(Octets(ms[i])) /\ st[i + 1] <= Len(wire)
      BY <1>13, <2>1 DEF Stream, n
    <3>3. Placed(ms[i], st[i])
      BY <2>1 DEF Stream, n
    <3>4. Len(Octets(ms[i])) \in Nat
      <4>1. ms[i] \in Msgs
        BY <1>1, <2>1 DEF n
      <4>. QED
        BY <4>1, OctetsType
    <3>5. ASSUME NEW x \in 1 .. Len(Octets(ms[i]))
          PROVE  wire'[st[i] + x] = Octets(ms[i])[x]
      <4>1. st[i] + x \in 1 .. Len(wire) /\ st[i] + x <= Len(wire)
        BY <1>2, <3>1, <3>2, <3>4
      <4>2. wire'[st[i] + x] = wire[st[i] + x]
        BY <1>7, <4>1
      <4>. QED
        BY <3>3, <4>1, <4>2 DEF Placed
    <3>. QED
      BY <3>1, <3>5 DEF Placed
  <2>2. CASE i = n + 1
    <3>1. n + 1 \in 1 .. n + 1
      BY <1>2
    <3>2. ns[i] = m /\ nt[i] = Len(wire)
      BY <1>4, <1>5, <1>9, <2>2, <3>1
    <3>3. ASSUME NEW x \in 1 .. o, Len(wire) + x <= Len(wire')
          PROVE  wire'[Len(wire) + x] = Octets(m)[x]
      <4>1. x \in 1 .. Len(e)
        BY <1>2, <1>7, <3>3
      <4>. QED
        BY <1>7, <1>8, <4>1
    <3>. QED
      BY <3>2, <3>3 DEF Placed, o
  <2>. QED
    BY <1>2, <1>4, <2>1, <2>2
<1>15. CASE sent' = Append(sent, m) /\ e = Octets(m)
  <2>1. /\ Len(sent') = n + 1
        /\ \A i \in 1 .. n : sent'[i] = sent[i]
        /\ sent'[n + 1] = m
    BY <1>1, <1>3, <1>15, AppendFacts
  <2>2. \A i \in 1 .. n + 1 : i \in 1 .. n \/ i = n + 1
    BY <1>2
  <2>3. \A i \in 1 .. n : ns[i] = sent[i]
    BY <1>3, <1>4 DEF Stream
  <2>4. \A i \in 1 .. Len(sent') : ns[i] = sent'[i]
    BY <1>4, <2>1, <2>2, <2>3
  <2>5. Len(wire') = Len(wire) + o
    BY <1>7, <1>15 DEF o
  <2>6. ASSUME NEW i \in 1 .. Len(sent') PROVE nt[i + 1] <= Len(wire')
    <3>1. CASE i \in 1 .. n
      <4>1. i + 1 \in 1 .. n + 1
        BY <1>2, <3>1
      <4>2. nt[i + 1] = st[i + 1] /\ st[i + 1] \in Nat /\ st[i + 1] <= Len(wire)
        BY <1>9, <1>13, <3>1, <4>1
      <4>. QED
        BY <1>2, <2>5, <4>2
    <3>2. CASE i = n + 1
      <4>1. i + 1 = n + 2
        BY <1>2, <3>2
      <4>2. nt[i + 1] = Len(wire')
        BY <1>9, <2>5, <4>1
      <4>3. Len(wire') \in Nat
        BY <1>2, <2>5
      <4>. QED
        BY <4>2, <4>3
    <3>. QED
      BY <2>1, <2>2, <3>1, <3>2
  <2>7. nt[Len(ns) + 1] = Len(wire')
    <3>1. Len(ns) + 1 = n + 2
      BY <1>2, <1>4
    <3>. QED
      BY <1>9, <2>5, <3>1
  <2>8. Len(ns) = Len(sent') /\ ~(Len(ns) > Len(sent'))
    BY <1>2, <1>4, <2>1
  <2>. QED
    BY <1>3, <1>4, <1>10, <1>11, <1>12, <1>14, <2>4, <2>6, <2>7, <2>8 DEF Stream, ns, nt, n
<1>16. CASE sent' = sent /\ end' = "fin" /\ Len(e) < o
  <2>1. Len(ns) = Len(sent') + 1 /\ Len(ns) # Len(sent') /\ Len(sent') = n
    BY <1>2, <1>3, <1>4, <1>16
  <2>2. \A i \in 1 .. Len(sent') : ns[i] = sent'[i]
    BY <1>3, <1>4, <1>16 DEF Stream
  <2>3. ASSUME NEW i \in 1 .. Len(sent') PROVE nt[i + 1] <= Len(wire')
    <3>1. i \in 1 .. n /\ i + 1 \in 1 .. n + 1
      BY <1>2, <2>1
    <3>2. nt[i + 1] = st[i + 1] /\ st[i + 1] \in Nat /\ st[i + 1] <= Len(wire)
      BY <1>9, <1>13, <3>1
    <3>. QED
      BY <1>2, <1>7, <3>2
  <2>4. Len(wire') < nt[Len(ns) + 1]
    <3>1. Len(ns) + 1 = n + 2
      BY <1>2, <1>4
    <3>. QED
      BY <1>2, <1>7, <1>9, <1>16, <3>1
  <2>5. end' # "open"
    BY <1>16
  <2>. QED
    BY <1>3, <1>4, <1>10, <1>11, <1>12, <1>14, <2>1, <2>2, <2>3, <2>4, <2>5
       DEF Stream, ns, nt, n
<1>. QED
  BY <1>15, <1>16 DEF o

-----------------------------------------------------------------------------
(* The steps of the writer *)

\* What is for the application of the messages in front of message k does not change when
\* another is written.
LEMMA GotStays ==
    ASSUME sent \in Seq(Msgs), NEW k \in 1 .. Len(sent) + 1, GotIs(k),
           NEW m \in Msgs, sent' = Append(sent, m), got' = got
    PROVE  GotIs(k)'
<1>. SUFFICES ASSUME NEW f, Upto(f, Append(sent, m)) PROVE got = f[k - 1]
  BY DEF GotIs, Upto
<1>1. PICK g : Upto(g, sent) /\ \A i \in 0 .. Len(sent) : g[i] = f[i]
  BY UptoOfPart
<1>2. got = g[k - 1]
  BY <1>1 DEF GotIs
<1>3. k - 1 \in 0 .. Len(sent)
  OBVIOUS
<1>. QED
  BY <1>1, <1>2, <1>3

\* The writer puts a message, or the beginning of one, behind the octets that are there: the
\* reader stays where it is.
LEMMA WriterStep ==
    ASSUME Types, Chain(sent), NEW ms, NEW st, NEW k, NEW j,
           Stream(ms, st), AtReader(ms, st, k, j), GotIs(k),
           NEW m \in Msgs, MaySend(m),
           NEW e \in Seq(Nat), Begins(e, Octets(m)), wire' = wire \o e,
           \/ sent' = Append(sent, m) /\ e = Octets(m)
           \/ sent' = sent /\ end' = "fin" /\ Len(e) < Len(Octets(m)),
           UNCHANGED <<ends, pos, todo, msg, got, state>>
    PROVE  Where'
<1>. DEFINE ns == Append(ms, m)
            nt == Starts(ms, st, m)
            i == IF k <= Len(ms) THEN j ELSE 0
<1>0. opened' = opened /\ UNCHANGED <<pos, todo, msg, got, state>>
  BY DEF ends
<1>1. Stream(ns, nt)' /\ Len(ms) = Len(sent)
  BY <1>0, StreamGrows
<1>2. /\ ms \in Seq(Msgs) /\ st \in [1 .. Len(ms) + 1 -> Nat]
      /\ sent \in Seq(Msgs) /\ wire \in Seq(Nat)
      /\ Len(ms) = Len(sent) => st[Len(ms) + 1] = Len(wire)
  BY DEF Stream, Types
<1>3. Len(ms) \in Nat /\ Len(sent) \in Nat /\ Len(wire) \in Nat /\ Len(e) \in Nat
  BY <1>2
<1>4. k \in 1 .. Len(ms) + 1 /\ k \in Nat
  BY <1>3 DEF AtReader
<1>5. Len(ns) = Len(ms) + 1 /\ (\A c \in 1 .. Len(ms) : ns[c] = ms[c]) /\ ns[Len(ms) + 1] = m
  BY <1>2, AppendFacts
<1>6. nt[k] = st[k] /\ st[k] \in Nat
  <2>1. k \in 1 .. Len(ms) + 2 /\ k <= Len(ms) + 1
    BY <1>3, <1>4
  <2>. QED
    BY <1>2, <1>4, <2>1 DEF Starts
<1>7. Len(wire') = Len(wire) + Len(e)
  BY <1>2, ConcatFacts
<1>8. Len(sent') \in Nat /\ Len(sent) <= Len(sent')
  BY <1>2, <1>3, AppendFacts
<1>. HIDE DEF ns, nt
<1>9. k \in 1 .. Len(ns) + 1 /\ k <= Len(ns) /\ k <= Len(sent') + 1
  BY <1>1, <1>3, <1>4, <1>5, <1>8
<1>10. state # "eof"
  BY DEF AtReader, MaySend
<1>11. ASSUME state \in {"reading", "queued"}
       PROVE  pos' <= Len(wire') /\ Reading(ns[k], nt[k], i)'
  <2>1. pos <= Len(wire)
    BY <1>11 DEF AtReader
  <2>2. CASE k <= Len(ms)
    <3>1. Reading(ms[k], st[k], j)
      BY <1>11, <2>2 DEF AtReader
    <3>2. ns[k] = ms[k] /\ i = j
      BY <1>4, <1>5, <2>2
    <3>3. Reading(ns[k], nt[k], i)'
      BY <1>0, <1>6, <3>1, <3>2 DEF Reading
    <3>4. pos \in Nat
      <4>1. j \in 0 .. Len(Layout(ms[k])) /\ pos = st[k] + Off(ms[k], j)
        BY <3>1 DEF Reading, ReadingAt
      <4>2. ms[k] \in Msgs
        BY <1>2, <1>4, <2>2
      <4>3. WellFormed(ms[k])
        BY <4>2, InputsWellFormed DEF Msgs
      <4>4. Off(ms[k], j) \in Nat
        BY <4>1, <4>3, PlaceOfField, Zenon
      <4>. QED
        BY <1>6, <4>1, <4>4
    <3>. QED
      BY <1>0, <1>3, <1>7, <2>1, <3>3, <3>4
  <2>3. CASE k > Len(ms)
    <3>1. k = Len(ms) + 1 /\ i = 0
      BY <1>3, <1>4, <2>3
    <3>2. pos = st[k] /\ msg = NoFields /\ todo = Expected(k)
      BY <1>11, <2>3 DEF AtReader
    <3>3. m \in IF opened = 0 /\ sent = <<>> THEN Headers ELSE Inputs
      BY DEF MaySend
    <3>4. sent = <<>> <=> k = 1
      BY <1>1, <1>2, <1>3, <3>1
    <3>5. (m \in Headers /\ todo = RustHeader) \/ (m \in Inputs /\ todo = Message)
      BY <3>2, <3>3, <3>4 DEF Expected
    <3>6. ReadingAt(st[k], NoFields, todo, m, st[k], 0)
      BY <1>6, <3>5, StartsReading
    <3>7. Reading(ns[k], nt[k], i)'
      BY <1>0, <1>5, <1>6, <3>1, <3>2, <3>6 DEF Reading
    <3>. QED
      BY <1>0, <1>3, <1>6, <1>7, <2>1, <3>2, <3>7
  <2>. QED
    BY <1>3, <1>4, <2>2, <2>3
<1>12. ASSUME state = "queued" PROVE todo' = <<>> /\ InHeader'
  BY <1>0, <1>12 DEF AtReader, InHeader
<1>13. ~(k > Len(ns))
  BY <1>3, <1>4, <1>5, <1>9
<1>. HIDE DEF i
<1>14. AtReader(ns, nt, k, i)'
  BY <1>0, <1>9, <1>10, <1>11, <1>12, <1>13 DEF AtReader
<1>15. GotIs(k)'
  <2>1. CASE sent' = Append(sent, m)
    <3>1. k \in 1 .. Len(sent) + 1
      BY <1>1, <1>4
    <3>. QED
      BY <1>0, <1>2, <2>1, <3>1, GotStays
  <2>2. CASE sent' = sent
    BY <1>0, <2>2 DEF GotIs
  <2>. QED
    BY <2>1, <2>2
<1>. QED
  BY <1>1, <1>14, <1>15 DEF Where

\* A message is written in full.
LEMMA SendStep ==
    ASSUME IInv, NEW m \in Msgs, Send(m)
    PROVE  IInv'
<1>1. /\ MaySend(m) /\ sent' = Append(sent, m) /\ wire' = wire \o Encode(from, m)
      /\ UNCHANGED <<ends, pos, todo, msg, got, state>> /\ misread' = misread
      /\ from' = from /\ to' = to /\ opened' = opened
  BY DEF Send, ends
<1>2. Types /\ Chain(sent)
  BY DEF IInv
<1>3. Encode(from, m) = Octets(m)
  <2>1. "request" \in DOMAIN m /\ m.request = ForwardPort => from = "rust"
    BY <1>1 DEF MaySend
  <2>. QED
    BY <1>2, <2>1, WritersAgree DEF Types, Octets
<1>4. Octets(m) \in Seq(Nat) /\ Begins(Octets(m), Octets(m))
  <2>1. Octets(m) \in Seq(Nat)
    BY OctetsType
  <2>. QED
    BY <2>1 DEF Begins
<1>5. Types'
  <2>1. sent' \in Seq(Msgs)
    BY <1>1, <1>2, AppendFacts DEF Types
  <2>2. wire' \in Seq(Nat)
    BY <1>1, <1>2, <1>3, <1>4, ConcatFacts DEF Types
  <2>. QED
    BY <1>1, <1>2, <2>1, <2>2 DEF Types
<1>6. Chain(sent')
  BY <1>1, <1>2, ChainGrows DEF Types
<1>7. ASSUME misread' = 0 PROVE Where'
  <2>1. PICK ms, st, k, j : Stream(ms, st) /\ AtReader(ms, st, k, j) /\ GotIs(k)
    BY <1>1, <1>7 DEF IInv, Where
  <2>. QED
    BY <1>1, <1>2, <1>3, <1>4, <2>1, WriterStep
<1>8. ASSUME state' = "panic" PROVE misread' = 1 \/ UnknownSent'
  <2>1. state = "panic"
    BY <1>1, <1>8
  <2>2. CASE misread = 1
    BY <1>1, <2>2
  <2>3. CASE UnknownSent
    <3>1. PICK i \in DOMAIN sent : "type" \in DOMAIN sent[i] /\ sent[i].type \notin KnownTypes
      BY <2>3 DEF UnknownSent
    <3>2. i \in DOMAIN sent' /\ sent'[i] = sent[i]
      BY <1>1, <1>2 DEF Types
    <3>. QED
      BY <3>1, <3>2 DEF UnknownSent
  <2>. QED
    BY <2>1, <2>2, <2>3 DEF IInv
<1>. QED
  BY <1>5, <1>6, <1>7, <1>8 DEF IInv

\* The writer stops inside a message.
LEMMA CutStep ==
    ASSUME IInv, NEW m \in Msgs, NEW n \in 1 .. Len(Encode(from, m)) - 1, Cut(m, n)
    PROVE  IInv'
<1>. DEFINE e == SubSeq(Encode(from, m), 1, n)
<1>1. /\ MaySend(m) /\ sent' = sent /\ wire' = wire \o e /\ end' = "fin"
      /\ UNCHANGED <<ends, pos, todo, msg, got, state>> /\ misread' = misread
      /\ from' = from /\ to' = to /\ opened' = opened
  BY DEF Cut, ends
<1>2. Types /\ Chain(sent)
  BY DEF IInv
<1>3. Encode(from, m) = Octets(m)
  <2>1. "request" \in DOMAIN m /\ m.request = ForwardPort => from = "rust"
    BY <1>1 DEF MaySend
  <2>. QED
    BY <1>2, <2>1, WritersAgree DEF Types, Octets
<1>4. e \in Seq(Nat) /\ Begins(e, Octets(m)) /\ Len(e) < Len(Octets(m))
  <2>. DEFINE o == Octets(m)
  <2>1. o \in Seq(Nat) /\ Len(o) \in Nat
    BY OctetsType
  <2>2. e = SubSeq(o, 1, n) /\ n \in 1 .. Len(o) - 1
    BY <1>3
  <2>. HIDE DEF e, o
  <2>3. e \in Seq(Nat) /\ Len(e) = n /\ \A c \in 1 .. n : e[c] = o[c]
    BY <2>1, <2>2
  <2>4. Len(e) < Len(o) /\ Len(e) <= Len(o)
    BY <2>1, <2>2, <2>3
  <2>. QED
    BY <2>3, <2>4 DEF Begins, o
<1>. HIDE DEF e
<1>5. Types'
  <2>1. wire' \in Seq(Nat)
    BY <1>1, <1>2, <1>4, ConcatFacts DEF Types
  <2>. QED
    BY <1>1, <1>2, <2>1 DEF Types
<1>6. Chain(sent')
  BY <1>1, <1>2
<1>7. ASSUME misread' = 0 PROVE Where'
  <2>1. PICK ms, st, k, j : Stream(ms, st) /\ AtReader(ms, st, k, j) /\ GotIs(k)
    BY <1>1, <1>7 DEF IInv, Where
  <2>. QED
    BY <1>1, <1>2, <1>4, <2>1, WriterStep
<1>8. ASSUME state' = "panic" PROVE misread' = 1 \/ UnknownSent'
  BY <1>1, <1>8 DEF IInv, UnknownSent
<1>. QED
  BY <1>5, <1>6, <1>7, <1>8 DEF IInv

\* The stream ends.
LEMMA EndStep ==
    ASSUME IInv, Finish \/ Reset
    PROVE  IInv'
<1>1. /\ end' # "open"
      /\ UNCHANGED <<ends, sent, wire, pos, todo, msg, got, state>> /\ misread' = misread
      /\ from' = from /\ to' = to /\ opened' = opened
  BY DEF Finish, Reset, ends
<1>2. Types'
  BY <1>1 DEF IInv, Types
<1>3. Chain(sent')
  BY <1>1 DEF IInv
<1>4. ASSUME misread' = 0 PROVE Where'
  <2>1. PICK ms, st, k, j : Stream(ms, st) /\ AtReader(ms, st, k, j) /\ GotIs(k)
    BY <1>1, <1>4 DEF IInv, Where
  <2>2. Stream(ms, st)'
    BY <1>1, <2>1 DEF Stream, Placed
  <2>3. AtReader(ms, st, k, j)'
    BY <1>1, <2>1 DEF AtReader, Reading, Expected, InHeader
  <2>4. GotIs(k)'
    BY <1>1, <2>1 DEF GotIs
  <2>. QED
    BY <2>2, <2>3, <2>4 DEF Where
<1>5. ASSUME state' = "panic" PROVE misread' = 1 \/ UnknownSent'
  BY <1>1, <1>5 DEF IInv, UnknownSent
<1>. QED
  BY <1>2, <1>3, <1>4, <1>5 DEF IInv

-----------------------------------------------------------------------------
(* The steps of the reader *)

\* What the reader leaves alone.
Rest == UNCHANGED <<ends, peer>>

\* The variables in ends and peer.
LEMMA RestIs ==
    ASSUME Rest
    PROVE  /\ from' = from /\ to' = to /\ opened' = opened
           /\ sent' = sent /\ wire' = wire /\ end' = end
BY DEF Rest, ends, peer

\* Message k of the stream, at the reader.
LEMMA MessageK ==
    ASSUME Types, NEW ms, NEW st, NEW k, Stream(ms, st), k \in 1 .. Len(ms)
    PROVE  /\ ms[k] \in Headers \cup Inputs /\ st[k] \in Nat /\ Placed(ms[k], st[k])
           /\ st[k + 1] = st[k] + Len(Octets(ms[k])) /\ st[k + 1] \in Nat
           /\ Octets(ms[k]) \in Seq(Nat) /\ Len(Octets(ms[k])) \in Nat
           /\ ms[k] \in (IF opened = 0 /\ k = 1 THEN Headers ELSE Inputs)
           /\ st[k + 1] <= Len(wire) <=> k <= Len(sent)
           /\ k <= Len(sent) => sent[k] = ms[k] /\ k \in 1 .. Len(sent)
<1>1. /\ ms \in Seq(Msgs) /\ st \in [1 .. Len(ms) + 1 -> Nat]
      /\ sent \in Seq(Msgs) /\ wire \in Seq(Nat)
  BY DEF Stream, Types
<1>2. Len(ms) \in Nat /\ Len(sent) \in Nat /\ Len(wire) \in Nat /\ k \in Nat
  BY <1>1
<1>3. k \in 1 .. Len(ms) + 1 /\ k + 1 \in 1 .. Len(ms) + 1
  BY <1>2
<1>10. st[k] \in Nat /\ st[k + 1] \in Nat
  BY <1>1, <1>3
<1>4. ms[k] \in Msgs /\ st[k] \in Nat /\ st[k + 1] \in Nat
  BY <1>1, <1>10
<1>5. Octets(ms[k]) \in Seq(Nat) /\ Len(Octets(ms[k])) \in Nat
  BY <1>4, OctetsType
<1>6. /\ Placed(ms[k], st[k]) /\ st[k + 1] = st[k] + Len(Octets(ms[k]))
      /\ ms[k] \in (IF opened = 0 /\ k = 1 THEN Headers ELSE Inputs)
  BY DEF Stream
<1>7. ASSUME k <= Len(sent)
      PROVE  sent[k] = ms[k] /\ k \in 1 .. Len(sent) /\ st[k + 1] <= Len(wire)
  <2>1. k \in 1 .. Len(sent)
    BY <1>2, <1>7
  <2>. QED
    BY <2>1 DEF Stream
<1>8. ASSUME k > Len(sent) PROVE Len(wire) < st[k + 1]
  <2>1. Len(ms) = Len(sent) + 1 /\ k = Len(ms) /\ Len(ms) > Len(sent)
    BY <1>2, <1>8 DEF Stream
  <2>. QED
    BY <2>1 DEF Stream
<1>9. st[k + 1] <= Len(wire) <=> k <= Len(sent)
  BY <1>2, <1>4, <1>7, <1>8
<1>. QED
  BY <1>4, <1>5, <1>6, <1>7, <1>9 DEF Msgs

\* The reader stops: it is nowhere any more, and what it gave away stays.
LEMMA StopStep ==
    ASSUME Types, Chain(sent), NEW ms, NEW st, NEW k, NEW j,
           Stream(ms, st), AtReader(ms, st, k, j), GotIs(k),
           Rest, got' = got, state' \in {"error", "panic", "eof"},
           state' = "eof" => end # "open" /\ k = Len(sent) + 1
    PROVE  Where'
<1>1. /\ from' = from /\ to' = to /\ opened' = opened
      /\ sent' = sent /\ wire' = wire /\ end' = end
  BY RestIs
<1>2. Stream(ms, st)'
  BY <1>1 DEF Stream, Placed
<1>3. AtReader(ms, st, k, j)'
  BY <1>1 DEF AtReader
<1>4. GotIs(k)'
  BY <1>1 DEF GotIs
<1>. QED
  BY <1>2, <1>3, <1>4 DEF Where

\* The reader in front of a message has nothing to read.
LEMMA NothingThere ==
    ASSUME Types, NEW ms, NEW st, NEW k, NEW j,
           Stream(ms, st), AtReader(ms, st, k, j), state \in {"reading", "queued"},
           k > Len(ms)
    PROVE  /\ todo # <<>> /\ ~Complete(todo[1])
           /\ k = Len(sent) + 1
<1>1. /\ ms \in Seq(Msgs) /\ sent \in Seq(Msgs) /\ wire \in Seq(Nat)
      /\ Len(ms) \in {Len(sent), Len(sent) + 1}
  BY DEF Stream, Types
<1>2. Len(ms) \in Nat /\ Len(sent) \in Nat /\ Len(wire) \in Nat
  BY <1>1
<1>3. k \in 1 .. Len(ms) + 1 /\ k <= Len(sent) + 1
  BY DEF AtReader
<1>4. k = Len(ms) + 1 /\ Len(ms) = Len(sent)
  BY <1>1, <1>2, <1>3
<1>5. pos = st[k] /\ todo = Expected(k)
  BY DEF AtReader
<1>6. pos = Len(wire)
  BY <1>4, <1>5 DEF Stream
<1>7. todo # <<>> /\ todo[1][1] = "int"
  BY <1>5 DEF Expected, RustHeader, Message, Int
<1>8. ~VarIntThere(pos)
  BY <1>2, <1>6 DEF VarIntThere
<1>9. ~Complete(todo[1])
  BY <1>7, <1>8 DEF Complete
<1>. QED
  BY <1>4, <1>7, <1>9

\* A message of an unknown type is its type alone.
LEMMA UnknownType ==
    ASSUME NEW m \in Headers \cup Inputs, NEW i \in 1 .. Len(Layout(m)),
           Layout(m)[i] = Int("type"), m.type \notin KnownTypes
    PROVE  i = Len(Layout(m)) /\ "type" \in DOMAIN m
<1>. DEFINE L == Layout(m)
<1>1. CASE m \in Headers
  <2>. DEFINE T == Target(m)
  <2>1. "frame" \in DOMAIN m
    BY <1>1, DisjointInputs
  <2>2. /\ Len(T) \in {0, 3} /\ Len(L) = 4 + Len(T)
        /\ L[1] = Int("frame") /\ L[2] = Int("conversation")
        /\ L[3] = Str("channel_type") /\ L[4] = Int("max_packet_size")
        /\ \A c \in 1 .. Len(T) : L[4 + c] = T[c]
        /\ Plain(T)
    BY <2>1, LayoutOfHeader
  <2>. HIDE DEF L, T
  <2>3. L[i] = Int("type") /\ i \in 1 .. Len(L)
    BY DEF L
  <2>4. CASE i \in 1 .. 4
    <3>1. i = 1 \/ i = 2 \/ i = 3 \/ i = 4
      BY <2>4
    <3>. QED
      BY <2>2, <2>3, <3>1 DEF Int, Str
  <2>5. CASE i \notin 1 .. 4
    <3>1. i - 4 \in 1 .. Len(T) /\ 4 + (i - 4) = i
      BY <2>2, <2>3, <2>5
    <3>2. T[i - 4] = Int("type")
      BY <2>2, <2>3, <3>1
    <3>. QED
      BY <2>2, <3>1, <3>2 DEF Plain
  <2>. QED
    BY <2>4, <2>5
<1>2. CASE m \in Inputs
  <2>. DEFINE B == RustBody(m.type)
              R == RequestPart(m)
  <2>1. /\ "frame" \notin DOMAIN m /\ WellFormed(m)
        /\ "request" \in DOMAIN m <=> m.type = SSH_MSG_CHANNEL_REQUEST
    BY <1>2, ReceiveAssumption DEF ReceiveAssumption
  <2>2. Len(B) = 0
    BY BodyIs
  <2>3. m.type # SSH_MSG_CHANNEL_REQUEST
    BY DEF KnownTypes
  <2>4. Len(R) = 0
    BY <2>1, <2>3 DEF RequestPart
  <2>5. Len(L) = (1 + Len(B)) + Len(R)
    BY <2>1, LayoutOfMessage
  <2>6. Len(L) = 1 /\ i = 1
    BY <2>2, <2>4, <2>5
  <2>7. DOMAIN m = {L[c][2] : c \in 1 .. Len(L)}
    BY <2>1 DEF WellFormed, Layout
  <2>8. L[i][2] = "type"
    BY DEF Int
  <2>. QED
    BY <2>6, <2>7, <2>8
<1>. QED
  BY <1>1, <1>2

\* The reader takes one field, refuses it, or finds a type that it does not know.
LEMMA ReadFieldStep ==
    ASSUME IInv, ReadField
    PROVE  IInv'
<1>. DEFINE f == todo[1]
<1>1. /\ state = "reading" /\ todo # <<>> /\ Complete(f) /\ Rest /\ misread' = misread
      /\ IF Refused(f) THEN Stop("error")
         ELSE IF f = Int("type") /\ VarInt \notin KnownTypes
         THEN Stop(IF to = "rust" THEN "error" ELSE "panic")
         ELSE Advance(f, FieldValue(f), FieldEnd(f))
  BY DEF ReadField, Rest
<1>2. /\ from' = from /\ to' = to /\ opened' = opened
      /\ sent' = sent /\ wire' = wire /\ end' = end
  BY <1>1, RestIs
<1>3. Types /\ Chain(sent)
  BY DEF IInv
<1>4. Types' /\ Chain(sent')
  BY <1>1, <1>2, <1>3 DEF Types
<1>5. CASE misread # 0
  <2>1. misread' = 1
    BY <1>1, <1>3, <1>5 DEF Types
  <2>2. state' = "panic" => misread' = 1 \/ UnknownSent'
    BY <2>1
  <2>. QED
    BY <1>4, <2>1, <2>2 DEF IInv
<1>6. CASE misread = 0
  <2>1. PICK ms, st, k, j : Stream(ms, st) /\ AtReader(ms, st, k, j) /\ GotIs(k)
    BY <1>6 DEF IInv, Where
  <2>2. ms \in Seq(Msgs) /\ Len(ms) \in Nat /\ k \in 1 .. Len(ms) + 1
    BY <2>1 DEF Stream, AtReader
  <2>3. k \in 1 .. Len(ms)
    <3>1. ~(k > Len(ms))
      BY <1>1, <1>3, <2>1, NothingThere
    <3>. QED
      BY <2>2, <3>1
  <2>4. k <= Len(ms) /\ ~(k > Len(ms))
    BY <2>2, <2>3
  <2>. DEFINE m == ms[k]
              s == st[k]
  <2>5. /\ m \in Headers \cup Inputs /\ s \in Nat /\ Placed(m, s)
        /\ st[k + 1] = s + Len(Octets(m))
        /\ st[k + 1] <= Len(wire) <=> k <= Len(sent)
        /\ k <= Len(sent) => sent[k] = m /\ k \in 1 .. Len(sent)
    BY <1>3, <2>1, <2>3, MessageK
  <2>6. Reading(m, s, j) /\ pos <= Len(wire)
    BY <1>1, <2>1, <2>4 DEF AtReader
  <2>7. wire \in Seq(Nat) /\ to \in Impls
    BY <1>3 DEF Types
  <2>. HIDE DEF m, s
  <2>8. CASE Refused(f)
    <3>1. got' = got /\ state' = "error"
      BY <1>1, <2>8 DEF Stop
    <3>2. Where'
      BY <1>1, <1>3, <2>1, <3>1, StopStep
    <3>. QED
      BY <1>4, <3>1, <3>2 DEF IInv
  <2>9. CASE ~Refused(f) /\ f = Int("type") /\ VarInt \notin KnownTypes
    <3>1. got' = got /\ state' \in {"error", "panic"}
      BY <1>1, <2>9 DEF Stop
    <3>2. Where'
      BY <1>1, <1>3, <2>1, <3>1, StopStep
    <3>3. s + Off(m, j + 1) <= Len(wire) /\ VarInt = m.type
      BY <1>1, <2>5, <2>6, <2>7, <2>9, FieldIsThere
    <3>4. f = Layout(m)[j + 1] /\ j + 1 \in 1 .. Len(Layout(m))
      BY <1>1, <2>6, TodoEmpty
    <3>5. j + 1 = Len(Layout(m)) /\ "type" \in DOMAIN m
      BY <2>5, <2>9, <3>3, <3>4, UnknownType
    <3>6. Off(m, Len(Layout(m))) = Len(Octets(m))
      <4>1. WellFormed(m)
        BY <2>5, InputsWellFormed
      <4>. QED
        BY <4>1, PlaceOfField, Zenon
    <3>7. k \in 1 .. Len(sent) /\ sent[k] = m
      BY <2>5, <3>3, <3>5, <3>6
    <3>8. UnknownSent'
      <4>1. k \in DOMAIN sent
        BY <1>3, <3>7 DEF Types
      <4>. QED
        BY <1>2, <2>9, <3>3, <3>5, <3>7, <4>1 DEF UnknownSent
    <3>. QED
      BY <1>4, <3>2, <3>8 DEF IInv
  <2>10. CASE ~Refused(f) /\ ~(f = Int("type") /\ VarInt \notin KnownTypes)
    <3>1. Advance(f, FieldValue(f), FieldEnd(f))
      BY <1>1, <2>10
    <3>2. f = Int("type") => VarInt \in KnownTypes
      BY <2>10
    <3>3. Reading(m, s, j + 1)' /\ pos' <= Len(wire)
      BY <1>1, <2>5, <2>6, <2>7, <2>10, <3>1, <3>2, AdvanceReads
    <3>4. got' = got /\ state' = "reading"
      BY <1>1, <3>1 DEF Advance
    <3>5. Stream(ms, st)'
      BY <1>2, <2>1 DEF Stream, Placed
    <3>6. AtReader(ms, st, k, j + 1)'
      BY <1>2, <2>1, <2>4, <3>3, <3>4 DEF AtReader, m, s
    <3>7. GotIs(k)'
      BY <1>2, <2>1, <3>4 DEF GotIs
    <3>8. Where'
      BY <3>5, <3>6, <3>7 DEF Where
    <3>. QED
      BY <1>4, <3>4, <3>8 DEF IInv
  <2>. QED
    BY <2>8, <2>9, <2>10
<1>. QED
  BY <1>5, <1>6

\* A reader that finds the stream ended inside a message has had all that were written in
\* full.
LEMMA EndsBehindSent ==
    ASSUME Types, NEW ms, NEW st, NEW k, NEW j,
           Stream(ms, st), AtReader(ms, st, k, j), state = "reading",
           todo # <<>>, ~Complete(todo[1])
    PROVE  k = Len(sent) + 1
<1>1. ms \in Seq(Msgs) /\ sent \in Seq(Msgs) /\ wire \in Seq(Nat)
  BY DEF Stream, Types
<1>2. Len(ms) \in Nat /\ Len(sent) \in Nat /\ Len(wire) \in Nat
  BY <1>1
<1>3. k \in 1 .. Len(ms) + 1 /\ k <= Len(sent) + 1 /\ k \in Nat
  BY <1>2 DEF AtReader
<1>4. CASE k > Len(ms)
  BY <1>4, NothingThere
<1>5. CASE k <= Len(ms)
  <2>. DEFINE m == ms[k]
              s == st[k]
              P == Piece(m, j + 1)
              v == m[todo[1][2]]
  <2>1. k \in 1 .. Len(ms)
    BY <1>2, <1>3, <1>5
  <2>2. /\ m \in Headers \cup Inputs /\ s \in Nat /\ Placed(m, s)
        /\ st[k + 1] = s + Len(Octets(m)) /\ Len(Octets(m)) \in Nat
        /\ st[k + 1] <= Len(wire) <=> k <= Len(sent)
    BY <2>1, MessageK
  <2>3. Reading(m, s, j) /\ pos <= Len(wire)
    BY <1>5 DEF AtReader
  <2>. HIDE DEF m, s
  <2>4. /\ ReadBack(todo[1], v)
        /\ EncodeField(todo[1], v) = P
        /\ s + Off(m, j + 1) = pos + Len(P)
    BY <1>1, <2>2, <2>3, AtField
  <2>5. ~(pos + Len(P) <= Len(wire))
    BY <2>4 DEF ReadBack
  <2>6. Off(m, j + 1) \in Nat /\ Off(m, j + 1) <= Len(Octets(m))
    <3>1. j + 1 \in 1 .. Len(Layout(m))
      BY <2>3, TodoEmpty
    <3>2. j + 1 \in 0 .. Len(Layout(m))
      <4>1. \A a, b : a \in 1 .. b => a \in 0 .. b
        OBVIOUS
      <4>. QED
        BY <3>1, <4>1, Zenon
    <3>3. WellFormed(m)
      BY <2>2, InputsWellFormed
    <3>. QED
      BY <3>2, <3>3, PlaceOfField, Zenon
  <2>7. ~(s + Len(Octets(m)) <= Len(wire))
    BY <1>2, <2>2, <2>4, <2>5, <2>6
  <2>. QED
    BY <1>2, <1>3, <2>2, <2>7
<1>. QED
  BY <1>2, <1>3, <1>4, <1>5

\* The reader finds the end of the stream, or that it was reset.
LEMMA ReadFailsStep ==
    ASSUME IInv, ReadAtEnd \/ ReadFails
    PROVE  IInv'
<1>1. /\ Rest /\ misread' = misread /\ got' = got /\ state' \in {"error", "eof"}
      /\ state = "reading" /\ todo # <<>>
      /\ state' = "eof" => end # "open" /\ ~Complete(todo[1])
  <2>1. CASE ReadAtEnd
    BY <2>1 DEF ReadAtEnd, Stop, Rest
  <2>2. CASE ReadFails
    BY <2>2 DEF ReadFails, Stop, Rest, EndOfStream
  <2>. QED
    BY <2>1, <2>2
<1>2. /\ from' = from /\ to' = to /\ opened' = opened
      /\ sent' = sent /\ wire' = wire /\ end' = end
  BY <1>1, RestIs
<1>3. Types /\ Chain(sent)
  BY DEF IInv
<1>4. Types' /\ Chain(sent')
  BY <1>1, <1>2, <1>3 DEF Types
<1>5. ASSUME misread' = 0 PROVE Where'
  <2>1. PICK ms, st, k, j : Stream(ms, st) /\ AtReader(ms, st, k, j) /\ GotIs(k)
    BY <1>1, <1>5 DEF IInv, Where
  <2>2. state' = "eof" => end # "open" /\ k = Len(sent) + 1
    BY <1>1, <1>3, <2>1, EndsBehindSent
  <2>. QED
    BY <1>1, <1>3, <2>1, <2>2, StopStep
<1>. QED
  BY <1>1, <1>4, <1>5 DEF IInv

\* A target that is read in part is a misreading, of which the invariant says no more.
LEMMA ShortReadStep ==
    ASSUME IInv, NEW n, ShortRead(n)
    PROVE  IInv'
<1>1. /\ Rest /\ misread' = 1
      /\ state' # "panic"
  BY DEF ShortRead, Advance, Rest
<1>2. /\ from' = from /\ to' = to /\ opened' = opened
      /\ sent' = sent /\ wire' = wire /\ end' = end
  BY <1>1, RestIs
<1>3. Types' /\ Chain(sent')
  BY <1>1, <1>2 DEF IInv, Types
<1>. QED
  BY <1>1, <1>3 DEF IInv

\* The reader behind the last field of message k: the message was written in full, and the
\* reader has it as it was written.
LEMMA MessageEnds ==
    ASSUME Types, NEW ms, NEW st, NEW k, NEW j,
           Stream(ms, st), AtReader(ms, st, k, j), state \in {"reading", "queued"},
           todo = <<>>
    PROVE  /\ k \in 1 .. Len(ms) /\ k \in 1 .. Len(sent)
           /\ msg = sent[k] /\ sent[k] = ms[k] /\ msg \in Msgs
           /\ pos = st[k + 1] /\ st[k + 1] \in Nat /\ pos <= Len(wire)
           /\ InHeader <=> "frame" \in DOMAIN msg
           /\ "frame" \in DOMAIN msg => k = 1
<1>1. ms \in Seq(Msgs) /\ Len(ms) \in Nat /\ k \in 1 .. Len(ms) + 1 /\ k \in Nat
  BY DEF Stream, AtReader
<1>2. ~(k > Len(ms))
  BY NothingThere
<1>3. k \in 1 .. Len(ms) /\ k <= Len(ms)
  BY <1>1, <1>2
<1>. DEFINE m == ms[k]
            s == st[k]
<1>4. /\ m \in Headers \cup Inputs /\ s \in Nat
      /\ st[k + 1] = s + Len(Octets(m)) /\ st[k + 1] \in Nat
      /\ m \in (IF opened = 0 /\ k = 1 THEN Headers ELSE Inputs)
      /\ st[k + 1] <= Len(wire) <=> k <= Len(sent)
      /\ k <= Len(sent) => sent[k] = m /\ k \in 1 .. Len(sent)
  BY <1>3, MessageK
<1>5. Reading(m, s, j) /\ pos <= Len(wire)
  BY <1>3 DEF AtReader
<1>. HIDE DEF m, s
<1>6. msg = m /\ pos = s + Len(Octets(m)) /\ (InHeader <=> "frame" \in DOMAIN m)
  BY <1>4, <1>5, MessageRead
<1>7. k \in 1 .. Len(sent) /\ sent[k] = m
  BY <1>4, <1>5, <1>6
<1>8. "frame" \in DOMAIN m => k = 1
  BY <1>4, DisjointInputs
<1>. QED
  BY <1>3, <1>4, <1>5, <1>6, <1>7, <1>8 DEF m, Msgs

\* A header that is complete waits in the accept queue.
LEMMA QueueChannelStep ==
    ASSUME IInv, QueueChannel
    PROVE  IInv'
<1>1. /\ Rest /\ misread' = misread /\ UNCHANGED <<pos, todo, msg, got>>
      /\ state = "reading" /\ todo = <<>> /\ InHeader /\ state' = "queued"
  BY DEF QueueChannel, Rest
<1>2. /\ from' = from /\ to' = to /\ opened' = opened
      /\ sent' = sent /\ wire' = wire /\ end' = end
  BY <1>1, RestIs
<1>3. Types /\ Chain(sent)
  BY DEF IInv
<1>4. Types' /\ Chain(sent')
  BY <1>1, <1>2, <1>3 DEF Types
<1>5. ASSUME misread' = 0 PROVE Where'
  <2>1. PICK ms, st, k, j : Stream(ms, st) /\ AtReader(ms, st, k, j) /\ GotIs(k)
    BY <1>1, <1>5 DEF IInv, Where
  <2>2. k \in 1 .. Len(ms)
    BY <1>1, <1>3, <2>1, MessageEnds
  <2>3. k <= Len(ms)
    BY <2>2
  <2>4. Stream(ms, st)'
    BY <1>2, <2>1 DEF Stream, Placed
  <2>5. InHeader'
    BY <1>1 DEF InHeader
  <2>6. AtReader(ms, st, k, j)'
    BY <1>1, <1>2, <2>1, <2>3, <2>5 DEF AtReader, Reading, Expected
  <2>7. GotIs(k)'
    BY <1>1, <1>2, <2>1 DEF GotIs
  <2>. QED
    BY <2>4, <2>6, <2>7 DEF Where
<1>. QED
  BY <1>1, <1>4, <1>5 DEF IInv

\* The reader goes on to the next message.
LEMMA NextMessageStep ==
    ASSUME Types, Chain(sent), NEW ms, NEW st, NEW k, NEW j,
           Stream(ms, st), AtReader(ms, st, k, j), GotIs(k),
           state \in {"reading", "queued"}, todo = <<>>,
           Rest, state' = "reading", msg' = NoFields, todo' = Message, pos' = pos,
           \/ ForApplication(msg) /\ got' = Append(got, msg)
           \/ ~ForApplication(msg) /\ got' = got
    PROVE  Where'
<1>1. /\ from' = from /\ to' = to /\ opened' = opened
      /\ sent' = sent /\ wire' = wire /\ end' = end
  BY RestIs
<1>2. /\ k \in 1 .. Len(ms) /\ k \in 1 .. Len(sent)
      /\ msg = sent[k]
      /\ pos = st[k + 1] /\ st[k + 1] \in Nat /\ pos <= Len(wire)
  BY MessageEnds
<1>3. sent \in Seq(Msgs) /\ ms \in Seq(Msgs)
  BY DEF Types, Stream
<1>4. Len(sent) \in Nat /\ Len(ms) \in Nat /\ k \in Nat
  BY <1>2, <1>3
<1>5. /\ k + 1 \in 1 .. Len(ms) + 1 /\ k + 1 <= Len(sent) + 1 /\ k + 1 # 1
      /\ (k + 1) - 1 = k /\ k - 1 \in 0 .. Len(sent)
  BY <1>2, <1>4
<1>6. Stream(ms, st)'
  BY <1>1 DEF Stream, Placed
<1>7. ASSUME k + 1 <= Len(ms) PROVE Reading(ms[k + 1], st[k + 1], 0)'
  <2>1. k + 1 \in 1 .. Len(ms)
    BY <1>4, <1>5, <1>7
  <2>2. ms[k + 1] \in Inputs
    BY <1>5, <2>1 DEF Stream
  <2>3. ReadingAt(st[k + 1], NoFields, Message, ms[k + 1], st[k + 1], 0)
    BY <1>2, <2>2, StartsReading
  <2>. QED
    BY <1>2, <2>3 DEF Reading
<1>8. Expected(k + 1)' = Message
  BY <1>5 DEF Expected
<1>9. AtReader(ms, st, k + 1, 0)'
  BY <1>1, <1>2, <1>5, <1>7, <1>8 DEF AtReader
<1>10. GotIs(k + 1)'
  <2>. SUFFICES ASSUME NEW f, Upto(f, sent) PROVE got' = f[k]
    BY <1>1, <1>5 DEF GotIs
  <2>1. f[k] = IF ForApplication(sent[k]) THEN Append(f[k - 1], sent[k]) ELSE f[k - 1]
    BY <1>2, <1>3, UptoUnfolds
  <2>2. got = f[k - 1]
    BY DEF GotIs
  <2>. QED
    BY <1>2, <2>1, <2>2
<1>. QED
  BY <1>6, <1>9, <1>10 DEF Where

\* The application accepts the channel: it gets the header first.
LEMMA AcceptChannelStep ==
    ASSUME IInv, AcceptChannel
    PROVE  IInv'
<1>1. /\ Rest /\ misread' = misread /\ state = "queued" /\ state' \in {"reading", "error"}
      /\ got' = (IF state' = "error" THEN got ELSE <<msg>>)
      /\ msg' = NoFields /\ todo' = Message /\ pos' = pos
  <2>1. state' \in {"reading", "error"}
    BY DEF AcceptChannel
  <2>. QED
    BY <2>1 DEF AcceptChannel, Rest
<1>2. /\ from' = from /\ to' = to /\ opened' = opened
      /\ sent' = sent /\ wire' = wire /\ end' = end
  BY <1>1, RestIs
<1>3. Types /\ Chain(sent)
  BY DEF IInv
<1>4. Types' /\ Chain(sent')
  BY <1>1, <1>2, <1>3 DEF Types
<1>5. ASSUME misread' = 0 PROVE Where'
  <2>1. PICK ms, st, k, j : Stream(ms, st) /\ AtReader(ms, st, k, j) /\ GotIs(k)
    BY <1>1, <1>5 DEF IInv, Where
  <2>2. CASE state' = "error"
    <3>1. got' = got
      BY <1>1, <2>2
    <3>. QED
      BY <1>1, <1>3, <2>1, <2>2, <3>1, StopStep
  <2>3. CASE state' = "reading"
    <3>1. todo = <<>> /\ InHeader
      BY <1>1, <2>1 DEF AtReader
    <3>2. k = 1 /\ "frame" \in DOMAIN msg /\ msg \in Msgs
      BY <1>1, <1>3, <2>1, <3>1, MessageEnds
    <3>3. ForApplication(msg)
      BY <3>2 DEF ForApplication
    <3>4. got = <<>>
      <4>1. PICK f : Upto(f, sent)
        BY <1>3 DEF Chain
      <4>2. f[0] = <<>>
        BY <1>3, <4>1, UptoUnfolds DEF Types
      <4>3. k - 1 = 0
        BY <3>2
      <4>. QED
        BY <2>1, <4>1, <4>2, <4>3 DEF GotIs
    <3>5. got' = Append(got, msg)
      <4>1. <<msg>> = Append(<<>>, msg)
        OBVIOUS
      <4>. QED
        BY <1>1, <2>3, <3>4, <4>1
    <3>. QED
      BY <1>1, <1>3, <2>1, <2>3, <3>1, <3>3, <3>5, NextMessageStep
  <2>. QED
    BY <1>1, <2>2, <2>3
<1>. QED
  BY <1>1, <1>4, <1>5 DEF IInv

\* The application takes a message; the confirmation is for the channel.
LEMMA TakeMessageStep ==
    ASSUME IInv, TakeMessage
    PROVE  IInv'
<1>1. /\ Rest /\ misread' = misread /\ state = "reading" /\ todo = <<>> /\ ~InHeader
      /\ \/ state' = "error" /\ got' = got
         \/ msg.type = SSH_MSG_CHANNEL_OPEN_CONFIRMATION /\ Again(got)
         \/ msg.type # SSH_MSG_CHANNEL_OPEN_CONFIRMATION /\ Again(Append(got, msg))
  <2>1. Rest /\ misread' = misread /\ state = "reading" /\ todo = <<>> /\ ~InHeader
    BY DEF TakeMessage, Rest
  <2>2. CASE msg.type = SSH_MSG_CHANNEL_OPEN_CONFIRMATION
    BY <2>1, <2>2 DEF TakeMessage, Stop, SSH_MSG_CHANNEL_OPEN_CONFIRMATION,
                      SSH_MSG_CHANNEL_OPEN_FAILURE
  <2>3. CASE msg.type # SSH_MSG_CHANNEL_OPEN_CONFIRMATION
    BY <2>1, <2>3 DEF TakeMessage, Stop
  <2>. QED
    BY <2>2, <2>3
<1>2. /\ from' = from /\ to' = to /\ opened' = opened
      /\ sent' = sent /\ wire' = wire /\ end' = end
  BY <1>1, RestIs
<1>3. Types /\ Chain(sent)
  BY DEF IInv
<1>4. Types' /\ Chain(sent')
  BY <1>1, <1>2, <1>3 DEF Types
<1>5. state' # "panic"
  BY <1>1 DEF Again
<1>6. ASSUME misread' = 0 PROVE Where'
  <2>1. PICK ms, st, k, j : Stream(ms, st) /\ AtReader(ms, st, k, j) /\ GotIs(k)
    BY <1>1, <1>6 DEF IInv, Where
  <2>2. CASE state' = "error" /\ got' = got
    BY <1>1, <1>3, <2>1, <2>2, StopStep
  <2>3. "frame" \notin DOMAIN msg
    BY <1>1, <1>3, <2>1, MessageEnds
  <2>4. CASE msg.type = SSH_MSG_CHANNEL_OPEN_CONFIRMATION /\ Again(got)
    <3>1. ~ForApplication(msg)
      BY <2>3, <2>4 DEF ForApplication
    <3>2. state' = "reading" /\ msg' = NoFields /\ todo' = Message /\ pos' = pos /\ got' = got
      BY <1>1, <2>4 DEF Again
    <3>. QED
      BY <1>1, <1>3, <2>1, <3>1, <3>2, NextMessageStep
  <2>5. CASE msg.type # SSH_MSG_CHANNEL_OPEN_CONFIRMATION /\ Again(Append(got, msg))
    <3>1. ForApplication(msg)
      BY <2>5 DEF ForApplication
    <3>2. /\ state' = "reading" /\ msg' = NoFields /\ todo' = Message /\ pos' = pos
          /\ got' = Append(got, msg)
      BY <1>1, <2>5 DEF Again
    <3>. QED
      BY <1>1, <1>3, <2>1, <3>1, <3>2, NextMessageStep
  <2>. QED
    BY <1>1, <2>2, <2>4, <2>5
<1>. QED
  BY <1>4, <1>5, <1>6 DEF IInv

-----------------------------------------------------------------------------

\* Nothing is written and nothing read.
LEMMA InitIInv == ASSUME Init PROVE IInv
<1>1. /\ from \in Impls /\ to \in Impls /\ opened \in {0, 1}
      /\ sent = <<>> /\ wire = <<>> /\ pos = 0 /\ msg = NoFields /\ got = <<>>
      /\ state = "reading" /\ misread = 0 /\ end = "open"
  BY DEF Init
<1>2. sent \in Seq(Msgs) /\ Len(sent) = 0 /\ wire \in Seq(Nat) /\ Len(wire) = 0
  BY <1>1
<1>3. Types
  BY <1>1, <1>2 DEF Types
<1>4. Chain(sent)
  BY <1>1, ChainEmpty
<1>5. todo = Expected(1)
  BY <1>1, SameHeaders DEF Init, Expected
<1>. DEFINE st == [i \in 1 .. 1 |-> 0]
<1>6. Stream(<<>>, st)
  <2>1. st \in [1 .. 0 + 1 -> Nat] /\ st[0 + 1] = 0 /\ \A i \in 1 .. 0 : FALSE
    OBVIOUS
  <2>2. <<>> \in Seq(Msgs) /\ Len(<<>>) = 0
    OBVIOUS
  <2>. HIDE DEF st
  <2>. QED
    BY <1>2, <2>1, <2>2 DEF Stream
<1>7. AtReader(<<>>, st, 1, 0)
  <2>1. Len(<<>>) = 0 /\ 1 \in 1 .. 0 + 1 /\ 1 <= 0 + 1 /\ ~(1 <= 0) /\ 0 <= 0 /\ st[1] = 0
    OBVIOUS
  <2>. HIDE DEF st
  <2>. QED
    BY <1>1, <1>2, <1>5, <2>1 DEF AtReader
<1>8. GotIs(1)
  <2>. SUFFICES ASSUME NEW f, Upto(f, sent) PROVE got = f[1 - 1]
    BY DEF GotIs
  <2>1. f[0] = <<>>
    BY <1>2, UptoUnfolds
  <2>. QED
    BY <1>1, <2>1
<1>9. Where
  BY <1>6, <1>7, <1>8 DEF Where
<1>. QED
  BY <1>1, <1>3, <1>4, <1>9 DEF IInv

\* A step that changes nothing of the channel.
LEMMA StutterIInv == ASSUME IInv, UNCHANGED vars PROVE IInv'
<1>1. /\ UNCHANGED <<from, to, opened, sent, wire, end, pos, todo, msg, got, state>>
      /\ misread' = misread
  BY DEF vars
<1>2. Types' /\ Chain(sent')
  BY <1>1 DEF IInv, Types
<1>3. ASSUME misread' = 0 PROVE Where'
  <2>1. PICK ms, st, k, j : Stream(ms, st) /\ AtReader(ms, st, k, j) /\ GotIs(k)
    BY <1>1, <1>3 DEF IInv, Where
  <2>2. Stream(ms, st)'
    BY <1>1, <2>1 DEF Stream, Placed
  <2>3. AtReader(ms, st, k, j)'
    BY <1>1, <2>1 DEF AtReader, Reading, Expected, InHeader
  <2>4. GotIs(k)'
    BY <1>1, <2>1 DEF GotIs
  <2>. QED
    BY <2>2, <2>3, <2>4 DEF Where
<1>4. state' = "panic" => misread' = 1 \/ UnknownSent'
  BY <1>1 DEF IInv, UnknownSent
<1>. QED
  BY <1>2, <1>3, <1>4 DEF IInv

\* Every step keeps the invariant.
LEMMA NextIInv == ASSUME IInv, [Next]_vars PROVE IInv'
<1>1. ASSUME NEW m \in Headers \cup Inputs, Send(m) PROVE IInv'
  BY <1>1, SendStep DEF Msgs
<1>2. ASSUME NEW m \in Headers \cup Inputs, NEW n \in 1 .. Len(Encode(from, m)) - 1, Cut(m, n)
      PROVE  IInv'
  BY <1>2, CutStep DEF Msgs
<1>3. CASE Finish \/ Reset
  BY <1>3, EndStep
<1>4. CASE ReadField
  BY <1>4, ReadFieldStep
<1>5. ASSUME NEW n \in 1 .. 15, ShortRead(n) PROVE IInv'
  BY <1>5, ShortReadStep
<1>6. CASE ReadAtEnd \/ ReadFails
  BY <1>6, ReadFailsStep
<1>7. CASE QueueChannel
  BY <1>7, QueueChannelStep
<1>8. CASE AcceptChannel
  BY <1>8, AcceptChannelStep
<1>9. CASE TakeMessage
  BY <1>9, TakeMessageStep
<1>10. CASE UNCHANGED vars
  BY <1>10, StutterIInv
<1>. QED
  BY <1>1, <1>2, <1>3, <1>4, <1>5, <1>6, <1>7, <1>8, <1>9, <1>10 DEF Next, Reader, Read

\* What the invariant says of the application.
LEMMA IInvDelivers ==
    ASSUME IInv
    PROVE  DeliveredAsSent /\ EndIsTrue /\ PanicOnUnknownTypeOnly
<1>1. Types /\ Chain(sent)
  BY DEF IInv
<1>2. PanicOnUnknownTypeOnly
  BY DEF IInv, UnknownSent, PanicOnUnknownTypeOnly
<1>3. ASSUME misread = 0
      PROVE  /\ Len(got) <= Len(Deliverable)
             /\ \A i \in DOMAIN got : got[i] = Deliverable[i]
             /\ state = "eof" => got = Deliverable
  <2>1. PICK ms, st, k, j : Stream(ms, st) /\ AtReader(ms, st, k, j) /\ GotIs(k)
    BY <1>3 DEF IInv, Where
  <2>2. PICK f : Upto(f, sent) /\ Deliverable = f[Len(sent)]
    BY <1>1, DeliverableIs
  <2>3. got = f[k - 1]
    BY <2>1, <2>2 DEF GotIs
  <2>4. ms \in Seq(Msgs) /\ sent \in Seq(Msgs)
    BY <1>1, <2>1 DEF Types, Stream
  <2>5. Len(ms) \in Nat /\ Len(sent) \in Nat
    BY <2>4
  <2>6. k \in 1 .. Len(ms) + 1 /\ k <= Len(sent) + 1
    BY <2>1 DEF AtReader
  <2>7. k - 1 \in 0 .. Len(sent) /\ k \in Nat
    BY <2>5, <2>6
  <2>8. got \in Seq(Msgs) /\ Begins(got, Deliverable)
    BY <1>1, <2>2, <2>3, <2>7 DEF Chain
  <2>9. DOMAIN got = 1 .. Len(got)
    BY <2>8
  <2>10. ASSUME state = "eof" PROVE got = Deliverable
    <3>1. k = Len(sent) + 1
      BY <2>1, <2>10 DEF AtReader
    <3>2. k - 1 = Len(sent)
      BY <2>5, <3>1
    <3>. QED
      BY <2>2, <2>3, <3>2
  <2>. QED
    BY <2>8, <2>9, <2>10 DEF Begins
<1>. QED
  BY <1>2, <1>3 DEF DeliveredAsSent, EndIsTrue

\* Whatever the peer writes and wherever its stream ends, the reader of a channel stands
\* behind some number of fields of one of the messages of the stream, as either
\* implementation writes them, and has given away what was for the application of the
\* messages before.  NextMessage of Go and next_message of Rust keep nothing else of the
\* stream from one call to the next.
THEOREM ReceiveInvariant == Spec => []IInv
<1>1. Init => IInv
  BY InitIInv
<1>2. IInv /\ [Next]_vars => IInv'
  BY NextIInv
<1>. QED
  BY <1>1, <1>2, PTL DEF Spec

\* For any messages, of any length and in any number, and each of the four pairs of
\* implementations: the application gets from the channel what the peer wrote, in its order,
\* and no message that was cut short, unless parseForwardingHeader read a target in part.
THEOREM DeliveredAsSentHolds == Spec => []DeliveredAsSent
<1>1. IInv => DeliveredAsSent
  BY IInvDelivers
<1>. QED
  BY <1>1, ReceiveInvariant, PTL

\* A reader that reports the end of the stream has given the application every message that
\* was written in full: UnexpectedEof and io.EOF inside a message hide none.
THEOREM EndIsTrueHolds == Spec => []EndIsTrue
<1>1. IInv => EndIsTrue
  BY IInvDelivers
<1>. QED
  BY <1>1, ReceiveInvariant, PTL

\* ParseMessage panics only where the peer sent a type that it does not know, or behind a
\* target that was read in part: no message of either implementation is taken for another.
THEOREM PanicOnUnknownTypeOnlyHolds == Spec => []PanicOnUnknownTypeOnly
<1>1. IInv => PanicOnUnknownTypeOnly
  BY IInvDelivers
<1>. QED
  BY <1>1, ReceiveInvariant, PTL
=============================================================================
