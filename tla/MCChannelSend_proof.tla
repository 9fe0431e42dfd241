-------------------------- MODULE MCChannelSend_proof --------------------------
(***************************************************************************)
(* Proofs about the send side of a channel for any number of writers, any  *)
(* length of the header and any number of messages: of the Go              *)
(* implementation, whose writes hold one mutex throughout, and of the Rust *)
(* one, whose writes take the header and the stream's lock in two steps.   *)
(***************************************************************************)
EXTENDS MCChannelSend, TLAPS

Units == [by : Writers \cup {NoOne}, write : Nat]

\* What Append does to a sequence.
LEMMA AppendFacts ==
    ASSUME NEW S, NEW s \in Seq(S), NEW u \in S
    PROVE  /\ Append(s, u) \in Seq(S)
           /\ Len(Append(s, u)) = Len(s) + 1
           /\ Len(s) \in Nat
           /\ \A i \in 1 .. Len(s) : Append(s, u)[i] = s[i]
           /\ Append(s, u)[Len(s) + 1] = u
OBVIOUS

LEMMA UnitType ==
    ASSUME TypeOK, NEW w \in Writers
    PROVE  Unit(w) \in Units /\ HeaderUnit \in Units
BY DEF TypeOK, Units, Unit, HeaderUnit

LEMMA InitType == Init => TypeOK
BY SendAssumption DEF SendAssumption, Init, TypeOK

LEMMA NextType == TypeOK /\ [Next]_vars => TypeOK'
<1> SUFFICES ASSUME TypeOK, [Next]_vars PROVE TypeOK'
  OBVIOUS
<1> USE SendAssumption DEF SendAssumption
<1>1. ASSUME NEW w \in Writers, SendHeader(w) PROVE TypeOK'
  <2>1. wire' \in Seq(Units)
    BY <1>1, UnitType, AppendFacts DEF SendHeader, TypeOK, Units
  <2> QED
    BY <1>1, <2>1 DEF SendHeader, TypeOK, Units
<1>2. ASSUME NEW w \in Writers, SendMessage(w) PROVE TypeOK'
  <2>1. wire' \in Seq(Units)
    BY <1>2, UnitType, AppendFacts DEF SendMessage, TypeOK, Units
  <2> QED
    BY <1>2, <2>1 DEF SendMessage, TypeOK, Units
<1>3. ASSUME NEW w \in Writers, MessageFails(w) PROVE TypeOK'
  <2>0. wire \in Seq(Units) /\ Unit(w) \in Units
    BY UnitType DEF TypeOK, Units
  <2>1. wire' \in Seq(Units)
    BY <1>3, <2>0, AppendFacts DEF MessageFails
  <2> QED
    BY <1>3, <2>1 DEF MessageFails, TypeOK, Units
<1>4. ASSUME NEW w \in Writers, Lock(w) PROVE TypeOK'
  BY <1>4 DEF Lock, TypeOK
<1>5. ASSUME NEW w \in Writers, HeaderSent(w) \/ HeaderFails(w) \/ Return(w)
      PROVE  TypeOK'
  BY <1>5 DEF HeaderSent, HeaderFails, Return, TypeOK
<1>6. CASE Close \/ UNCHANGED vars
  BY <1>6 DEF Close, vars, TypeOK
<1> QED
  BY <1>1, <1>2, <1>3, <1>4, <1>5, <1>6 DEF Next

\* The send side keeps its types: more of the header is never cut off than
\* there is.
THEOREM TypeCorrect == Spec => []TypeOK
BY InitType, NextType, PTL DEF Spec

-----------------------------------------------------------------------------
(* The header *)

\* Only the holder of the mutex is inside a write, it gets past the header only
\* when nothing is left of it, and until then the stream holds nothing else.
HeaderInv ==
    /\ \A w \in Writers : pc[w] # "idle" => mutex = w
    /\ \A w \in Writers : pc[w] = "body" => header = 0
    /\ Len(wire) >= HeaderLen - header
    /\ header > 0 => Len(wire) = HeaderLen - header
    /\ \A i \in 1 .. Len(wire) : i <= HeaderLen => wire[i] = HeaderUnit
    /\ \A i \in 1 .. Len(wire) : i > HeaderLen => wire[i].by \in Writers

LEMMA HeaderInvInit == Init => HeaderInv
BY SendAssumption DEF SendAssumption, Init, HeaderInv

\* A message is appended behind the header.
LEMMA AppendMessage ==
    ASSUME TypeOK, HeaderInv, NEW w \in Writers, pc[w] = "body",
           wire' = Append(wire, Unit(w)), UNCHANGED header
    PROVE  /\ Len(wire') >= HeaderLen - header'
           /\ header' > 0 => Len(wire') = HeaderLen - header'
           /\ \A i \in 1 .. Len(wire') : i <= HeaderLen => wire'[i] = HeaderUnit
           /\ \A i \in 1 .. Len(wire') : i > HeaderLen => wire'[i].by \in Writers
<1> USE SendAssumption DEF SendAssumption
<1>1. header = 0 /\ Len(wire) >= HeaderLen /\ wire \in Seq(Units)
  BY DEF HeaderInv, TypeOK, Units
<1>2. Unit(w) \in Units /\ Unit(w).by = w
  BY UnitType DEF Unit
<1>3. /\ Len(wire') = Len(wire) + 1 /\ Len(wire) \in Nat
      /\ \A i \in 1 .. Len(wire) : wire'[i] = wire[i]
      /\ wire'[Len(wire) + 1] = Unit(w)
  BY <1>1, <1>2, AppendFacts
<1> QED
  BY <1>1, <1>2, <1>3 DEF HeaderInv

LEMMA HeaderInvNext == TypeOK /\ HeaderInv /\ [Next]_vars => HeaderInv'
<1> SUFFICES ASSUME TypeOK, HeaderInv, [Next]_vars PROVE HeaderInv'
  OBVIOUS
<1> USE SendAssumption DEF SendAssumption
<1>1. ASSUME NEW w \in Writers, SendHeader(w) PROVE HeaderInv'
  <2>1. wire \in Seq(Units) /\ HeaderUnit \in Units
    BY UnitType DEF TypeOK, Units
  <2>2. /\ Len(wire') = Len(wire) + 1 /\ Len(wire) \in Nat
        /\ \A i \in 1 .. Len(wire) : wire'[i] = wire[i]
        /\ wire'[Len(wire) + 1] = HeaderUnit
    BY <1>1, <2>1, AppendFacts DEF SendHeader
  <2>3. header \in 1 .. HeaderLen /\ header' = header - 1
        /\ Len(wire) = HeaderLen - header
    BY <1>1 DEF SendHeader, HeaderInv, TypeOK
  <2>4. \A x \in Writers : pc[x] # "idle" => mutex = x
    BY DEF HeaderInv
  <2>5. \A x \in Writers : pc'[x] # "body" /\ (pc'[x] # "idle" => mutex' = x)
    BY <1>1, <2>4 DEF SendHeader, HeaderInv, TypeOK
  <2>6. \A i \in 1 .. Len(wire') : i <= HeaderLen /\ wire'[i] = HeaderUnit
    BY <2>2, <2>3 DEF HeaderInv
  <2> QED
    BY <2>2, <2>3, <2>5, <2>6 DEF HeaderInv
<1>2. ASSUME NEW w \in Writers, SendMessage(w) PROVE HeaderInv'
  <2>1. pc[w] = "body" /\ wire' = Append(wire, Unit(w)) /\ UNCHANGED <<mutex, header, pc>>
    BY <1>2 DEF SendMessage
  <2> QED
    BY <2>1, AppendMessage DEF HeaderInv
<1>3. ASSUME NEW w \in Writers, MessageFails(w) PROVE HeaderInv'
  <2>1. \A x \in Writers : pc'[x] = "idle"
    BY <1>3 DEF MessageFails, HeaderInv, TypeOK
  <2>2. CASE UNCHANGED wire
    BY <1>3, <2>1, <2>2 DEF MessageFails, HeaderInv
  <2>3. CASE wire' = Append(wire, Unit(w))
    <3>1. pc[w] = "body" /\ UNCHANGED header
      BY <1>3 DEF MessageFails
    <3> QED
      BY <2>1, <2>3, <3>1, AppendMessage DEF HeaderInv
  <2> QED
    BY <1>3, <2>2, <2>3 DEF MessageFails
<1>4. ASSUME NEW w \in Writers, Lock(w) PROVE HeaderInv'
  BY <1>4 DEF Lock, HeaderInv, TypeOK
<1>5. ASSUME NEW w \in Writers, HeaderSent(w) PROVE HeaderInv'
  BY <1>5 DEF HeaderSent, HeaderInv, TypeOK
<1>6. ASSUME NEW w \in Writers, HeaderFails(w) \/ Return(w) PROVE HeaderInv'
  BY <1>6 DEF HeaderFails, Return, HeaderInv, TypeOK
<1>7. CASE Close \/ UNCHANGED vars
  BY <1>7 DEF Close, vars, HeaderInv
<1> QED
  BY <1>1, <1>2, <1>3, <1>4, <1>5, <1>6, <1>7 DEF Next

LEMMA HeaderInvImplies == TypeOK /\ HeaderInv => HeaderFirst
BY SendAssumption DEF SendAssumption, HeaderInv, HeaderFirst, TypeOK, HeaderUnit

\* The stream of a channel starts with its header, whole and once, for any
\* number of goroutines that write and whichever of their writes fail.
THEOREM HeaderComesFirst == Spec => []HeaderFirst
BY InitType, NextType, HeaderInvInit, HeaderInvNext, HeaderInvImplies, PTL DEF Spec

-----------------------------------------------------------------------------
(* Writes are not interleaved *)

\* A write that is underway and has sent something was the last to send; later
\* writes carry a number of their own.
SerialInv ==
    /\ Serialized
    /\ \A i \in 1 .. Len(wire) :
          wire[i].by \in Writers => wire[i].write <= count[wire[i].by]
    /\ \A w \in Writers : \A i \in 1 .. Len(wire) :
          pc[w] # "idle" /\ wire[i] = Unit(w) => wire[Len(wire)] = Unit(w)

LEMMA SerialInvInit == Init => SerialInv
BY DEF Init, SerialInv, Serialized

\* Appending what equals the last unit, or what is not on the stream yet, keeps
\* the writes contiguous.
LEMMA AppendSerialized ==
    ASSUME NEW S, NEW s \in Seq(S), NEW u \in S,
           \A i, j \in 1 .. Len(s) :
               (i < j /\ s[i] = s[j]) => \A k \in i .. j : s[k] = s[i],
           \A i \in 1 .. Len(s) : s[i] = u => s[Len(s)] = u
    PROVE  \A i, j \in 1 .. Len(Append(s, u)) :
               (i < j /\ Append(s, u)[i] = Append(s, u)[j]) =>
                   \A k \in i .. j : Append(s, u)[k] = Append(s, u)[i]
<1> DEFINE t == Append(s, u)
           n == Len(s)
<1>1. /\ Len(t) = n + 1 /\ n \in Nat
      /\ \A i \in 1 .. n : t[i] = s[i]
      /\ t[n + 1] = u
  BY AppendFacts
<1> SUFFICES ASSUME NEW i \in 1 .. n + 1, NEW j \in 1 .. n + 1, i < j, t[i] = t[j],
                    NEW k \in i .. j
             PROVE  t[k] = t[i]
  BY <1>1
<1> HIDE DEF t, n
<1>2. CASE j <= n
  <2>1. i \in 1 .. n /\ j \in 1 .. n /\ k \in 1 .. n
    BY <1>1, <1>2
  <2>2. s[i] = s[j]
    BY <1>1, <2>1
  <2>3. s[k] = s[i]
    BY <2>1, <2>2 DEF n
  <2> QED
    BY <1>1, <2>1, <2>3
<1>3. CASE j = n + 1
  <2>1. i \in 1 .. n /\ n \in 1 .. n /\ s[i] = u
    BY <1>1, <1>3
  <2>2. s[n] = u
    BY <2>1 DEF n
  <2>3. CASE k = n + 1
    BY <1>1, <2>1, <2>3
  <2>4. CASE k = i
    BY <2>4
  <2>5. CASE k # n + 1 /\ k # i
    <3>1. i < n /\ k \in i .. n /\ k \in 1 .. n
      BY <1>1, <1>3, <2>1, <2>5
    <3>2. s[k] = s[i]
      BY <2>1, <2>2, <3>1 DEF n
    <3> QED
      BY <1>1, <2>1, <3>1, <3>2
  <2> QED
    BY <2>3, <2>4, <2>5
<1> QED
  BY <1>1, <1>2, <1>3

\* The first two conjuncts of SerialInv and the position of the new message.
LEMMA AppendOwnUnit ==
    ASSUME TypeOK, SerialInv, NEW w \in Writers, pc[w] = "body",
           wire' = Append(wire, Unit(w)), UNCHANGED count
    PROVE  /\ Serialized'
           /\ \A i \in 1 .. Len(wire') :
                 wire'[i].by \in Writers => wire'[i].write <= count'[wire'[i].by]
           /\ wire'[Len(wire')] = Unit(w)
<1>1. wire \in Seq(Units) /\ Unit(w) \in Units
  BY UnitType DEF TypeOK, Units
<1>2. /\ Len(wire') = Len(wire) + 1 /\ Len(wire) \in Nat
      /\ \A i \in 1 .. Len(wire) : wire'[i] = wire[i]
      /\ wire'[Len(wire) + 1] = Unit(w)
  BY <1>1, AppendFacts
<1>3. \A i \in 1 .. Len(wire) : wire[i] = Unit(w) => wire[Len(wire)] = Unit(w)
  BY DEF SerialInv
<1>4. Serialized'
  <2> DEFINE Contiguous(s) ==
        \A i, j \in 1 .. Len(s) :
            (i < j /\ s[i] = s[j]) => \A k \in i .. j : s[k] = s[i]
  <2>1. Contiguous(wire)
    BY DEF SerialInv, Serialized
  <2>2. Contiguous(Append(wire, Unit(w)))
    BY <1>1, <1>3, <2>1, AppendSerialized
  <2> QED
    BY <2>2 DEF Serialized
<1>5. Unit(w).by = w /\ Unit(w).write = count[w] /\ count[w] \in Nat
  BY DEF Unit, TypeOK
<1>6. ASSUME NEW i \in 1 .. Len(wire'), wire'[i].by \in Writers
      PROVE  wire'[i].write <= count'[wire'[i].by]
  <2>1. CASE i = Len(wire) + 1
    BY <1>2, <1>5, <2>1
  <2>2. CASE i # Len(wire) + 1
    <3>1. i \in 1 .. Len(wire) /\ wire'[i] = wire[i]
      BY <1>2, <2>2
    <3> QED
      BY <1>6, <3>1 DEF SerialInv
  <2> QED
    BY <2>1, <2>2
<1> QED
  BY <1>2, <1>4, <1>6

LEMMA SerialInvNext ==
    TypeOK /\ HeaderInv /\ SerialInv /\ [Next]_vars => SerialInv'
<1> SUFFICES ASSUME TypeOK, HeaderInv, SerialInv, [Next]_vars PROVE SerialInv'
  OBVIOUS
<1> USE SendAssumption DEF SendAssumption
<1>1. ASSUME NEW w \in Writers, SendHeader(w) PROVE SerialInv'
  <2>1. wire \in Seq(Units) /\ HeaderUnit \in Units
    BY UnitType DEF TypeOK, Units
  <2>2. /\ Len(wire') = Len(wire) + 1 /\ Len(wire) \in Nat
        /\ \A i \in 1 .. Len(wire) : wire'[i] = wire[i]
        /\ wire'[Len(wire) + 1] = HeaderUnit
        /\ wire' = Append(wire, HeaderUnit) /\ UNCHANGED <<pc, count>>
    BY <1>1, <2>1, AppendFacts DEF SendHeader
  <2>3. \A i \in 1 .. Len(wire) : wire[i] = HeaderUnit
    BY <1>1 DEF SendHeader, HeaderInv, TypeOK
  <2>4. \A i \in 1 .. Len(wire') : wire'[i] = HeaderUnit
    BY <2>2, <2>3
  <2>5. HeaderUnit.by = NoOne /\ \A x \in Writers : Unit(x)' # HeaderUnit
    <3>1. \A x \in Writers : Unit(x)'.by = x
      BY DEF Unit
    <3> QED
      BY <3>1 DEF HeaderUnit
  <2>6. Serialized'
    BY <2>4 DEF Serialized
  <2> QED
    BY <2>4, <2>5, <2>6 DEF SerialInv
<1>2. ASSUME NEW w \in Writers, SendMessage(w) PROVE SerialInv'
  <2>1. pc[w] = "body" /\ wire' = Append(wire, Unit(w)) /\ UNCHANGED <<pc, count>>
    BY <1>2 DEF SendMessage
  <2>2. /\ Serialized'
        /\ \A i \in 1 .. Len(wire') :
              wire'[i].by \in Writers => wire'[i].write <= count'[wire'[i].by]
        /\ wire'[Len(wire')] = Unit(w)
    BY <2>1, AppendOwnUnit
  <2>3. \A x \in Writers : pc'[x] # "idle" => x = w /\ Unit(x)' = Unit(w)
    BY <2>1 DEF HeaderInv, Unit
  <2> QED
    BY <2>2, <2>3 DEF SerialInv
<1>3. ASSUME NEW w \in Writers, MessageFails(w) PROVE SerialInv'
  <2>1. \A x \in Writers : pc'[x] = "idle"
    BY <1>3 DEF MessageFails, HeaderInv, TypeOK
  <2>2. CASE UNCHANGED wire
    BY <1>3, <2>1, <2>2 DEF MessageFails, SerialInv, Serialized
  <2>3. CASE wire' = Append(wire, Unit(w))
    <3>1. pc[w] = "body" /\ UNCHANGED count
      BY <1>3 DEF MessageFails
    <3> QED
      BY <2>1, <2>3, <3>1, AppendOwnUnit DEF SerialInv
  <2> QED
    BY <1>3, <2>2, <2>3 DEF MessageFails
<1>4. ASSUME NEW w \in Writers, Lock(w) PROVE SerialInv'
  <2>1. \A x \in Writers : pc[x] = "idle"
    BY <1>4 DEF Lock, HeaderInv, TypeOK
  <2>2. /\ wire' = wire
        /\ \A x \in Writers : count'[x] \in Nat /\ count[x] \in Nat /\ count'[x] >= count[x]
        /\ count'[w] = count[w] + 1
        /\ \A x \in Writers : pc'[x] # "idle" => x = w
    BY <1>4, <2>1 DEF Lock, TypeOK
  <2>3. \A i \in 1 .. Len(wire) : wire[i].write \in Nat
    <3>1. wire \in Seq(Units)
      BY DEF TypeOK, Units
    <3>2. \A i \in 1 .. Len(wire) : wire[i] \in Units
      BY <3>1
    <3> QED
      BY <3>2 DEF Units
  <2>4. \A i \in 1 .. Len(wire') :
           wire'[i].by \in Writers => wire'[i].write <= count'[wire'[i].by]
    BY <2>2, <2>3 DEF SerialInv
  <2>5. Unit(w)'.by = w /\ Unit(w)'.write = count[w] + 1
    BY <2>2 DEF Unit
  <2>6. \A i \in 1 .. Len(wire) : wire[i] # Unit(w)'
    BY <2>2, <2>3, <2>5 DEF SerialInv
  <2>7. Serialized'
    BY <2>2 DEF Serialized, SerialInv
  <2> QED
    BY <2>2, <2>4, <2>6, <2>7 DEF SerialInv
<1>5. ASSUME NEW w \in Writers, HeaderSent(w) \/ HeaderFails(w) \/ Return(w)
      PROVE  SerialInv'
  <2>1. wire' = wire /\ count' = count
        /\ \A x \in Writers : pc'[x] # "idle" => pc[x] # "idle"
    BY <1>5 DEF HeaderSent, HeaderFails, Return, TypeOK
  <2> QED
    BY <2>1 DEF SerialInv, Serialized, Unit
<1>6. CASE Close \/ UNCHANGED vars
  BY <1>6 DEF Close, vars, SerialInv, Serialized, Unit
<1> QED
  BY <1>1, <1>2, <1>3, <1>4, <1>5, <1>6 DEF Next

\* The messages of a write are contiguous on the stream, for any number of
\* goroutines that write and of messages they write.
THEOREM WritesAreSerialized == Spec => []Serialized
<1>1. SerialInv => Serialized
  BY DEF SerialInv
<1> QED
  BY <1>1, InitType, NextType, HeaderInvInit, HeaderInvNext, SerialInvInit,
     SerialInvNext, PTL DEF Spec

-----------------------------------------------------------------------------
(* The Rust channel *)

RustUnits == [by : Tasks \cup {NoOne}, write : Nat]

\* The header is taken once, and by the task that takes it written once.
HeaderTakenInv ==
    /\ header = 1 => \A w \in Tasks : pc[w] \in {"idle", "take"}
    /\ \A v, w \in Tasks : pc[v] = "header" /\ pc[w] = "header" => v = w
    /\ header = 1 \/ (\E w \in Tasks : pc[w] = "header") =>
          \A i \in 1 .. Len(wire) : wire[i] # Rust!HeaderUnit

\* A write that holds the lock and has sent something was the last to send; one that does
\* not hold it yet has sent nothing.
RustSerialInv ==
    /\ Serialized
    /\ \A i \in 1 .. Len(wire) :
          wire[i].by \in Tasks => wire[i].write <= count[wire[i].by]
    /\ \A w \in Tasks : \A i \in 1 .. Len(wire) :
          pc[w] = "writing" /\ wire[i] = Rust!Unit(w) => wire[Len(wire)] = Rust!Unit(w)
    /\ \A w \in Tasks : \A i \in 1 .. Len(wire) :
          pc[w] \in {"take", "header", "body"} => wire[i] # Rust!Unit(w)

\* Until the first write of Main has returned there is no other write, so it is Main that
\* takes the header; unless the stream fails, the header is there before anything else.
SpawnInv ==
    /\ count[Main] = 0 => pc[Main] = "idle"
    /\ ~Rust!Spawned => \A w \in Tasks \ {Main} : pc[w] = "idle"
    /\ Rust!Spawned => header = 0
    /\ \A w \in Tasks : pc[w] = "header" => ~Rust!Spawned /\ header = 0

RustHeaderInv ==
    /\ IF header = 1 \/ pc[Main] = "header" THEN wire = <<>>
                                            ELSE Len(wire) >= HeaderLen \/ stream = "shut"
    /\ \A i \in 1 .. Len(wire) : i <= HeaderLen => wire[i] = Rust!HeaderUnit
    /\ \A i \in 1 .. Len(wire) : i > HeaderLen => wire[i].by \in Tasks

\* The header is written as one block.
LEMMA BlockFacts ==
    ASSUME NEW S, NEW s \in Seq(S), NEW u \in S, NEW n \in Nat
    PROVE  LET t == s \o [i \in 1 .. n |-> u]
           IN  /\ t \in Seq(S)
               /\ Len(s) \in Nat
               /\ Len(t) = Len(s) + n
               /\ \A i \in 1 .. Len(s) : t[i] = s[i]
               /\ \A i \in Len(s) + 1 .. Len(s) + n : t[i] = u
<1>1. [i \in 1 .. n |-> u] \in Seq(S) /\ Len([i \in 1 .. n |-> u]) = n
  OBVIOUS
<1>2. \A i \in 1 .. n : [j \in 1 .. n |-> u][i] = u
  OBVIOUS
<1>. QED
  BY <1>1, <1>2

LEMMA RustUnitType ==
    ASSUME Rust!TypeOK, NEW w \in Tasks
    PROVE  Rust!Unit(w) \in RustUnits /\ Rust!HeaderUnit \in RustUnits
BY DEF Rust!TypeOK, RustUnits, Rust!Unit, Rust!HeaderUnit

LEMMA RustInitType == Rust!Init => Rust!TypeOK
BY TasksAssumption DEF TasksAssumption, Rust!Init, Rust!TypeOK

LEMMA RustNextType == Rust!TypeOK /\ [Rust!Next]_(Rust!vars) => Rust!TypeOK'
<1>. SUFFICES ASSUME Rust!TypeOK, [Rust!Next]_(Rust!vars) PROVE Rust!TypeOK'
  OBVIOUS
<1>0. NoOne \notin Tasks /\ HeaderLen \in Nat /\ MaxMessages \in Nat
  BY TasksAssumption, SendAssumption DEF TasksAssumption, SendAssumption
<1>1. ASSUME NEW w \in Tasks, Rust!Begin(w) PROVE Rust!TypeOK'
  <2>1. left' \in [Tasks -> Nat]
    BY <1>0, <1>1 DEF Rust!Begin, Rust!TypeOK
  <2>. QED
    BY <1>1, <2>1 DEF Rust!Begin, Rust!TypeOK
<1>2. ASSUME NEW w \in Tasks, Rust!TakeHeader(w) PROVE Rust!TypeOK'
  BY <1>2 DEF Rust!TakeHeader, Rust!TypeOK
<1>3. ASSUME NEW w \in Tasks, Rust!WriteHeader(w) PROVE Rust!TypeOK'
  <2>0. wire \in Seq(RustUnits) /\ Rust!HeaderUnit \in RustUnits
    BY RustUnitType DEF Rust!TypeOK, RustUnits
  <2>1. wire' \in Seq(RustUnits)
    BY <1>0, <1>3, <2>0, BlockFacts DEF Rust!WriteHeader
  <2>. QED
    BY <1>3, <2>1 DEF Rust!WriteHeader, Rust!TypeOK, RustUnits
<1>4. ASSUME NEW w \in Tasks, Rust!LockSend(w) PROVE Rust!TypeOK'
  BY <1>0, <1>4 DEF Rust!LockSend, Rust!TypeOK
<1>5. ASSUME NEW w \in Tasks, Rust!WriteMessage(w) PROVE Rust!TypeOK'
  <2>1. wire' \in Seq(RustUnits)
    BY <1>5, RustUnitType, AppendFacts DEF Rust!WriteMessage, Rust!TypeOK, RustUnits
  <2>. QED
    BY <1>5, <2>1 DEF Rust!WriteMessage, Rust!TypeOK, RustUnits
<1>6. ASSUME NEW w \in Tasks, Rust!Return(w) \/ Rust!SendDatagram(w) PROVE Rust!TypeOK'
  BY <1>0, <1>6 DEF Rust!Return, Rust!SendDatagram, Rust!TypeOK
<1>7. ASSUME NEW w \in Tasks, Rust!WriteFails(w) PROVE Rust!TypeOK'
  BY <1>0, <1>7 DEF Rust!WriteFails, Rust!TypeOK
<1>8. CASE Rust!Close
  BY <1>8 DEF Rust!Close, Rust!TypeOK
<1>9. CASE UNCHANGED Rust!vars
  BY <1>9 DEF Rust!vars, Rust!TypeOK
<1>. QED
  BY <1>1, <1>2, <1>3, <1>4, <1>5, <1>6, <1>7, <1>8, <1>9 DEF Rust!Next, Rust!Advance

-----------------------------------------------------------------------------

\* A unit is the header's or carries the task that wrote it.
LEMMA UnitsDiffer ==
    ASSUME NEW w \in Tasks
    PROVE  Rust!Unit(w) # Rust!HeaderUnit /\ Rust!Unit(w).by = w
           /\ Rust!Unit(w).write = count[w]
<1>1. Rust!Unit(w).by = w /\ Rust!Unit(w).write = count[w]
  BY DEF Rust!Unit
<1>2. Rust!HeaderUnit.by = NoOne /\ NoOne \notin Tasks
  BY TasksAssumption DEF TasksAssumption, Rust!HeaderUnit
<1>. QED
  BY <1>1, <1>2

LEMMA HeaderTakenInit == Rust!Init => HeaderTakenInv
BY DEF Rust!Init, HeaderTakenInv

LEMMA HeaderTakenNext ==
    Rust!TypeOK /\ HeaderTakenInv /\ [Rust!Next]_(Rust!vars) => HeaderTakenInv'
<1>. SUFFICES ASSUME Rust!TypeOK, HeaderTakenInv, [Rust!Next]_(Rust!vars)
              PROVE  HeaderTakenInv'
  OBVIOUS
<1>1. ASSUME NEW w \in Tasks, Rust!Begin(w) PROVE HeaderTakenInv'
  BY <1>1 DEF Rust!Begin, Rust!TypeOK, HeaderTakenInv
<1>2. ASSUME NEW w \in Tasks, Rust!TakeHeader(w) PROVE HeaderTakenInv'
  BY <1>2 DEF Rust!TakeHeader, Rust!TypeOK, HeaderTakenInv
<1>3. ASSUME NEW w \in Tasks, Rust!WriteHeader(w) PROVE HeaderTakenInv'
  <2>1. pc[w] = "header" /\ pc' = [pc EXCEPT ![w] = "body"] /\ header' = header
    BY <1>3 DEF Rust!WriteHeader
  <2>2. header' = 0 /\ \A v \in Tasks : pc'[v] # "header"
    BY <2>1 DEF HeaderTakenInv, Rust!TypeOK
  <2>. QED
    BY <2>2 DEF HeaderTakenInv
<1>4. ASSUME NEW w \in Tasks, Rust!WriteMessage(w) PROVE HeaderTakenInv'
  <2>1. /\ wire' = Append(wire, Rust!Unit(w)) /\ UNCHANGED <<header, pc>>
    BY <1>4 DEF Rust!WriteMessage
  <2>2. /\ Len(wire') = Len(wire) + 1 /\ Len(wire) \in Nat
        /\ \A i \in 1 .. Len(wire) : wire'[i] = wire[i]
        /\ wire'[Len(wire) + 1] = Rust!Unit(w)
    BY <2>1, AppendFacts, RustUnitType DEF Rust!TypeOK, RustUnits
  <2>3. Rust!Unit(w) # Rust!HeaderUnit
    BY UnitsDiffer
  <2>4. (\A i \in 1 .. Len(wire) : wire[i] # Rust!HeaderUnit) =>
            \A i \in 1 .. Len(wire') : wire'[i] # Rust!HeaderUnit
    BY <2>2, <2>3
  <2>. QED
    BY <2>1, <2>4 DEF HeaderTakenInv, Rust!HeaderUnit
<1>5. ASSUME NEW w \in Tasks, Rust!LockSend(w) \/ Rust!Return(w) \/ Rust!SendDatagram(w)
                              \/ Rust!WriteFails(w)
      PROVE  HeaderTakenInv'
  BY <1>5 DEF Rust!LockSend, Rust!Return, Rust!SendDatagram, Rust!WriteFails, Rust!TypeOK,
     HeaderTakenInv, Rust!HeaderUnit
<1>6. CASE Rust!Close \/ UNCHANGED Rust!vars
  BY <1>6 DEF Rust!Close, Rust!vars, HeaderTakenInv, Rust!HeaderUnit
<1>. QED
  BY <1>1, <1>2, <1>3, <1>4, <1>5, <1>6 DEF Rust!Next, Rust!Advance

-----------------------------------------------------------------------------
(* Writes are not interleaved, whichever tasks write first *)

\* A block of what is not on the stream yet keeps the writes contiguous.
LEMMA BlockSerialized ==
    ASSUME NEW S, NEW s \in Seq(S), NEW u \in S, NEW n \in Nat,
           \A i, j \in 1 .. Len(s) :
               (i < j /\ s[i] = s[j]) => \A k \in i .. j : s[k] = s[i],
           \A i \in 1 .. Len(s) : s[i] # u,
           NEW t, t = s \o [i \in 1 .. n |-> u]
    PROVE  \A i, j \in 1 .. Len(t) :
               (i < j /\ t[i] = t[j]) => \A k \in i .. j : t[k] = t[i]
<1>1. /\ Len(s) \in Nat /\ Len(t) = Len(s) + n
      /\ \A i \in 1 .. Len(s) : t[i] = s[i]
      /\ \A i \in Len(s) + 1 .. Len(s) + n : t[i] = u
  BY BlockFacts
<1>. DEFINE m == Len(s)
<1>. SUFFICES ASSUME NEW i \in 1 .. m + n, NEW j \in 1 .. m + n, i < j, t[i] = t[j],
                     NEW k \in i .. j
              PROVE  t[k] = t[i]
  BY <1>1
<1>2. CASE j <= m
  <2>1. i \in 1 .. m /\ j \in 1 .. m /\ k \in 1 .. m
    BY <1>1, <1>2
  <2>2. s[k] = s[i]
    BY <1>1, <2>1
  <2>. QED
    BY <1>1, <2>1, <2>2
<1>3. CASE j > m
  <2>1. t[i] = u /\ i \in 1 .. m + n
    BY <1>1, <1>3
  <2>2. i > m
    BY <1>1, <2>1
  <2>3. k \in m + 1 .. m + n
    BY <1>1, <2>2
  <2>. QED
    BY <1>1, <2>1, <2>3
<1>. QED
  BY <1>1, <1>2, <1>3

LEMMA RustSerialInit == Rust!Init => RustSerialInv
BY DEF Rust!Init, RustSerialInv, Serialized

LEMMA UnitsTyped ==
    ASSUME Rust!TypeOK
    PROVE  /\ wire \in Seq(RustUnits)
           /\ \A i \in 1 .. Len(wire) : wire[i].write \in Nat /\ wire[i] \in RustUnits
           /\ Len(wire) \in Nat
           /\ Rust!HeaderUnit \in RustUnits
<1>1. wire \in Seq(RustUnits)
  BY DEF Rust!TypeOK, RustUnits
<1>2. \A i \in 1 .. Len(wire) : wire[i] \in RustUnits
  BY <1>1
<1>. QED
  BY <1>1, <1>2 DEF RustUnits, Rust!HeaderUnit

\* A step that sends nothing and begins no write.
LEMMA SerialQuiet ==
    ASSUME RustSerialInv, UNCHANGED <<wire, count>>,
           \A w \in Tasks : pc'[w] = "writing" => pc[w] \in {"writing", "body"},
           \A w \in Tasks : pc'[w] \in {"take", "header", "body"} =>
                                pc[w] \in {"take", "header", "body"}
    PROVE  RustSerialInv'
<1>1. \A w \in Tasks : Rust!Unit(w)' = Rust!Unit(w)
  BY DEF Rust!Unit
<1>2. Serialized'
  BY DEF RustSerialInv, Serialized
<1>. QED
  BY <1>1, <1>2 DEF RustSerialInv

LEMMA RustSerialNext ==
    Rust!TypeOK /\ HeaderTakenInv /\ RustSerialInv /\ [Rust!Next]_(Rust!vars)
        => RustSerialInv'
<1>. SUFFICES ASSUME Rust!TypeOK, HeaderTakenInv, RustSerialInv, [Rust!Next]_(Rust!vars)
              PROVE  RustSerialInv'
  OBVIOUS
<1>0. NoOne \notin Tasks /\ HeaderLen \in Nat
  BY TasksAssumption, SendAssumption DEF TasksAssumption, SendAssumption
<1>1. ASSUME NEW w \in Tasks, Rust!Begin(w) PROVE RustSerialInv'
  <2>1. /\ pc[w] = "idle" /\ wire' = wire
        /\ \A x \in Tasks : count'[x] \in Nat /\ count[x] \in Nat /\ count'[x] >= count[x]
        /\ count'[w] = count[w] + 1
        /\ \A x \in Tasks \ {w} : count'[x] = count[x] /\ pc'[x] = pc[x]
        /\ pc'[w] = "take"
    BY <1>1 DEF Rust!Begin, Rust!TypeOK
  <2>2. Serialized'
    BY <2>1 DEF RustSerialInv, Serialized
  <2>3. \A i \in 1 .. Len(wire') :
           wire'[i].by \in Tasks => wire'[i].write <= count'[wire'[i].by]
    BY <2>1, UnitsTyped DEF RustSerialInv
  <2>4. Rust!Unit(w)'.by = w /\ Rust!Unit(w)'.write = count[w] + 1
    BY <2>1 DEF Rust!Unit
  <2>5. \A i \in 1 .. Len(wire) : wire[i] # Rust!Unit(w)'
    BY <2>1, <2>4, UnitsTyped DEF RustSerialInv
  <2>6. \A x \in Tasks \ {w} : Rust!Unit(x)' = Rust!Unit(x)
    BY <2>1 DEF Rust!Unit
  <2>7. \A x \in Tasks : \A i \in 1 .. Len(wire') :
           pc'[x] = "writing" /\ wire'[i] = Rust!Unit(x)' => wire'[Len(wire')] = Rust!Unit(x)'
    BY <2>1, <2>6 DEF RustSerialInv
  <2>8. \A x \in Tasks : \A i \in 1 .. Len(wire') :
           pc'[x] \in {"take", "header", "body"} => wire'[i] # Rust!Unit(x)'
    BY <2>1, <2>5, <2>6 DEF RustSerialInv
  <2>. QED
    BY <2>2, <2>3, <2>7, <2>8 DEF RustSerialInv
<1>2. ASSUME NEW w \in Tasks,
             \/ Rust!TakeHeader(w) \/ Rust!LockSend(w) \/ Rust!Return(w)
             \/ Rust!SendDatagram(w) \/ Rust!WriteFails(w)
      PROVE  RustSerialInv'
  <2>1. /\ UNCHANGED <<wire, count>>
        /\ \A x \in Tasks : pc'[x] = "writing" => pc[x] \in {"writing", "body"}
        /\ \A x \in Tasks : pc'[x] \in {"take", "header", "body"} =>
                                pc[x] \in {"take", "header", "body"}
    BY <1>2 DEF Rust!TakeHeader, Rust!LockSend, Rust!Return, Rust!SendDatagram,
       Rust!WriteFails, Rust!TypeOK
  <2>. QED
    BY <2>1, SerialQuiet
<1>3. ASSUME NEW w \in Tasks, Rust!WriteHeader(w) PROVE RustSerialInv'
  <2>1. /\ pc[w] = "header" /\ mutex = NoOne /\ UNCHANGED <<mutex, count>>
        /\ wire' = wire \o [i \in 1 .. HeaderLen |-> Rust!HeaderUnit]
        /\ pc' = [pc EXCEPT ![w] = "body"]
    BY <1>3 DEF Rust!WriteHeader
  <2>2. \A i \in 1 .. Len(wire) : wire[i] # Rust!HeaderUnit
    BY <2>1 DEF HeaderTakenInv
  <2>3. /\ Len(wire') = Len(wire) + HeaderLen /\ Len(wire) \in Nat
        /\ \A i \in 1 .. Len(wire) : wire'[i] = wire[i]
        /\ \A i \in Len(wire) + 1 .. Len(wire) + HeaderLen : wire'[i] = Rust!HeaderUnit
    BY <1>0, <2>1, UnitsTyped, BlockFacts
  <2>4. Serialized'
    <3>. DEFINE Contiguous(s) ==
           \A i, j \in 1 .. Len(s) :
               (i < j /\ s[i] = s[j]) => \A k \in i .. j : s[k] = s[i]
    <3>1. Contiguous(wire)
      BY DEF RustSerialInv, Serialized
    <3>2. Contiguous(wire')
      BY <1>0, <2>1, <2>2, <3>1, UnitsTyped, BlockSerialized
    <3>. QED
      BY <3>2 DEF Serialized
  <2>5. \A i \in 1 .. Len(wire') : i \in 1 .. Len(wire) \/ wire'[i] = Rust!HeaderUnit
    BY <1>0, <2>3
  <2>6. \A x \in Tasks : pc'[x] # "writing"
    BY <1>0, <2>1 DEF Rust!TypeOK
  <2>7. \A x \in Tasks : Rust!Unit(x)' = Rust!Unit(x) /\ Rust!Unit(x) # Rust!HeaderUnit
    BY <2>1, UnitsDiffer DEF Rust!Unit
  <2>8. \A x \in Tasks : pc'[x] \in {"take", "header", "body"} =>
                             pc[x] \in {"take", "header", "body"}
    BY <2>1 DEF Rust!TypeOK
  <2>9. \A i \in 1 .. Len(wire') :
           wire'[i].by \in Tasks => wire'[i].write <= count'[wire'[i].by]
    <3>1. Rust!HeaderUnit.by = NoOne
      BY DEF Rust!HeaderUnit
    <3>. QED
      BY <1>0, <2>1, <2>3, <2>5, <3>1 DEF RustSerialInv
  <2>10. \A x \in Tasks : \A i \in 1 .. Len(wire') :
            pc'[x] \in {"take", "header", "body"} => wire'[i] # Rust!Unit(x)'
    BY <2>3, <2>5, <2>7, <2>8 DEF RustSerialInv
  <2>. QED
    BY <2>4, <2>6, <2>9, <2>10 DEF RustSerialInv
<1>4. ASSUME NEW w \in Tasks, Rust!WriteMessage(w) PROVE RustSerialInv'
  <2>1. pc[w] = "writing" /\ wire' = Append(wire, Rust!Unit(w)) /\ UNCHANGED <<pc, count>>
    BY <1>4 DEF Rust!WriteMessage
  <2>2. Rust!Unit(w) \in RustUnits /\ wire \in Seq(RustUnits)
    BY RustUnitType, UnitsTyped
  <2>3. /\ Len(wire') = Len(wire) + 1 /\ Len(wire) \in Nat
        /\ \A i \in 1 .. Len(wire) : wire'[i] = wire[i]
        /\ wire'[Len(wire) + 1] = Rust!Unit(w)
    BY <2>1, <2>2, AppendFacts
  <2>4. Serialized'
    <3>. DEFINE Contiguous(s) ==
           \A i, j \in 1 .. Len(s) :
               (i < j /\ s[i] = s[j]) => \A k \in i .. j : s[k] = s[i]
    <3>1. Contiguous(wire)
      BY DEF RustSerialInv, Serialized
    <3>2. \A i \in 1 .. Len(wire) : wire[i] = Rust!Unit(w) => wire[Len(wire)] = Rust!Unit(w)
      BY <2>1 DEF RustSerialInv
    <3>3. Contiguous(Append(wire, Rust!Unit(w)))
      BY <2>2, <3>1, <3>2, AppendSerialized
    <3>. QED
      BY <2>1, <3>3 DEF Serialized
  <2>5. \A x \in Tasks : /\ Rust!Unit(x)' = Rust!Unit(x)
                         /\ Rust!Unit(x).by = x /\ Rust!Unit(x).write = count[x]
    BY <2>1, UnitsDiffer DEF Rust!Unit
  <2>6. \A x \in Tasks : pc'[x] = "writing" => x = w
    BY <1>0, <2>1 DEF Rust!TypeOK
  <2>7. \A i \in 1 .. Len(wire') : i \in 1 .. Len(wire) \/ i = Len(wire) + 1
    BY <2>3
  <2>8. \A i \in 1 .. Len(wire') :
           wire'[i].by \in Tasks => wire'[i].write <= count'[wire'[i].by]
    <3>1. count[w] \in Nat
      BY DEF Rust!TypeOK
    <3>. QED
      BY <2>1, <2>3, <2>5, <2>7, <3>1 DEF RustSerialInv
  <2>9. \A x \in Tasks : \A i \in 1 .. Len(wire') :
           pc'[x] \in {"take", "header", "body"} => wire'[i] # Rust!Unit(x)'
    <3>1. \A x \in Tasks : pc'[x] \in {"take", "header", "body"} => Rust!Unit(x) # Rust!Unit(w)
      BY <2>1, <2>5
    <3>. QED
      BY <2>1, <2>3, <2>5, <2>7, <3>1 DEF RustSerialInv
  <2>10. \A x \in Tasks : \A i \in 1 .. Len(wire') :
            pc'[x] = "writing" /\ wire'[i] = Rust!Unit(x)' => wire'[Len(wire')] = Rust!Unit(x)'
    BY <2>3, <2>5, <2>6
  <2>. QED
    BY <2>4, <2>8, <2>9, <2>10 DEF RustSerialInv
<1>5. CASE Rust!Close \/ UNCHANGED Rust!vars
  BY <1>5, SerialQuiet DEF Rust!Close, Rust!vars
<1>. QED
  BY <1>1, <1>2, <1>3, <1>4, <1>5 DEF Rust!Next, Rust!Advance

-----------------------------------------------------------------------------
(* The header of the Rust channel, when only Main writes before its first  *)
(* write has returned                                                      *)

LEMMA SpawnInit == Rust!Init => SpawnInv
BY TasksAssumption DEF TasksAssumption, Rust!Init, SpawnInv, Rust!Spawned

LEMMA SpawnNext ==
    ASSUME Eager = {Main}
    PROVE  Rust!TypeOK /\ HeaderTakenInv /\ SpawnInv /\ [Rust!Next]_(Rust!vars) => SpawnInv'
<1>. SUFFICES ASSUME Rust!TypeOK, HeaderTakenInv, SpawnInv, [Rust!Next]_(Rust!vars)
              PROVE  SpawnInv'
  OBVIOUS
<1>0. Main \in Tasks /\ count[Main] \in Nat /\ NoOne \notin Tasks
  BY TasksAssumption DEF TasksAssumption, Rust!TypeOK
<1>1. ASSUME NEW w \in Tasks, Rust!Begin(w) PROVE SpawnInv'
  <2>1. /\ pc[w] = "idle" /\ pc' = [pc EXCEPT ![w] = "take"]
        /\ count' = [count EXCEPT ![w] = @ + 1] /\ header' = header
        /\ w = Main \/ Rust!Spawned
    BY <1>1 DEF Rust!Begin
  <2>2. CASE w = Main
    <3>1. pc'[Main] = "take" /\ count'[Main] = count[Main] + 1
          /\ \A x \in Tasks \ {Main} : pc'[x] = pc[x]
      BY <1>0, <2>1, <2>2 DEF Rust!TypeOK
    <3>2. Rust!Spawned' <=> count[Main] > 0
      BY <1>0, <3>1 DEF Rust!Spawned
    <3>3. Rust!Spawned <=> count[Main] > 0
      BY <1>0, <2>1, <2>2 DEF Rust!Spawned
    <3>4. \A x \in Tasks : pc'[x] = "header" => pc[x] = "header"
      BY <3>1
    <3>. QED
      BY <1>0, <2>1, <3>1, <3>2, <3>3, <3>4 DEF SpawnInv
  <2>3. CASE w # Main
    <3>1. pc'[Main] = pc[Main] /\ count'[Main] = count[Main] /\ Rust!Spawned
          /\ \A x \in Tasks : pc'[x] = "header" => pc[x] = "header"
      BY <1>0, <2>1, <2>3 DEF Rust!TypeOK
    <3>2. Rust!Spawned' <=> Rust!Spawned
      BY <3>1 DEF Rust!Spawned
    <3>. QED
      BY <2>1, <3>1, <3>2 DEF SpawnInv
  <2>. QED
    BY <2>2, <2>3
<1>2. ASSUME NEW w \in Tasks, Rust!TakeHeader(w) PROVE SpawnInv'
  <2>1. /\ pc[w] = "take" /\ header' = 0 /\ count' = count
        /\ pc' = [pc EXCEPT ![w] = IF header = 1 THEN "header" ELSE "body"]
    BY <1>2 DEF Rust!TakeHeader
  <2>2. pc'[Main] = "idle" <=> pc[Main] = "idle"
    BY <1>0, <2>1 DEF Rust!TypeOK
  <2>3. Rust!Spawned' <=> Rust!Spawned
    BY <2>1, <2>2 DEF Rust!Spawned
  <2>4. \A x \in Tasks \ {Main} : pc[x] = "idle" => pc'[x] = "idle"
    BY <2>1 DEF Rust!TypeOK
  <2>5. \A x \in Tasks : pc'[x] = "header" => header = 1 \/ pc[x] = "header"
    BY <2>1 DEF Rust!TypeOK
  <2>. QED
    BY <2>1, <2>2, <2>3, <2>4, <2>5 DEF SpawnInv
<1>3. ASSUME NEW w \in Tasks,
             \/ Rust!WriteHeader(w) \/ Rust!LockSend(w) \/ Rust!WriteMessage(w)
             \/ Rust!Return(w) \/ Rust!SendDatagram(w) \/ Rust!WriteFails(w)
      PROVE  SpawnInv'
  <2>1. /\ pc[w] \in {"header", "body", "writing"} /\ UNCHANGED <<header, count>>
        /\ \E p \in {"idle", "body", "writing"} : pc' = [pc EXCEPT ![w] = p]
    BY <1>3 DEF Rust!WriteHeader, Rust!LockSend, Rust!WriteMessage, Rust!Return,
       Rust!SendDatagram, Rust!WriteFails, Rust!TypeOK
  <2>2. header = 0
    BY <2>1 DEF HeaderTakenInv, Rust!TypeOK
  <2>3. \A x \in Tasks : /\ pc[x] = "idle" => pc'[x] = "idle"
                         /\ pc'[x] = "header" => pc[x] = "header" /\ x # w
    BY <2>1 DEF Rust!TypeOK
  <2>4. \A x \in Tasks : pc'[x] = "header" => ~Rust!Spawned /\ ~Rust!Spawned'
    <3>. SUFFICES ASSUME NEW x \in Tasks, pc'[x] = "header"
                  PROVE  ~Rust!Spawned /\ ~Rust!Spawned'
      OBVIOUS
    <3>1. pc[x] = "header" /\ ~Rust!Spawned /\ x # w
      BY <2>3 DEF SpawnInv
    <3>2. pc[x] # "idle" /\ pc[w] # "idle"
      BY <2>1, <3>1
    <3>3. x = Main /\ w = Main
      BY <3>1, <3>2 DEF SpawnInv
    <3>. QED
      BY <3>1, <3>3
  <2>5. Rust!Spawned => Rust!Spawned'
    BY <1>0, <2>1, <2>3 DEF Rust!Spawned
  <2>. QED
    BY <1>0, <2>1, <2>2, <2>3, <2>4, <2>5 DEF SpawnInv
<1>4. CASE Rust!Close \/ UNCHANGED Rust!vars
  BY <1>4 DEF Rust!Close, Rust!vars, SpawnInv, Rust!Spawned
<1>. QED
  BY <1>1, <1>2, <1>3, <1>4 DEF Rust!Next, Rust!Advance

LEMMA RustHeaderInit == Rust!Init => RustHeaderInv
BY DEF Rust!Init, RustHeaderInv

\* A step that sends nothing, leaves the header where it is and reopens no stream.
LEMMA HeaderQuiet ==
    ASSUME RustHeaderInv, UNCHANGED <<wire, header>>,
           pc'[Main] = "header" <=> pc[Main] = "header",
           stream = "shut" => stream' = "shut"
    PROVE  RustHeaderInv'
BY DEF RustHeaderInv, Rust!HeaderUnit

LEMMA RustHeaderNext ==
    Rust!TypeOK /\ HeaderTakenInv /\ SpawnInv /\ RustHeaderInv /\ [Rust!Next]_(Rust!vars)
        => RustHeaderInv'
<1>. SUFFICES ASSUME Rust!TypeOK, HeaderTakenInv, SpawnInv, RustHeaderInv,
                     [Rust!Next]_(Rust!vars)
              PROVE  RustHeaderInv'
  OBVIOUS
<1>0. Main \in Tasks /\ NoOne \notin Tasks /\ HeaderLen \in Nat
  BY TasksAssumption, SendAssumption DEF TasksAssumption, SendAssumption
<1>1. \A w \in Tasks : pc[w] = "header" => w = Main
  BY DEF SpawnInv
<1>2. ASSUME NEW w \in Tasks,
             \/ Rust!Begin(w) \/ Rust!LockSend(w) \/ Rust!Return(w) \/ Rust!SendDatagram(w)
      PROVE  RustHeaderInv'
  <2>1. /\ UNCHANGED <<wire, header, stream>> /\ pc[w] # "header"
        /\ \E p \in {"idle", "take", "writing"} : pc' = [pc EXCEPT ![w] = p]
    BY <1>2 DEF Rust!Begin, Rust!LockSend, Rust!Return, Rust!SendDatagram
  <2>2. pc'[Main] = "header" <=> pc[Main] = "header"
    BY <1>0, <2>1 DEF Rust!TypeOK
  <2>. QED
    BY <2>1, <2>2, HeaderQuiet
<1>3. ASSUME NEW w \in Tasks, Rust!TakeHeader(w) PROVE RustHeaderInv'
  <2>1. /\ pc[w] = "take" /\ header' = 0 /\ UNCHANGED <<wire, stream>>
        /\ pc' = [pc EXCEPT ![w] = IF header = 1 THEN "header" ELSE "body"]
    BY <1>3 DEF Rust!TakeHeader
  <2>2. CASE header = 1
    <3>1. ~Rust!Spawned /\ w = Main
      BY <2>1, <2>2 DEF SpawnInv
    <3>2. pc'[Main] = "header" /\ wire' = <<>>
      BY <1>0, <2>1, <2>2, <3>1 DEF Rust!TypeOK, RustHeaderInv
    <3>. QED
      BY <3>2 DEF RustHeaderInv
  <2>3. CASE header # 1
    <3>1. header = 0 /\ pc'[Main] = "header" <=> pc[Main] = "header"
      BY <1>0, <2>1, <2>3 DEF Rust!TypeOK
    <3>. QED
      BY <2>1, <2>3, <3>1, HeaderQuiet DEF Rust!TypeOK
  <2>. QED
    BY <2>2, <2>3
<1>4. ASSUME NEW w \in Tasks, Rust!WriteHeader(w) PROVE RustHeaderInv'
  <2>1. /\ pc[w] = "header" /\ UNCHANGED header
        /\ wire' = wire \o [i \in 1 .. HeaderLen |-> Rust!HeaderUnit]
        /\ pc' = [pc EXCEPT ![w] = "body"]
    BY <1>4 DEF Rust!WriteHeader
  <2>2. w = Main /\ header' = 0 /\ pc'[Main] = "body"
    BY <1>0, <1>1, <2>1 DEF HeaderTakenInv, Rust!TypeOK
  <2>3. wire = <<>> /\ Len(wire) = 0
    BY <2>1, <2>2 DEF RustHeaderInv
  <2>4. /\ Len(wire') = HeaderLen
        /\ \A i \in 1 .. HeaderLen : wire'[i] = Rust!HeaderUnit
    <3>1. /\ Len(wire') = Len(wire) + HeaderLen
          /\ \A i \in Len(wire) + 1 .. Len(wire) + HeaderLen : wire'[i] = Rust!HeaderUnit
      BY <1>0, <2>1, UnitsTyped, BlockFacts
    <3>. QED
      BY <1>0, <2>3, <3>1
  <2>5. Rust!HeaderUnit' = Rust!HeaderUnit
    BY DEF Rust!HeaderUnit
  <2>. QED
    BY <1>0, <2>2, <2>4, <2>5 DEF RustHeaderInv
<1>5. ASSUME NEW w \in Tasks, Rust!WriteMessage(w) PROVE RustHeaderInv'
  <2>1. /\ pc[w] = "writing" /\ wire' = Append(wire, Rust!Unit(w)) /\ stream = "open"
        /\ UNCHANGED <<pc, header>>
    BY <1>5 DEF Rust!WriteMessage
  <2>2. header = 0 /\ pc[Main] # "header"
    BY <1>0, <2>1 DEF HeaderTakenInv, SpawnInv, Rust!TypeOK
  <2>3. Len(wire) >= HeaderLen
    BY <2>1, <2>2 DEF RustHeaderInv
  <2>4. /\ Len(wire') = Len(wire) + 1 /\ Len(wire) \in Nat
        /\ \A i \in 1 .. Len(wire) : wire'[i] = wire[i]
        /\ wire'[Len(wire) + 1] = Rust!Unit(w)
    BY <2>1, UnitsTyped, RustUnitType, AppendFacts
  <2>5. Rust!Unit(w).by = w /\ Rust!HeaderUnit' = Rust!HeaderUnit
    BY UnitsDiffer DEF Rust!HeaderUnit
  <2>6. \A i \in 1 .. Len(wire') : i \in 1 .. Len(wire) \/ i = Len(wire) + 1
    BY <2>4
  <2>7. \A i \in 1 .. Len(wire') : i <= HeaderLen => wire'[i] = Rust!HeaderUnit
    BY <1>0, <2>3, <2>4, <2>6 DEF RustHeaderInv
  <2>8. \A i \in 1 .. Len(wire') : i > HeaderLen => wire'[i].by \in Tasks
    BY <1>0, <2>4, <2>5, <2>6 DEF RustHeaderInv
  <2>9. Len(wire') >= HeaderLen
    BY <1>0, <2>3, <2>4
  <2>. QED
    BY <2>1, <2>2, <2>5, <2>7, <2>8, <2>9 DEF RustHeaderInv
<1>6. ASSUME NEW w \in Tasks, Rust!WriteFails(w) PROVE RustHeaderInv'
  <2>1. /\ pc[w] \in {"header", "writing"} /\ pc' = [pc EXCEPT ![w] = "idle"]
        /\ stream' = "shut" /\ UNCHANGED <<wire, header>>
    BY <1>6 DEF Rust!WriteFails
  <2>2. header' = 0 /\ header = 0
    BY <2>1 DEF HeaderTakenInv, Rust!TypeOK
  <2>3. pc'[Main] # "header"
    <3>1. CASE w = Main
      BY <1>0, <2>1, <3>1 DEF Rust!TypeOK
    <3>2. CASE w # Main
      BY <1>0, <2>1, <3>2 DEF SpawnInv, Rust!TypeOK
    <3>. QED
      BY <3>1, <3>2
  <2>. QED
    BY <2>1, <2>2, <2>3 DEF RustHeaderInv, Rust!HeaderUnit
<1>7. CASE Rust!Close \/ UNCHANGED Rust!vars
  BY <1>7, HeaderQuiet DEF Rust!Close, Rust!vars
<1>. QED
  BY <1>2, <1>3, <1>4, <1>5, <1>6, <1>7 DEF Rust!Next, Rust!Advance

LEMMA RustHeaderImplies == RustHeaderInv => HeaderFirst
BY TasksAssumption, SendAssumption
DEF TasksAssumption, SendAssumption, RustHeaderInv, HeaderFirst, Rust!HeaderUnit

-----------------------------------------------------------------------------
(* Both implementations *)

\* What holds of whichever implementation runs.
BothInv ==
    \/ impl = "go" /\ TypeOK /\ HeaderInv /\ SerialInv
    \/ impl = "rust" /\ Rust!TypeOK /\ HeaderTakenInv /\ RustSerialInv

\* A step of the run is a step of the implementation that was chosen.
LEMMA StepOfOne ==
    ASSUME [BothNext]_bothVars
    PROVE  /\ impl' = impl
           /\ impl = "go" => [Next]_vars
           /\ impl = "rust" => [Rust!Next]_(Rust!vars)
BY DEF BothNext, bothVars, vars, Rust!vars

LEMMA BothInvNext == BothInv /\ [BothNext]_bothVars => BothInv'
<1>. SUFFICES ASSUME BothInv, [BothNext]_bothVars PROVE BothInv'
  OBVIOUS
<1>1. CASE impl = "go"
  <2>1. impl' = "go" /\ [Next]_vars /\ TypeOK /\ HeaderInv /\ SerialInv
    BY <1>1, StepOfOne DEF BothInv
  <2>. QED
    BY <2>1, NextType, HeaderInvNext, SerialInvNext DEF BothInv
<1>2. CASE impl = "rust"
  <2>1. /\ impl' = "rust" /\ [Rust!Next]_(Rust!vars)
        /\ Rust!TypeOK /\ HeaderTakenInv /\ RustSerialInv
    BY <1>2, StepOfOne DEF BothInv
  <2>. QED
    BY <2>1, RustNextType, HeaderTakenNext, RustSerialNext DEF BothInv
<1>. QED
  BY <1>1, <1>2 DEF BothInv

\* The messages of a write are contiguous on the stream in both implementations,
\* for any number of writers: also in the Rust one, where any task may write
\* first and another may write between a task's header and its messages.
THEOREM BothSerialize == BothSpec => []Serialized
<1>1. BothInit => BothInv
  BY InitType, HeaderInvInit, SerialInvInit, RustInitType, HeaderTakenInit, RustSerialInit
  DEF BothInit, BothInv
<1>2. BothInv => Serialized
  BY DEF BothInv, SerialInv, RustSerialInv
<1>. QED
  BY <1>1, <1>2, BothInvNext, PTL DEF BothSpec

BothHeaderInv ==
    \/ impl = "go" /\ TypeOK /\ HeaderInv
    \/ impl = "rust" /\ Rust!TypeOK /\ HeaderTakenInv /\ SpawnInv /\ RustHeaderInv

\* The stream of a channel starts with its header, whole and once, in both
\* implementations; in the Rust one when, as in run_stdio_on_client, the other
\* tasks are spawned after the first write of the task that opened the channel
\* has returned.
THEOREM BothHeaderFirst ==
    ASSUME Eager = {Main}
    PROVE  BothSpec => []HeaderFirst
<1>1. BothInit => BothHeaderInv
  BY InitType, HeaderInvInit, RustInitType, HeaderTakenInit, SpawnInit, RustHeaderInit
  DEF BothInit, BothHeaderInv
<1>2. BothHeaderInv /\ [BothNext]_bothVars => BothHeaderInv'
  <2>. SUFFICES ASSUME BothHeaderInv, [BothNext]_bothVars PROVE BothHeaderInv'
    OBVIOUS
  <2>1. CASE impl = "go"
    <3>1. impl' = "go" /\ [Next]_vars /\ TypeOK /\ HeaderInv
      BY <2>1, StepOfOne DEF BothHeaderInv
    <3>. QED
      BY <3>1, NextType, HeaderInvNext DEF BothHeaderInv
  <2>2. CASE impl = "rust"
    <3>1. /\ impl' = "rust" /\ [Rust!Next]_(Rust!vars)
          /\ Rust!TypeOK /\ HeaderTakenInv /\ SpawnInv /\ RustHeaderInv
      BY <2>2, StepOfOne DEF BothHeaderInv
    <3>. QED
      BY <3>1, RustNextType, HeaderTakenNext, SpawnNext, RustHeaderNext DEF BothHeaderInv
  <2>. QED
    BY <2>1, <2>2 DEF BothHeaderInv
<1>3. BothHeaderInv => HeaderFirst
  BY HeaderInvImplies, RustHeaderImplies DEF BothHeaderInv
<1>. QED
  BY <1>1, <1>2, <1>3, PTL DEF BothSpec
=============================================================================
