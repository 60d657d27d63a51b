------------------------------ MODULE FramesProofs ------------------------------
(***************************************************************************)
(* The checksum, for every length of a frame, every set of identifiers and *)
(* every operation on bytes that keeps different bytes different: a frame  *)
(* with one wrong byte is never accepted, and one that arrives as it was   *)
(* sent always is.                                                         *)
(***************************************************************************)
EXTENDS Frames, FiniteSetTheorems, WellFoundedInduction, TLAPS

-----------------------------------------------------------------------------
(* Induction over a set of naturals.                                       *)

LEMMA LessFounded == IsWellFoundedOn({ss \in Nat \X Nat : ss[1] < ss[2]}, Nat)
  BY NatLessThanWellFounded DEF OpToRel

LEMMA Least ==
    ASSUME NEW T, T \subseteq Nat, T # {}
    PROVE  \E x \in T : \A y \in T : x <= y
<1> DEFINE R == {ss \in Nat \X Nat : ss[1] < ss[2]}
<1>1. IsWellFoundedOn(R, Nat)
  BY LessFounded
<1>2. PICK x \in T : \A y \in T : ~ (<<y, x>> \in R)
  <2> HIDE DEF R
  <2> QED
    BY <1>1, WFMin
<1>3. \A y \in T : ~(y < x)
  BY <1>2
<1> QED
  BY <1>2, <1>3

LEMMA Induction ==
    ASSUME NEW S \in SUBSET Nat, 0 \in S, \A n \in S : n + 1 \in S
    PROVE  S = Nat
<1> SUFFICES ASSUME S # Nat
             PROVE  FALSE
  OBVIOUS
<1> DEFINE T == Nat \ S
<1>1. PICK x \in T : \A y \in T : x <= y
  BY Least
<1>2. x # 0 /\ x \in Nat
  BY <1>1
<1>3. x - 1 \in Nat /\ x - 1 \notin T
  BY <1>1, <1>2
<1> QED
  BY <1>1, <1>2, <1>3

-----------------------------------------------------------------------------
(* What the loop of the checksum computes.                                 *)

\* sum is the checksum after each byte of the first n.
SumsOf(sum, id, data, n) ==
    /\ sum = [i \in 0 .. n |->
                IF i = 0 THEN LowByte(id) ELSE ByteXor(sum[i - 1], data[i - 1])]

\* There is such a function: of n + 1 bytes it goes on where that of n ends.
LEMMA SumsExist ==
    ASSUME NEW id, NEW data, NEW n \in Nat
    PROVE  \E sum : SumsOf(sum, id, data, n)
<1> DEFINE S == {m \in Nat : \E sum : SumsOf(sum, id, data, m)}
<1>1. 0 \in S
  <2> DEFINE sum == [i \in 0 .. 0 |-> LowByte(id)]
  <2>1. SumsOf(sum, id, data, 0)
    BY DEF SumsOf
  <2> QED
    BY <2>1
<1>2. ASSUME NEW m \in S
      PROVE  m + 1 \in S
  <2>1. PICK sum : SumsOf(sum, id, data, m)
    BY <1>2
  <2> DEFINE next == [i \in 0 .. m + 1 |->
                        IF i <= m THEN sum[i] ELSE ByteXor(sum[m], data[m])]
  <2>2. m \in Nat /\ m + 1 \in Nat
    BY <1>2
  <2>3. /\ DOMAIN sum = 0 .. m
        /\ \A i \in 0 .. m :
             sum[i] = IF i = 0 THEN LowByte(id)
                      ELSE ByteXor(sum[i - 1], data[i - 1])
    BY <2>1 DEF SumsOf
  <2>4. ASSUME NEW i \in 0 .. m + 1
        PROVE  next[i] = IF i = 0 THEN LowByte(id)
                         ELSE ByteXor(next[i - 1], data[i - 1])
    <3>1. CASE i = 0
      BY <2>2, <2>3, <3>1
    <3>2. CASE i \in 1 .. m
      <4>1. next[i] = sum[i] /\ next[i - 1] = sum[i - 1]
        BY <2>2, <3>2
      <4> QED
        BY <2>2, <2>3, <3>2, <4>1
    <3>3. CASE i = m + 1
      <4>1. next[i] = ByteXor(sum[m], data[m]) /\ next[m] = sum[m]
            /\ i - 1 = m /\ i # 0
        BY <2>2, <3>3
      <4> QED
        BY <4>1
    <3> QED
      BY <2>2, <3>1, <3>2, <3>3
  <2>5. SumsOf(next, id, data, m + 1)
    <3>1. next = [i \in 0 .. m + 1 |-> next[i]]
      OBVIOUS
    <3> HIDE DEF next
    <3> QED
      BY <2>4, <3>1 DEF SumsOf
  <2> QED
    BY <2>2, <2>5
<1>3. S = Nat
  <2>1. S \in SUBSET Nat
    OBVIOUS
  <2> HIDE DEF S
  <2> QED
    BY <1>1, <1>2, <2>1, Induction
<1> QED
  BY <1>3

LEMMA XorOfIs ==
    ASSUME NEW id, NEW data, NEW n \in Nat
    PROVE  \E sum : SumsOf(sum, id, data, n) /\ XorOf(id, data, n) = sum[n]
<1> DEFINE checksum == CHOOSE sum : SumsOf(sum, id, data, n)
<1>1. SumsOf(checksum, id, data, n)
  BY SumsExist
<1>2. XorOf(id, data, n) = checksum[n]
  BY DEF XorOf, SumsOf
<1> QED
  BY <1>1, <1>2

LEMMA SumStep ==
    ASSUME NEW id, NEW data, NEW n \in Nat, NEW sum, SumsOf(sum, id, data, n)
    PROVE  /\ sum[0] = LowByte(id)
           /\ \A i \in Nat : i + 1 <= n => sum[i + 1] = ByteXor(sum[i], data[i])
<1>1. \A i \in 0 .. n : sum[i] = IF i = 0 THEN LowByte(id)
                                 ELSE ByteXor(sum[i - 1], data[i - 1])
  BY DEF SumsOf
<1>2. ASSUME NEW i \in Nat, i + 1 <= n
      PROVE  sum[i + 1] = ByteXor(sum[i], data[i])
  <2>1. i + 1 \in 0 .. n /\ i + 1 # 0 /\ (i + 1) - 1 = i
    BY <1>2
  <2> QED
    BY <1>1, <2>1
<1> QED
  BY <1>1, <1>2

LEMMA LowByteIsByte ==
    ASSUME FrameAssumption, NEW id \in Nat
    PROVE  LowByte(id) \in Byte
  BY DEF FrameAssumption, LowByte, Byte

LEMMA SumsAreBytes ==
    ASSUME XorAssumption, NEW id, LowByte(id) \in Byte, NEW n \in Nat,
           NEW data, \A i \in 0 .. n - 1 : data[i] \in Byte,
           NEW sum, SumsOf(sum, id, data, n)
    PROVE  \A i \in 0 .. n : sum[i] \in Byte
<1>0. \A i \in Nat : i + 1 <= n => sum[i + 1] = ByteXor(sum[i], data[i])
  BY SumStep
<1> DEFINE S == {i \in Nat : i <= n => sum[i] \in Byte}
<1>1. 0 \in S
  BY SumStep
<1>2. ASSUME NEW i \in S
      PROVE  i + 1 \in S
  <2>1. CASE i + 1 <= n
    <3>1. sum[i] \in Byte /\ data[i] \in Byte
      BY <1>2, <2>1
    <3>2. sum[i + 1] = ByteXor(sum[i], data[i])
      <4>1. i \in Nat
        BY <1>2
      <4> QED
        BY <1>0, <2>1, <4>1
    <3> QED
      BY <3>1, <3>2 DEF XorAssumption
  <2>2. CASE ~(i + 1 <= n)
    BY <1>2, <2>2
  <2> QED
    BY <2>1, <2>2
<1>3. S = Nat
  <2>1. S \in SUBSET Nat
    OBVIOUS
  <2> HIDE DEF S
  <2> QED
    BY <1>1, <1>2, <2>1, Induction
<1> QED
  BY <1>3

\* The sums of two frames agree up to the first byte in which they differ.
LEMMA SumsAgree ==
    ASSUME NEW id, NEW n \in Nat, NEW d, NEW e,
           NEW s, NEW t, SumsOf(s, id, d, n), SumsOf(t, id, e, n)
    PROVE  \A i \in 0 .. n : (\A j \in 0 .. i - 1 : d[j] = e[j]) => s[i] = t[i]
<1>1. s[0] = t[0]
  <2>1. s[0] = LowByte(id)
    BY SumStep
  <2>2. t[0] = LowByte(id)
    BY SumStep
  <2> QED
    BY <2>1, <2>2
<1>2. \A i \in Nat : i + 1 <= n => s[i + 1] = ByteXor(s[i], d[i])
  BY SumStep
<1>6. \A i \in Nat : i + 1 <= n => t[i + 1] = ByteXor(t[i], e[i])
  BY SumStep
<1> DEFINE Same(i) == \A j \in 0 .. i - 1 : d[j] = e[j]
           S == {i \in Nat : i <= n /\ Same(i) => s[i] = t[i]}
<1>3. 0 \in S
  BY <1>1
<1>4. ASSUME NEW i \in S
      PROVE  i + 1 \in S
  <2> SUFFICES ASSUME i + 1 <= n, Same(i + 1)
               PROVE  s[i + 1] = t[i + 1]
    OBVIOUS
  <2>1. i \in Nat /\ Same(i) /\ d[i] = e[i]
    OBVIOUS
  <2>2. s[i] = t[i]
    BY <2>1
  <2>3. s[i + 1] = ByteXor(s[i], d[i])
    BY <1>2, <2>1
  <2>4. t[i + 1] = ByteXor(t[i], e[i])
    BY <1>6, <2>1
  <2> QED
    BY <2>1, <2>2, <2>3, <2>4
<1>5. S = Nat
  <2>1. S \in SUBSET Nat
    OBVIOUS
  <2> HIDE DEF S
  <2> QED
    BY <1>3, <1>4, <2>1, Induction
<1> SUFFICES ASSUME NEW i \in 0 .. n, \A j \in 0 .. i - 1 : d[j] = e[j]
             PROVE  s[i] = t[i]
  OBVIOUS
<1>7. i \in S /\ i <= n
  BY <1>5
<1> QED
  BY <1>7

\* Bytes that differ keep differing when the same byte is added to both, on
\* either side.
LEMMA XorDiffers ==
    ASSUME XorAssumption,
           NEW a \in Byte, NEW b \in Byte, NEW c \in Byte, a # b
    PROVE  ByteXor(a, c) # ByteXor(b, c) /\ ByteXor(c, a) # ByteXor(c, b)
  BY DEF XorAssumption

\* Behind a byte in which alone two frames differ, their sums differ.
LEMMA SumsDiffer ==
    ASSUME XorAssumption, NEW id, LowByte(id) \in Byte, NEW n \in Nat,
           NEW d, \A i \in 0 .. n - 1 : d[i] \in Byte,
           NEW e, \A i \in 0 .. n - 1 : e[i] \in Byte,
           NEW k \in 0 .. n - 1, d[k] # e[k],
           \A i \in 0 .. n - 1 : i # k => d[i] = e[i],
           NEW s, NEW t, SumsOf(s, id, d, n), SumsOf(t, id, e, n)
    PROVE  s[n] # t[n]
<1> DEFINE S == {i \in Nat : k < i /\ i <= n => s[i] # t[i]}
<1>1. \A i \in 0 .. n : s[i] \in Byte /\ t[i] \in Byte
  BY SumsAreBytes
<1>2. \A i \in 0 .. n : (\A j \in 0 .. i - 1 : d[j] = e[j]) => s[i] = t[i]
  BY SumsAgree
<1>3. 0 \in S
  OBVIOUS
<1>4. ASSUME NEW i \in S
      PROVE  i + 1 \in S
  <2> SUFFICES ASSUME k < i + 1, i + 1 <= n
               PROVE  s[i + 1] # t[i + 1]
    OBVIOUS
  <2>1. /\ s[i + 1] = ByteXor(s[i], d[i]) /\ t[i + 1] = ByteXor(t[i], e[i])
        /\ {s[i], t[i], d[i], e[i]} \subseteq Byte
    <3>1. i \in Nat /\ i \in 0 .. n /\ i \in 0 .. n - 1
      BY <1>4
    <3> HIDE DEF S
    <3>2. s[i + 1] = ByteXor(s[i], d[i])
      BY <3>1, SumStep
    <3>3. t[i + 1] = ByteXor(t[i], e[i])
      BY <3>1, SumStep
    <3> QED
      BY <1>1, <3>1, <3>2, <3>3
  <2>2. CASE k = i
    <3>1. \A j \in 0 .. i - 1 : d[j] = e[j]
      BY <2>2
    <3>2. s[i] = t[i]
      BY <1>2, <2>2, <3>1
    <3>3. d[i] # e[i]
      BY <2>2
    <3> QED
      BY <2>1, <3>2, <3>3, XorDiffers
  <2>3. CASE k < i
    <3>1. s[i] # t[i] /\ d[i] = e[i]
      BY <1>4, <2>3
    <3> QED
      BY <2>1, <3>1, XorDiffers
  <2> QED
    BY <2>2, <2>3
<1>5. S = Nat
  <2>1. S \in SUBSET Nat
    OBVIOUS
  <2> HIDE DEF S
  <2> QED
    BY <1>3, <1>4, <2>1, Induction
<1> QED
  BY <1>5

\* The checksum depends on nothing but the bytes before it.
LEMMA ChecksumAgrees ==
    ASSUME NEW id, NEW n \in Nat, NEW d, NEW e, \A i \in 0 .. n - 1 : d[i] = e[i]
    PROVE  XorOf(id, d, n) = XorOf(id, e, n)
<1>1. PICK s : SumsOf(s, id, d, n) /\ XorOf(id, d, n) = s[n]
  BY XorOfIs
<1>2. PICK t : SumsOf(t, id, e, n) /\ XorOf(id, e, n) = t[n]
  BY XorOfIs
<1>3. n \in 0 .. n
  OBVIOUS
<1>4. s[n] = t[n]
  <2>1. \A i \in 0 .. n : (\A j \in 0 .. i - 1 : d[j] = e[j]) => s[i] = t[i]
    <3>1. SumsOf(s, id, d, n) /\ SumsOf(t, id, e, n)
      BY <1>1, <1>2
    <3> QED
      BY <3>1, SumsAgree
  <2> QED
    BY <1>3, <2>1
<1> QED
  BY <1>1, <1>2, <1>4

\* It tells any two frames apart that differ in one byte.
LEMMA ChecksumDiffers ==
    ASSUME XorAssumption, NEW id, LowByte(id) \in Byte, NEW n \in Nat,
           NEW d, \A i \in 0 .. n - 1 : d[i] \in Byte,
           NEW e, \A i \in 0 .. n - 1 : e[i] \in Byte,
           NEW k \in 0 .. n - 1, d[k] # e[k],
           \A i \in 0 .. n - 1 : i # k => d[i] = e[i]
    PROVE  XorOf(id, d, n) # XorOf(id, e, n)
<1>1. PICK s : SumsOf(s, id, d, n) /\ XorOf(id, d, n) = s[n]
  BY XorOfIs
<1>2. PICK t : SumsOf(t, id, e, n) /\ XorOf(id, e, n) = t[n]
  BY XorOfIs
<1> QED
  BY <1>1, <1>2, SumsDiffer

LEMMA ChecksumIsByte ==
    ASSUME XorAssumption, NEW id, LowByte(id) \in Byte, NEW n \in Nat,
           NEW data, \A i \in 0 .. n - 1 : data[i] \in Byte
    PROVE  XorOf(id, data, n) \in Byte
<1>1. PICK s : SumsOf(s, id, data, n) /\ XorOf(id, data, n) = s[n]
  BY XorOfIs
<1>2. n \in 0 .. n
  OBVIOUS
<1> QED
  BY <1>1, <1>2, SumsAreBytes

-----------------------------------------------------------------------------
(* The frames.                                                             *)

Ids == Range(Monitored) \cup OtherIds \cup {StatusId, ResponseId}

\* What is on the bus was sent with the right checksum under its identifier.
SentRight ==
    frame # NoFrame =>
        /\ sent \in FrameType /\ sent.length = DLC
        /\ sent.data[CHECKSUM_BYTE] = XorOf(sent.id, sent.data, CHECKSUM_BYTE)
        /\ frame \in FrameType /\ frame.id = sent.id
        /\ frame.id \in Ids

IInv == TypeOK /\ SentRight

LEMMA IdsAreNat ==
    ASSUME FrameAssumption
    PROVE  Ids \subseteq Nat
<1>1. /\ Monitored \in Seq(Nat) /\ OtherIds \subseteq Nat
      /\ {StatusId, ResponseId} \subseteq Nat
  BY DEF FrameAssumption
<1>2. \A i \in DOMAIN Monitored : Monitored[i] \in Nat
  BY <1>1
<1> QED
  BY <1>1, <1>2 DEF Ids, Range

LEMMA FrameIsThere ==
    ASSUME FrameAssumption
    PROVE  /\ CHECKSUM_BYTE \in Nat \ {0} /\ DLC = CHECKSUM_BYTE + 1
           /\ Places = 0 .. CHECKSUM_BYTE /\ NoFrame \notin FrameType
  BY DEF FrameAssumption, DLC, Places, NoFrame, FrameType

LEMMA InitGood ==
    ASSUME Init
    PROVE  IInv
  BY DEF Init, IInv, TypeOK, SentRight

\* Whichever implementation computes it, a frame goes out with the checksum of
\* its identifier and its first bytes.
LEMMA SendGood ==
    ASSUME FrameAssumption, XorAssumption, IInv, NEW id \in Ids,
           NEW payload \in Payload, Send(id, payload, XorOf(id, payload, CHECKSUM_BYTE))
    PROVE  IInv'
<1> DEFINE checksum == XorOf(id, payload, CHECKSUM_BYTE)
           f == Prepared(id, payload, checksum)
<1>1. /\ CHECKSUM_BYTE \in Nat \ {0} /\ DLC = CHECKSUM_BYTE + 1
      /\ Places = 0 .. CHECKSUM_BYTE
  BY FrameIsThere
<1>2. id \in Nat /\ LowByte(id) \in Byte
  BY IdsAreNat, LowByteIsByte
<1>3. \A i \in 0 .. CHECKSUM_BYTE - 1 : payload[i] \in Byte
  BY DEF Payload
<1>4. checksum \in Byte
  BY <1>1, <1>2, <1>3, ChecksumIsByte
<1> HIDE DEF checksum
<1>5. /\ f.id = id /\ f.length = DLC /\ f.data[CHECKSUM_BYTE] = checksum
      /\ \A i \in 0 .. CHECKSUM_BYTE - 1 : f.data[i] = payload[i]
  BY <1>1 DEF Prepared
<1>6. f \in FrameType
  <2>1. \A i \in Places : (IF i < CHECKSUM_BYTE THEN payload[i] ELSE checksum) \in Byte
    BY <1>1, <1>3, <1>4
  <2> QED
    BY <1>2, <2>1 DEF Prepared, FrameType
<1>7. sent' = f /\ frame' = f /\ verdict' = "none"
  BY DEF Send, checksum
<1> HIDE DEF f
<1>8. XorOf(id, f.data, CHECKSUM_BYTE) = checksum
  BY <1>1, <1>5, ChecksumAgrees DEF checksum
<1>9. TypeOK'
  BY <1>6, <1>7 DEF TypeOK
<1>10. SentRight'
  BY <1>5, <1>6, <1>7, <1>8 DEF SentRight
<1> QED
  BY <1>9, <1>10 DEF IInv

\* A damaged frame is still a frame of the same identifier.
LEMMA DamageGood ==
    ASSUME FrameAssumption, IInv, frame # NoFrame, NEW f \in FrameType,
           f.id = frame.id, frame' = f, UNCHANGED <<sent, verdict>>
    PROVE  IInv'
  BY DEF IInv, TypeOK, SentRight

LEMMA HandledGood ==
    ASSUME IInv, frame' = NoFrame, sent' = sent,
           verdict' \in {"none", "blocked", "refused", "accepted"}
    PROVE  IInv'
  BY DEF IInv, TypeOK, SentRight

LEMMA StepGood ==
    ASSUME FrameAssumption, XorAssumption, IInv, [Next]_vars
    PROVE  IInv'
<1>1. ASSUME NEW payload \in Payload, NEW id \in Range(Monitored) \cup OtherIds,
             NodeSends(id, payload)
      PROVE  IInv'
  BY <1>1, SendGood DEF NodeSends, calcChecksum, Ids
<1>2. ASSUME NEW payload \in Payload, StatusSent(payload)
      PROVE  IInv'
  BY <1>2, SendGood DEF StatusSent, CalculateChecksum, Ids
<1>3. ASSUME NEW payload \in Payload, ResponseSent(payload)
      PROVE  IInv'
  BY <1>3, SendGood DEF ResponseSent, CalculateResponseChecksum, Ids
<1>4. ASSUME NEW i \in Places, NEW byte \in Byte, DamageByte(i, byte)
      PROVE  IInv'
  <2>1. frame # NoFrame /\ frame \in FrameType
    BY <1>4 DEF DamageByte, IInv, SentRight
  <2>2. /\ [frame EXCEPT !.data[i] = byte] \in FrameType
        /\ [frame EXCEPT !.data[i] = byte].id = frame.id
    BY <1>4, <2>1 DEF FrameType
  <2> QED
    BY <1>4, <2>1, <2>2, DamageGood DEF DamageByte
<1>5. ASSUME NEW byte \in Byte, CutOff(byte)
      PROVE  IInv'
  <2>1. frame # NoFrame /\ frame \in FrameType
    BY <1>5 DEF CutOff, IInv, SentRight
  <2> DEFINE f == [frame EXCEPT !.length = DLC - 1, !.data[CHECKSUM_BYTE] = byte]
  <2>2. f \in FrameType /\ f.id = frame.id
    BY <1>5, <2>1 DEF FrameType
  <2> QED
    BY <1>5, <2>1, <2>2, DamageGood DEF CutOff
<1>6. CASE HandleRxMessage
  <2>1. verdict' \in {"none", "blocked", "refused", "accepted"}
    BY <1>6 DEF HandleRxMessage
  <2> QED
    BY <1>6, <2>1, HandledGood DEF HandleRxMessage
<1>7. CASE PanelReceives
  <2>1. verdict' \in {"none", "blocked", "refused", "accepted"}
    BY <1>7 DEF PanelReceives
  <2> QED
    BY <1>7, <2>1, HandledGood DEF PanelReceives
<1>8. CASE UNCHANGED vars
  BY <1>8 DEF vars, IInv, TypeOK, SentRight
<1> QED
  BY <1>1, <1>2, <1>3, <1>4, <1>5, <1>6, <1>7, <1>8 DEF Next

-----------------------------------------------------------------------------
\* A frame that arrives as it was sent has the right checksum.
LEMMA WholeFrame ==
    ASSUME FrameAssumption, IInv, frame # NoFrame, Damage = {}
    PROVE  /\ frame.length = DLC
           /\ frame.data[CHECKSUM_BYTE] = XorOf(frame.id, frame.data, CHECKSUM_BYTE)
<1>1. /\ CHECKSUM_BYTE \in Nat \ {0} /\ Places = 0 .. CHECKSUM_BYTE
  BY FrameIsThere
<1>2. /\ \A i \in 0 .. CHECKSUM_BYTE : frame.data[i] = sent.data[i]
      /\ frame.length = sent.length
  BY <1>1 DEF Damage
<1>3. XorOf(sent.id, frame.data, CHECKSUM_BYTE) = XorOf(sent.id, sent.data, CHECKSUM_BYTE)
  BY <1>1, <1>2, ChecksumAgrees
<1> QED
  BY <1>1, <1>2, <1>3 DEF IInv, SentRight

\* A frame with one wrong byte has not.
LEMMA OneWrongByte ==
    ASSUME FrameAssumption, XorAssumption, IInv, frame # NoFrame,
           Cardinality(Damage) = 1, Damage # {DLC}
    PROVE  frame.data[CHECKSUM_BYTE] # XorOf(frame.id, frame.data, CHECKSUM_BYTE)
<1>1. /\ CHECKSUM_BYTE \in Nat \ {0} /\ DLC = CHECKSUM_BYTE + 1
      /\ Places = 0 .. CHECKSUM_BYTE
  BY FrameIsThere
<1>2. /\ sent \in FrameType /\ frame \in FrameType /\ frame.id = sent.id
      /\ sent.data[CHECKSUM_BYTE] = XorOf(sent.id, sent.data, CHECKSUM_BYTE)
  BY DEF IInv, SentRight
<1>3. PICK i : Damage = {i}
  <2>1. IsFiniteSet(Damage)
    <3>1. Damage \subseteq 0 .. DLC
      BY <1>1 DEF Damage
    <3>2. IsFiniteSet(0 .. DLC)
      BY <1>1, FS_Interval
    <3> QED
      BY <3>1, <3>2, FS_Subset
  <2> QED
    BY <2>1, FS_Singleton
<1>4. i \in 0 .. CHECKSUM_BYTE /\ frame.data[i] # sent.data[i]
      /\ \A j \in 0 .. CHECKSUM_BYTE : j # i => frame.data[j] = sent.data[j]
  BY <1>1, <1>3 DEF Damage
<1>5. \A j \in 0 .. CHECKSUM_BYTE - 1 : frame.data[j] \in Byte /\ sent.data[j] \in Byte
  BY <1>1, <1>2 DEF FrameType
<1>6. LowByte(sent.id) \in Byte
  BY <1>2, LowByteIsByte DEF FrameType
<1>7. CASE i = CHECKSUM_BYTE
  <2>1. \A j \in 0 .. CHECKSUM_BYTE - 1 : frame.data[j] = sent.data[j]
    BY <1>1, <1>4, <1>7
  <2>2. XorOf(sent.id, frame.data, CHECKSUM_BYTE) = XorOf(sent.id, sent.data, CHECKSUM_BYTE)
    BY <1>1, <2>1, ChecksumAgrees
  <2> QED
    BY <1>2, <1>4, <1>7, <2>2
<1>8. CASE i # CHECKSUM_BYTE
  <2>1. i \in 0 .. CHECKSUM_BYTE - 1
    BY <1>1, <1>4, <1>8
  <2>2. /\ \A j \in 0 .. CHECKSUM_BYTE - 1 : j # i => frame.data[j] = sent.data[j]
        /\ frame.data[CHECKSUM_BYTE] = sent.data[CHECKSUM_BYTE]
    BY <1>1, <1>4, <1>8
  <2>3. XorOf(sent.id, frame.data, CHECKSUM_BYTE) # XorOf(sent.id, sent.data, CHECKSUM_BYTE)
    BY <1>1, <1>4, <1>5, <1>6, <2>1, <2>2, ChecksumDiffers
  <2> QED
    BY <1>2, <2>2, <2>3
<1> QED
  BY <1>7, <1>8

LEMMA MonitorFound ==
    ASSUME FrameAssumption, IdsAssumption, NEW id
    PROVE  FindRxMonitor(id) = 0 <=> id \notin Range(Monitored)
<1>1. CASE id \notin Range(Monitored)
  BY <1>1 DEF FindRxMonitor, Range
<1>2. CASE id \in Range(Monitored)
  <2>1. PICK i \in DOMAIN Monitored : Monitored[i] = id
    BY <1>2 DEF Range
  <2>2. DOMAIN Monitored = 1 .. Len(Monitored) /\ Len(Monitored) \in Nat
    BY DEF FrameAssumption
  <2>3. \A j \in 1 .. i - 1 : Monitored[j] # id
    BY <2>1, <2>2 DEF IdsAssumption, IsInjective
  <2>4. FindRxMonitor(id) \in DOMAIN Monitored
    BY <2>1, <2>3 DEF FindRxMonitor
  <2> QED
    BY <1>2, <2>2, <2>4
<1> QED
  BY <1>1, <1>2

\* The verdict on a frame, as FramesJudged has it.
Judged ==
    /\ verdict' = "accepted" =>
         /\ Cardinality(Damage) # 1 \/ Damage = {DLC}
         /\ frame.id \in Range(Monitored) => DLC \notin Damage
    /\ Damage = {} /\ frame.id \notin OtherIds => verdict' = "accepted"
    /\ frame.id \in OtherIds <=> verdict' = "blocked"

LEMMA EcuJudges ==
    ASSUME FrameAssumption, IdsAssumption, XorAssumption, IInv, HandleRxMessage
    PROVE  Judged
<1>1. /\ frame # NoFrame /\ frame.id \notin {StatusId, ResponseId}
      /\ verdict' = IF FindRxMonitor(frame.id) = 0 THEN "blocked"
                    ELSE IF ~VerifyChecksum(frame) THEN "refused" ELSE "accepted"
  BY DEF HandleRxMessage
<1>2. /\ frame.id \in Range(Monitored) \cup OtherIds
      /\ frame.id \in Range(Monitored) <=> frame.id \notin OtherIds
      /\ sent.length = DLC
  BY <1>1 DEF IInv, SentRight, Ids, IdsAssumption
<1>3. FindRxMonitor(frame.id) = 0 <=> frame.id \in OtherIds
  BY <1>2, MonitorFound
<1>4. VerifyChecksum(frame) <=>
        /\ frame.length = DLC
        /\ frame.data[CHECKSUM_BYTE] = XorOf(frame.id, frame.data, CHECKSUM_BYTE)
  BY DEF VerifyChecksum, CalculateChecksum
<1>5. ASSUME verdict' = "accepted"
      PROVE  /\ Cardinality(Damage) # 1 \/ Damage = {DLC}
             /\ DLC \notin Damage
  <2>1. VerifyChecksum(frame)
    BY <1>1, <1>5
  <2>2. DLC \notin Places
    BY FrameIsThere
  <2> QED
    BY <1>1, <1>2, <1>4, <2>1, <2>2, OneWrongByte DEF Damage
<1>6. Damage = {} => VerifyChecksum(frame)
  BY <1>1, <1>4, WholeFrame
<1> QED
  BY <1>1, <1>2, <1>3, <1>5, <1>6 DEF Judged

LEMMA PanelJudges ==
    ASSUME FrameAssumption, IdsAssumption, XorAssumption, IInv, PanelReceives
    PROVE  Judged
<1>1. /\ frame # NoFrame /\ frame.id \notin Range(Monitored) \cup OtherIds
      /\ verdict' =
           IF frame.data[CHECKSUM_BYTE] # XorOf(frame.id, frame.data, CHECKSUM_BYTE)
           THEN "refused" ELSE "accepted"
  BY DEF PanelReceives, calcChecksum, IdsAssumption
<1> QED
  BY <1>1, OneWrongByte, WholeFrame DEF Judged

LEMMA JudgedRightly ==
    ASSUME FrameAssumption, IdsAssumption, XorAssumption, IInv, [Next]_vars,
           frame # NoFrame, frame' = NoFrame
    PROVE  Judged
<1>1. frame \in FrameType /\ NoFrame \notin FrameType
  BY FrameIsThere DEF IInv, SentRight
<1>2. ASSUME NEW i, NEW byte, DamageByte(i, byte) \/ CutOff(byte)
      PROVE  FALSE
  <2>1. frame'.length \in {DLC - 1, DLC}
    BY <1>1, <1>2 DEF DamageByte, CutOff, FrameType
  <2> QED
    BY <2>1, FrameIsThere DEF NoFrame
<1>3. ~(\E id, payload, checksum : Send(id, payload, checksum))
  BY DEF Send
<1>4. HandleRxMessage \/ PanelReceives
  BY <1>2, <1>3 DEF Next, vars, NodeSends, StatusSent, ResponseSent
<1> QED
  BY <1>4, EcuJudges, PanelJudges

\* The inductive invariant: a frame on the bus was sent with the checksum of its
\* identifier and its first bytes.
THEOREM Invariance ==
    ASSUME FrameAssumption, XorAssumption
    PROVE  Spec => []IInv
<1>1. Init => IInv
  BY InitGood
<1>2. IInv /\ [Next]_vars => IInv'
  BY StepGood
<1> QED
  BY <1>1, <1>2, PTL DEF Spec

\* A frame with one wrong byte is never used, nor one that ECU6 got cut off, and
\* one that arrives as it was sent always is: for every number of bytes, every
\* set of identifiers, and any damage.
THEOREM FramesAreJudged ==
    ASSUME FrameAssumption, IdsAssumption, XorAssumption
    PROVE  Spec => FramesJudged
<1>1. IInv /\ [Next]_vars => [frame # NoFrame /\ frame' = NoFrame => Judged]_vars
  BY JudgedRightly
<1>2. IInv /\ [Next]_vars =>
        [frame # NoFrame /\ frame' = NoFrame =>
           /\ verdict' = "accepted" =>
                /\ Cardinality(Damage) # 1 \/ Damage = {DLC}
                /\ frame.id \in Range(Monitored) => DLC \notin Damage
           /\ Damage = {} /\ frame.id \notin OtherIds => verdict' = "accepted"
           /\ frame.id \in OtherIds <=> verdict' = "blocked"]_vars
  BY <1>1 DEF Judged
<1> QED
  BY <1>2, Invariance, PTL DEF Spec, FramesJudged

================================================================================
