-------------------------- MODULE Fx5StationProofs --------------------------
(***************************************************************************)
(* Facts about requests and responses: what a call puts into a request,    *)
(* what the parser reads from the bytes that an SLMP server builds, and    *)
(* what a parse does to a context, for every value store, request,         *)
(* response code and value.                                                *)
(***************************************************************************)
EXTENDS Fx5Station, Fx5FrameProofs

\* What sixteen bits hold.
Numbers16 == 0 .. Uint16Range - 1

\* A request that fx5_build_request lets out.
Asked(w) ==
  /\ w.settings.header \in Headers /\ w.serial \in 0 .. SerialRange - 1
  /\ w.command \in Commands /\ w.device \in Devices
  /\ w.count \in 1 .. MaxCount(w.device)

\* Numbers a station may answer with.
Numbered(w, vals) ==
  /\ vals \in Seq(Numbers16) /\ Len(vals) <= MaxCount(w.device)
  /\ IsBitDevice(w.device) => vals \in Seq({0, 1})

Body(w, code, vals) ==
  IF code # 0 THEN ErrorInfo
  ELSE IF IsBitDevice(w.device) THEN BitBytes(vals) ELSE WordBytes(vals)

-----------------------------------------------------------------------------
\* The bytes of a response.

LEMMA StoreFits ==
  ASSUME NEW dev, NEW n \in Nat, n <= MaxCount(dev)
  PROVE  /\ PayloadSize(dev, n) \in Nat /\ 2 + PayloadSize(dev, n) <= IoBufSize
         /\ 11 <= IoBufSize /\ IoBufSize \in Nat /\ IoBufSize < Uint16Range
  <1>1. MaxValueCount \in Nat /\ MaxValueCount >= 1 /\ MaxValueCount <= LargestValueCount
    BY ContextAssumption DEF LargestValueCount
  <1>2. IoBufSize = 41 + (16 * MaxValueCount + 1) \div 2
    <2>1. IoBufSize = MaxRequestSize
      BY ContextAssumption
    <2>2. QED
      BY <1>1, <2>1 DEF MaxRequestSize, MaxBitPayload, MaxBitValueCount, BitsPerWord, ReqHeaderSize4E,
         ReqPduHeaderSize, IoBufGuard
  <1>3. IoBufSize = 41 + 8 * MaxValueCount
    BY <1>1, <1>2
  <1>4. IoBufSize < Uint16Range
    BY <1>1, <1>3 DEF LargestValueCount, Uint16Range
  <1>5. PayloadSize(dev, n) \in Nat /\ PayloadSize(dev, n) <= 8 * MaxValueCount
    BY <1>1 DEF PayloadSize, MaxCount, MaxBitValueCount, BitsPerWord
  <1>6. QED  BY <1>1, <1>3, <1>4, <1>5

\* The constants of a context.
LEMMA SerialsAreNat == SerialRange \in Nat /\ SerialRange > 0 /\ MaxValueCount \in Nat
  <1>1. LargestValueCount \in Int /\ Uint16Range \in Int
    BY DEF LargestValueCount, Uint16Range
  <1>2. QED  BY <1>1, ContextAssumption

LEMMA CountsAreNat ==
  ASSUME NEW dev
  PROVE  MaxCount(dev) \in Nat
  BY SerialsAreNat DEF MaxCount, MaxBitValueCount, BitsPerWord

LEMMA Halves ==
  ASSUME NEW v \in Numbers16
  PROVE  /\ v % 256 \in Bytes /\ v \div 256 \in Bytes
         /\ (v % 256) + 256 * (v \div 256) = v
  <1>1. v \in Int /\ 0 <= v /\ v < Uint16Range
    <2>1. Uint16Range \in Int
      BY DEF Uint16Range
    <2>2. QED  BY <2>1 DEF Numbers16
  <1>2. v = 256 * (v \div 256) + (v % 256) /\ v % 256 \in 0 .. 255 /\ v \div 256 \in Int
    BY <1>1
  <1>3. v \div 256 \in 0 .. 255
    BY <1>1, <1>2 DEF Uint16Range
  <1>4. QED  BY <1>2, <1>3 DEF Bytes

\* The sixteen bits of a number and the number of sixteen bits.
LEMMA NumberSteps ==
  ASSUME NEW word
  PROVE  \E g \in [0 .. 16 -> Nat] :
           /\ g[0] = 0 /\ g[16] = NumberOf(word)
           /\ \A k \in 1 .. 16 : g[k] = 2 * g[k - 1] + IF 16 - k \in word THEN 1 ELSE 0
  <1> DEFINE Bit(k) == IF 16 - k \in word THEN 1 ELSE 0
             F == [p \in Nat \X (1 .. 16) |-> 2 * p[1] + Bit(p[2])]
             Reads(f) == f = [k \in 0 .. 16 |-> IF k = 0 THEN 0 ELSE 2 * f[k - 1] + Bit(k)]
             read == CHOOSE f : Reads(f)
  <1>1. \A k \in 1 .. 16 : Bit(k) \in 0 .. 1
    OBVIOUS
  <1>2. NumberOf(word) = read[16]
    BY DEF NumberOf, BitsPerWord
  <1> HIDE DEF Bit
  <1>3. F \in [Nat \X (1 .. 16) -> Nat]
    BY <1>1
  <1>4. \A v \in Nat : \A k \in 1 .. 16 : F[<<v, k>>] = 2 * v + Bit(k)
    OBVIOUS
  <1> HIDE DEF F
  <1>5. PICK g \in [0 .. 16 -> Nat] : Follows(g, 0, 16, F)
    BY <1>3, RecursionDefines
  <1>6. g[0] = 0 /\ \A k \in 1 .. 16 : g[k] = 2 * g[k - 1] + Bit(k)
    <2>1. ASSUME NEW k \in 1 .. 16 PROVE g[k] = 2 * g[k - 1] + Bit(k)
      <3>1. k - 1 \in 0 .. 16 /\ g[k] = F[<<g[k - 1], k>>]
        BY <1>5 DEF Follows
      <3>2. g[k - 1] \in Nat
        BY <3>1
      <3>3. QED  BY <1>4, <3>1, <3>2
    <2>2. QED  BY <1>5, <2>1 DEF Follows
  <1>7. Reads(g)
    <2>1. ASSUME NEW k \in 0 .. 16 PROVE g[k] = IF k = 0 THEN 0 ELSE 2 * g[k - 1] + Bit(k)
      BY <1>6
    <2>2. QED  BY <2>1
  <1>8. Reads(read)
    <2> HIDE DEF Reads
    <2>1. QED  BY <1>7
  <1> HIDE DEF read
  <1>9. read = g
    <2> DEFINE bad == {k \in 0 .. 16 : read[k] # g[k]}
    <2>1. read[0] = 0 /\ \A k \in 1 .. 16 : read[k] = 2 * read[k - 1] + Bit(k)
      BY <1>8
    <2>2. ASSUME bad # {} PROVE FALSE
      <3>1. bad \subseteq Nat
        OBVIOUS
      <3>2. Min(bad) \in bad /\ \A x \in bad : Min(bad) <= x
        <4> HIDE DEF bad
        <4>1. QED  BY <2>2, <3>1, LeastExists
      <3>3. PICK m \in bad : \A x \in bad : m <= x
        BY <3>2
      <3>4. m \in 1 .. 16 /\ m - 1 \in 0 .. 16 /\ ~(m <= m - 1)
        BY <1>6, <2>1, <3>3
      <3>5. read[m - 1] = g[m - 1]
        BY <3>3, <3>4
      <3>6. QED  BY <1>6, <2>1, <3>3, <3>4, <3>5
    <2>3. \A k \in 0 .. 16 : read[k] = g[k]
      BY <2>2
    <2>4. read = [k \in 0 .. 16 |-> IF k = 0 THEN 0 ELSE 2 * read[k - 1] + Bit(k)]
      BY <1>8
    <2>5. DOMAIN read = 0 .. 16 /\ read = [k \in 0 .. 16 |-> read[k]] /\ g = [k \in 0 .. 16 |-> g[k]]
      BY <2>4
    <2>6. QED  BY <2>3, <2>5
  <1>10. QED  BY <1>2, <1>6, <1>9 DEF Bit

LEMMA NumberFits ==
  ASSUME NEW word
  PROVE  NumberOf(word) \in Numbers16
  <1>1. PICK g \in [0 .. 16 -> Nat] :
          /\ g[0] = 0 /\ g[16] = NumberOf(word)
          /\ \A k \in 1 .. 16 : g[k] = 2 * g[k - 1] + IF 16 - k \in word THEN 1 ELSE 0
    BY NumberSteps
  <1>2. ASSUME NEW k \in 1 .. 16 PROVE g[k] \in Nat /\ g[k - 1] \in Nat /\ g[k] + 1 <= 2 * (g[k - 1] + 1)
    <2> DEFINE bit == IF 16 - k \in word THEN 1 ELSE 0
    <2>1. k \in 0 .. 16 /\ k - 1 \in 0 .. 16 /\ bit \in 0 .. 1
      OBVIOUS
    <2>2. g[k] = 2 * g[k - 1] + bit
      BY <1>1
    <2> HIDE DEF bit
    <2>3. g[k] \in Nat /\ g[k - 1] \in Nat
      BY <2>1
    <2>4. QED  BY <2>1, <2>2, <2>3
  <1>3. g[8] + 1 <= 256
    <2>1. g[4] + 1 <= 16
      BY <1>1, <1>2
    <2>2. QED  BY <1>2, <2>1
  <1>4. g[16] + 1 <= 256 * (g[8] + 1)
    <2>1. g[12] + 1 <= 16 * (g[8] + 1)
      BY <1>2
    <2>2. QED  BY <1>2, <2>1
  <1>5. g[16] + 1 <= Uint16Range
    <2>1. g[16] \in Nat /\ g[8] \in Nat
      OBVIOUS
    <2>2. QED  BY <1>3, <1>4, <2>1 DEF Uint16Range
  <1>6. QED
    <2>1. Uint16Range \in Int
      BY DEF Uint16Range
    <2>2. QED  BY <1>1, <1>5, <2>1 DEF Numbers16

LEMMA Shifts ==
  ASSUME NEW n \in Nat
  PROVE  \E h \in [0 .. 15 -> Nat] :
           /\ h[0] = n /\ \A i \in 1 .. 15 : h[i] = h[i - 1] \div 2
           /\ WordOf(n) = {i \in 0 .. 15 : h[i] % 2 = 1}
  <1> DEFINE F == [p \in Nat \X (1 .. 15) |-> p[1] \div 2]
             Reads(f) == f = [i \in 0 .. 15 |-> IF i = 0 THEN n ELSE f[i - 1] \div 2]
             shifted == CHOOSE f : Reads(f)
  <1>1. BitsPerWord - 1 = 15
    BY DEF BitsPerWord
  <1>2. WordOf(n) = {i \in 0 .. 15 : shifted[i] % 2 = 1}
    BY <1>1 DEF WordOf
  <1>3. F \in [Nat \X (1 .. 15) -> Nat]
    OBVIOUS
  <1>4. \A v \in Nat : \A i \in 1 .. 15 : F[<<v, i>>] = v \div 2
    OBVIOUS
  <1> HIDE DEF F
  <1>5. PICK h \in [0 .. 15 -> Nat] : Follows(h, n, 15, F)
    BY <1>3, RecursionDefines
  <1>6. h[0] = n /\ \A i \in 1 .. 15 : h[i] = h[i - 1] \div 2
    <2>1. ASSUME NEW i \in 1 .. 15 PROVE h[i] = h[i - 1] \div 2
      <3>1. i - 1 \in 0 .. 15 /\ h[i] = F[<<h[i - 1], i>>]
        BY <1>5 DEF Follows
      <3>2. h[i - 1] \in Nat
        BY <3>1
      <3>3. QED  BY <1>4, <3>1, <3>2
    <2>2. QED  BY <1>5, <2>1 DEF Follows
  <1>7. Reads(h)
    <2>1. ASSUME NEW i \in 0 .. 15 PROVE h[i] = IF i = 0 THEN n ELSE h[i - 1] \div 2
      BY <1>6
    <2>2. QED  BY <2>1
  <1>8. Reads(shifted)
    <2> HIDE DEF Reads
    <2>1. QED  BY <1>7
  <1> HIDE DEF shifted
  <1>9. shifted[0] = n /\ \A i \in 1 .. 15 : shifted[i] = shifted[i - 1] \div 2
    BY <1>8
  <1>10. \A i \in 0 .. 15 : shifted[i] = h[i]
    BY <1>6, <1>9
  <1>11. QED  BY <1>2, <1>6, <1>10

LEMMA WordsReadBack ==
  ASSUME NEW word \in Words
  PROVE  WordOf(NumberOf(word)) = word
  <1>1. PICK g \in [0 .. 16 -> Nat] :
          /\ g[0] = 0 /\ g[16] = NumberOf(word)
          /\ \A k \in 1 .. 16 : g[k] = 2 * g[k - 1] + IF 16 - k \in word THEN 1 ELSE 0
    BY NumberSteps
  <1>2. PICK h \in [0 .. 15 -> Nat] :
          /\ h[0] = NumberOf(word) /\ \A i \in 1 .. 15 : h[i] = h[i - 1] \div 2
          /\ WordOf(NumberOf(word)) = {i \in 0 .. 15 : h[i] % 2 = 1}
    <2>1. NumberOf(word) \in Nat
      BY <1>1
    <2>2. QED  BY <2>1, Shifts
  <1>3. \A k \in 1 .. 16 : g[k] \div 2 = g[k - 1] /\ (g[k] % 2 = 1 <=> 16 - k \in word)
    <2>1. ASSUME NEW k \in 1 .. 16
          PROVE  g[k] \div 2 = g[k - 1] /\ (g[k] % 2 = 1 <=> 16 - k \in word)
      <3>1. g[k - 1] \in Nat /\ g[k] \in Nat
        OBVIOUS
      <3>2. g[k] = 2 * g[k - 1] + IF 16 - k \in word THEN 1 ELSE 0
        BY <1>1
      <3>3. CASE 16 - k \in word
        BY <3>1, <3>2, <3>3
      <3>4. CASE 16 - k \notin word
        BY <3>1, <3>2, <3>4
      <3>5. QED  BY <3>3, <3>4
    <2>2. QED  BY <2>1
  <1>4. \A i \in 0 .. 15 : h[i] = g[16 - i]
    <2> DEFINE bad == {i \in 0 .. 15 : h[i] # g[16 - i]}
    <2>1. ASSUME bad # {} PROVE FALSE
      <3>1. bad \subseteq Nat
        OBVIOUS
      <3>2. Min(bad) \in bad /\ \A x \in bad : Min(bad) <= x
        <4> HIDE DEF bad
        <4>1. QED  BY <2>1, <3>1, LeastExists
      <3>3. PICK m \in bad : \A x \in bad : m <= x
        BY <3>2
      <3>4. m \in 1 .. 15 /\ m - 1 \in 0 .. 15 /\ ~(m <= m - 1)
        <4>1. m \in 0 .. 15 /\ h[m] # g[16 - m] /\ h[0] = g[16]
          BY <1>1, <1>2, <3>3
        <4>2. m # 0
          BY <4>1
        <4>3. QED  BY <4>1, <4>2
      <3>5. h[m - 1] = g[16 - (m - 1)]
        BY <3>3, <3>4
      <3>6. 16 - (m - 1) \in 1 .. 16 /\ 16 - (m - 1) - 1 = 16 - m
        BY <3>4
      <3>7. h[m] = g[16 - m]
        BY <1>2, <1>3, <3>4, <3>5, <3>6
      <3>8. QED  BY <3>3, <3>7
    <2>2. QED  BY <2>1
  <1>5. \A i \in 0 .. 15 : h[i] % 2 = 1 <=> i \in word
    <2>1. ASSUME NEW i \in 0 .. 15 PROVE h[i] % 2 = 1 <=> i \in word
      <3>1. 16 - i \in 1 .. 16 /\ 16 - (16 - i) = i
        OBVIOUS
      <3>2. QED  BY <1>3, <1>4, <3>1
    <2>2. QED  BY <2>1
  <1>6. word \subseteq 0 .. 15
    BY DEF Words, BitsPerWord
  <1>7. QED  BY <1>2, <1>5, <1>6

LEMMA WordBytesFacts ==
  ASSUME NEW vals \in Seq(Numbers16)
  PROVE  /\ WordBytes(vals) \in Seq(Bytes) /\ Len(WordBytes(vals)) = 2 * Len(vals)
         /\ \A k \in 0 .. Len(vals) - 1 :
              /\ WordBytes(vals)[2 * k + 1] = vals[k + 1] % 256
              /\ WordBytes(vals)[2 * k + 2] = vals[k + 1] \div 256
  <1>1. Len(vals) \in Nat /\ \A i \in 1 .. Len(vals) : vals[i] \in Numbers16
    BY ElementOfSeq, LenProperties
  <1>2. ASSUME NEW i \in 1 .. 2 * Len(vals)
        PROVE  WordBytes(vals)[i] \in Bytes
    <2>1. CASE i % 2 = 1
      <3>1. (i + 1) \div 2 \in 1 .. Len(vals)
        BY <1>1, <2>1
      <3>2. QED  BY <1>1, <2>1, <3>1, Halves DEF WordBytes
    <2>2. CASE i % 2 # 1
      <3>1. i \div 2 \in 1 .. Len(vals)
        BY <1>1, <2>2
      <3>2. QED  BY <1>1, <2>2, <3>1, Halves DEF WordBytes
    <2>3. QED  BY <2>1, <2>2
  <1>3. WordBytes(vals) \in [1 .. 2 * Len(vals) -> Bytes]
    BY <1>2 DEF WordBytes
  <1>4. ASSUME NEW k \in 0 .. Len(vals) - 1
        PROVE  /\ WordBytes(vals)[2 * k + 1] = vals[k + 1] % 256
               /\ WordBytes(vals)[2 * k + 2] = vals[k + 1] \div 256
    <2>1. /\ 2 * k + 1 \in 1 .. 2 * Len(vals) /\ 2 * k + 2 \in 1 .. 2 * Len(vals)
          /\ (2 * k + 1) % 2 = 1 /\ (2 * k + 2) % 2 # 1
          /\ (2 * k + 1 + 1) \div 2 = k + 1 /\ (2 * k + 2) \div 2 = k + 1
      BY <1>1
    <2>2. QED  BY <2>1 DEF WordBytes
  <1>5. 2 * Len(vals) \in Nat
    BY <1>1
  <1>6. QED  BY <1>3, <1>4, <1>5, FunctionIsSeq

LEMMA BitBytesFacts ==
  ASSUME NEW vals \in Seq({0, 1})
  PROVE  /\ BitBytes(vals) \in Seq(Bytes) /\ Len(BitBytes(vals)) = (Len(vals) + 1) \div 2
         /\ \A i \in 0 .. Len(vals) - 1 : NibbleOf(BitBytes(vals), i) = vals[i + 1]
  <1>1. Len(vals) \in Nat /\ \A i \in 1 .. Len(vals) : vals[i] \in {0, 1}
    BY ElementOfSeq, LenProperties
  <1>2. ASSUME NEW i \in 1 .. (Len(vals) + 1) \div 2
        PROVE  /\ vals[2 * i - 1] \in {0, 1}
               /\ 2 * i <= Len(vals) => vals[2 * i] \in {0, 1}
    BY <1>1
  <1>3. BitBytes(vals) \in [1 .. (Len(vals) + 1) \div 2 -> Bytes]
    <2>1. ASSUME NEW i \in 1 .. (Len(vals) + 1) \div 2
          PROVE  16 * vals[2 * i - 1] + (IF 2 * i <= Len(vals) THEN vals[2 * i] ELSE 0) \in Bytes
      <3>1. \A u, v \in {0, 1} : 16 * u + v \in Bytes /\ 16 * u + 0 \in Bytes
        BY DEF Bytes
      <3>2. QED  BY <1>2, <3>1
    <2>2. QED  BY <2>1 DEF BitBytes
  <1>4. (Len(vals) + 1) \div 2 \in Nat
    BY <1>1
  <1>5. ASSUME NEW i \in 0 .. Len(vals) - 1
        PROVE  NibbleOf(BitBytes(vals), i) = vals[i + 1]
    <2> DEFINE j == i \div 2 + 1
               b == BitBytes(vals)[j]
    <2>1. j \in 1 .. (Len(vals) + 1) \div 2
      BY <1>1
    <2>2. b = 16 * vals[2 * j - 1] + IF 2 * j <= Len(vals) THEN vals[2 * j] ELSE 0
      BY <2>1 DEF BitBytes
    <2>3. CASE i % 2 = 0
      <3>1. 2 * j - 1 = i + 1
        BY <1>1, <2>3
      <3>2. b \div 16 = vals[i + 1]
        <4> HIDE DEF j
        <4>1. vals[i + 1] \in {0, 1} /\ (2 * j <= Len(vals) => vals[2 * j] \in {0, 1})
          BY <1>2, <2>1, <3>1
        <4>2. QED  BY <2>2, <3>1, <4>1
      <3>3. QED  BY <2>3, <3>2 DEF NibbleOf
    <2>4. CASE i % 2 # 0
      <3>1. 2 * j = i + 1 /\ 2 * j <= Len(vals)
        BY <1>1, <2>4
      <3>2. b % 16 = vals[i + 1]
        <4> HIDE DEF j
        <4>1. vals[2 * j - 1] \in {0, 1} /\ vals[i + 1] \in {0, 1}
          BY <1>2, <2>1, <3>1
        <4>2. QED  BY <2>2, <3>1, <4>1
      <3>3. QED  BY <2>4, <3>2 DEF NibbleOf
    <2>5. QED  BY <2>3, <2>4
  <1>6. QED  BY <1>3, <1>4, <1>5, FunctionIsSeq

LEMMA BodyFacts ==
  ASSUME NEW w, Asked(w), NEW code, NEW vals, Numbered(w, vals)
  PROVE  LET body == Body(w, code, vals) IN
         /\ body \in Seq(Bytes) /\ Len(body) \in Nat
         /\ Len(body) = IF code # 0 THEN 9 ELSE PayloadSize(w.device, Len(vals))
         /\ 2 + Len(body) <= IoBufSize
  <1>1. /\ vals \in Seq(Numbers16) /\ Len(vals) \in Nat /\ Len(vals) <= MaxCount(w.device)
        /\ IsBitDevice(w.device) => vals \in Seq({0, 1})
    BY LenProperties DEF Numbered
  <1>2. /\ PayloadSize(w.device, Len(vals)) \in Nat /\ 2 + PayloadSize(w.device, Len(vals)) <= IoBufSize
        /\ 11 <= IoBufSize
    BY <1>1, StoreFits
  <1>3. CASE code # 0
    <2>1. ErrorInfo \in Seq(Bytes) /\ Len(ErrorInfo) = 9
      BY DEF ErrorInfo, Bytes
    <2>2. Body(w, code, vals) = ErrorInfo
      BY <1>3 DEF Body
    <2>3. Len(ErrorInfo) \in Nat /\ 2 + Len(ErrorInfo) <= IoBufSize
      BY <1>2, <2>1
    <2>4. QED  BY <1>3, <2>1, <2>2, <2>3, Zenon
  <1>4. CASE code = 0 /\ IsBitDevice(w.device)
    <2>1. Body(w, code, vals) = BitBytes(vals)
      BY <1>4 DEF Body
    <2>2. BitBytes(vals) \in Seq(Bytes) /\ Len(BitBytes(vals)) = (Len(vals) + 1) \div 2
      BY <1>1, <1>4, BitBytesFacts
    <2>3. PayloadSize(w.device, Len(vals)) = (Len(vals) + 1) \div 2
      BY <1>4 DEF PayloadSize
    <2>4. QED  BY <1>2, <1>4, <2>1, <2>2, <2>3
  <1>5. CASE code = 0 /\ ~IsBitDevice(w.device)
    <2>1. Body(w, code, vals) = WordBytes(vals)
      BY <1>5 DEF Body
    <2>2. WordBytes(vals) \in Seq(Bytes) /\ Len(WordBytes(vals)) = 2 * Len(vals)
      BY <1>1, WordBytesFacts
    <2>3. PayloadSize(w.device, Len(vals)) = 2 * Len(vals)
      BY <1>5 DEF PayloadSize
    <2>4. QED  BY <1>2, <1>5, <2>1, <2>2, <2>3
  <1>6. QED  BY <1>3, <1>4, <1>5

\* The header in front of size bytes.
Head4E(serial, size) ==
  <<Low4E, 0, serial % 256, serial \div 256, 0, 0, 0, 255, 255, 3, 0, size % 256, size \div 256>>
Head3E(size) == <<Low3E, 0, 0, 255, 255, 3, 0, size % 256, size \div 256>>
HeadOf(w, size) == IF w.settings.header = "4E" THEN Head4E(w.serial, size) ELSE Head3E(size)

LEMMA HeadFacts ==
  ASSUME NEW w, Asked(w), NEW size \in Numbers16
  PROVE  LET head == HeadOf(w, size)
             h    == w.settings.header
         IN  /\ head \in Seq(Bytes) /\ Len(head) = HeaderSize(h)
             /\ head[1] = (IF h = "4E" THEN Low4E ELSE Low3E) /\ head[2] = 0
             /\ head[SizeOffset(h) + 1] + 256 * head[SizeOffset(h) + 2] = size
             /\ h = "4E" => head[SerialOffset4E + 1] + 256 * head[SerialOffset4E + 2] = w.serial
  <1>1. /\ size % 256 \in Bytes /\ size \div 256 \in Bytes
        /\ (size % 256) + 256 * (size \div 256) = size
    BY Halves
  <1>2. /\ w.serial % 256 \in Bytes /\ w.serial \div 256 \in Bytes
        /\ (w.serial % 256) + 256 * (w.serial \div 256) = w.serial
    <2>1. w.serial \in Numbers16
      <3>1. w.serial \in 0 .. SerialRange - 1
        BY DEF Asked
      <3>2. Uint16Range \in Int
        BY DEF Uint16Range
      <3>3. SerialRange \in Int /\ SerialRange <= Uint16Range
        BY <3>2, ContextAssumption
      <3>4. QED  BY <3>1, <3>2, <3>3 DEF Numbers16
    <2>2. QED  BY <2>1, Halves
  <1>3. {0, 3, 255} \subseteq Bytes /\ Low3E \in Bytes /\ Low4E \in Bytes
    BY DEF Bytes, Low3E, Low4E
  <1>4. CASE w.settings.header = "4E"
    <2>1. ASSUME NEW a \in Bytes, NEW b \in Bytes, NEW c \in Bytes, NEW d \in Bytes
          PROVE  LET s == <<Low4E, 0, a, b, 0, 0, 0, 255, 255, 3, 0, c, d>> IN
                 /\ s \in Seq(Bytes) /\ Len(s) = 13
                 /\ s[1] = Low4E /\ s[2] = 0 /\ s[3] = a /\ s[4] = b /\ s[12] = c /\ s[13] = d
      BY <1>3
    <2>2. /\ HeadOf(w, size) = Head4E(w.serial, size)
          /\ HeaderSize("4E") = 13 /\ SizeOffset("4E") = 11 /\ SerialOffset4E = 2
      BY <1>4, HeaderAssumption DEF HeadOf, HeaderSize, SizeOffset
    <2>3. LET s == Head4E(w.serial, size) IN
          /\ s \in Seq(Bytes) /\ Len(s) = 13
          /\ s[1] = Low4E /\ s[2] = 0 /\ s[3] = w.serial % 256 /\ s[4] = w.serial \div 256
          /\ s[12] = size % 256 /\ s[13] = size \div 256
      BY <1>1, <1>2, <2>1 DEF Head4E
    <2>4. QED  BY <1>1, <1>2, <1>4, <2>2, <2>3
  <1>5. CASE w.settings.header = "3E"
    <2>1. ASSUME NEW c \in Bytes, NEW d \in Bytes
          PROVE  LET s == <<Low3E, 0, 0, 255, 255, 3, 0, c, d>> IN
                 /\ s \in Seq(Bytes) /\ Len(s) = 9
                 /\ s[1] = Low3E /\ s[2] = 0 /\ s[8] = c /\ s[9] = d
      BY <1>3
    <2>2. /\ HeadOf(w, size) = Head3E(size)
          /\ HeaderSize("3E") = 9 /\ SizeOffset("3E") = 7
      BY <1>5, HeaderAssumption DEF HeadOf, HeaderSize, SizeOffset
    <2>3. LET s == Head3E(size) IN
          /\ s \in Seq(Bytes) /\ Len(s) = 9
          /\ s[1] = Low3E /\ s[2] = 0 /\ s[8] = size % 256 /\ s[9] = size \div 256
      BY <1>1, <2>1 DEF Head3E
    <2>4. QED  BY <1>1, <1>5, <2>2, <2>3
  <1>6. QED  BY <1>4, <1>5 DEF Asked, Headers

\* What the parser reads at the start of a response.
LEMMA ResponseFacts ==
  ASSUME NEW w, Asked(w), NEW code \in Bytes, NEW vals, Numbered(w, vals)
  PROVE  LET bytes == Response(w, code, vals)
             body  == Body(w, code, vals)
             h     == w.settings.header
         IN  /\ bytes \in Seq(Bytes) /\ Len(bytes) = HeaderSize(h) + 2 + Len(body)
             /\ HeaderAt(bytes, 0) = h
             /\ PacketSize(bytes, 0) = 2 + Len(body)
             /\ FrameSize(bytes, 0) = Len(bytes) /\ FrameComplete(bytes, 0)
             /\ h = "4E" => WordAt(bytes, SerialOffset4E) = w.serial
             /\ ~Mismatch(bytes, 0, w.serial)
             /\ WordAt(bytes, HeaderSize(h)) = code
             /\ \A k \in 1 .. Len(body) : bytes[HeaderSize(h) + 2 + k] = body[k]
  <1> DEFINE bytes == Response(w, code, vals)
             body  == Body(w, code, vals)
             h     == w.settings.header
             pdu   == <<code, 0>> \o body
             size  == 2 + Len(body)
             head  == HeadOf(w, size)
             n     == HeaderSize(h)
  <1>1. body \in Seq(Bytes) /\ Len(body) \in Nat /\ size <= IoBufSize /\ size \in Numbers16
    <2>1. body \in Seq(Bytes) /\ Len(body) \in Nat /\ size <= IoBufSize
      BY BodyFacts
    <2> HIDE DEF body
    <2>2. IoBufSize \in Nat /\ IoBufSize < Uint16Range
      <3>1. w.count \in Nat /\ w.count <= MaxCount(w.device)
        BY DEF Asked, MaxCount, MaxBitValueCount, BitsPerWord
      <3>2. QED  BY <3>1, StoreFits
    <2>3. Uint16Range \in Int /\ size \in Int /\ 0 <= size /\ size <= Uint16Range - 1
      BY <2>1, <2>2 DEF Uint16Range
    <2> HIDE DEF size
    <2>4. QED  BY <2>1, <2>3 DEF Numbers16
  <1> HIDE DEF body
  <1>2. /\ pdu \in Seq(Bytes) /\ Len(pdu) = size /\ pdu[1] = code /\ pdu[2] = 0
        /\ \A k \in 1 .. Len(body) : pdu[2 + k] = body[k]
    <2>1. <<code, 0>> \in Seq(Bytes) /\ Len(<<code, 0>>) = 2
      BY DEF Bytes
    <2>2. QED  BY <1>1, <2>1, ConcatProperties
  <1>3. bytes = head \o pdu
    <2> DEFINE q == <<code, 0>> \o (IF code # 0 THEN ErrorInfo
                                    ELSE IF IsBitDevice(w.device) THEN BitBytes(vals) ELSE WordBytes(vals))
    <2>1. q = pdu
      BY DEF body, Body
    <2>2. bytes = IF h = "4E"
                  THEN <<Low4E, 0, w.serial % 256, w.serial \div 256, 0, 0, 0, 255, 255, 3, 0,
                         Len(q) % 256, Len(q) \div 256>> \o q
                  ELSE <<Low3E, 0, 0, 255, 255, 3, 0, Len(q) % 256, Len(q) \div 256>> \o q
      BY Zenon DEF Response
    <2> HIDE DEF q
    <2>3. bytes = IF h = "4E" THEN Head4E(w.serial, Len(q)) \o q ELSE Head3E(Len(q)) \o q
      BY <2>2, Zenon DEF Head4E, Head3E
    <2>4. QED  BY <1>2, <2>1, <2>3 DEF HeadOf
  <1>4. /\ head \in Seq(Bytes) /\ Len(head) = n
        /\ head[1] = (IF h = "4E" THEN Low4E ELSE Low3E) /\ head[2] = 0
        /\ head[SizeOffset(h) + 1] + 256 * head[SizeOffset(h) + 2] = size
        /\ h = "4E" => head[SerialOffset4E + 1] + 256 * head[SerialOffset4E + 2] = w.serial
    BY <1>1, HeadFacts
  <1> HIDE DEF head, pdu, bytes
  <1>5. /\ h \in Headers /\ n \in Nat /\ SizeOffset(h) \in Nat /\ SizeOffset(h) + 2 <= n /\ 2 <= n
        /\ h = "4E" => SerialOffset4E \in Nat /\ SerialOffset4E + 2 <= n
    BY LayoutAssumption DEF Asked, HeaderSize, SizeOffset, Headers
  <1>6. /\ bytes \in Seq(Bytes) /\ Len(bytes) = n + size
        /\ \A i \in 1 .. n : bytes[i] = head[i]
        /\ \A i \in 1 .. size : bytes[n + i] = pdu[i]
    <2>1. /\ head \o pdu \in Seq(Bytes) /\ Len(head \o pdu) = Len(head) + Len(pdu)
          /\ \A i \in 1 .. Len(head) + Len(pdu) :
               (head \o pdu)[i] = IF i <= Len(head) THEN head[i] ELSE pdu[i - Len(head)]
      BY <1>2, <1>4, ConcatProperties, SMTT(30)
    <2>2. size \in Nat
      BY <1>1
    <2> HIDE DEF n, size
    <2>3. QED  BY <1>2, <1>3, <1>4, <1>5, <2>1, <2>2
  <1>7. size \in Nat /\ 2 <= size /\ Len(bytes) \in Nat
    BY <1>1, <1>5, <1>6
  <1> HIDE DEF n, size
  <1>8. HeaderAt(bytes, 0) = h
    <2>1. WordAt(bytes, 0) = IF h = "4E" THEN Low4E ELSE Low3E
      BY <1>4, <1>5, <1>6 DEF WordAt, Low3E, Low4E
    <2>2. QED  BY <1>5, <1>6, <1>7, <2>1 DEF HeaderAt, Headers, Low3E, Low4E
  <1>9. PacketSize(bytes, 0) = size
    <2>1. bytes[SizeOffset(h) + 1] = head[SizeOffset(h) + 1] /\ bytes[SizeOffset(h) + 2] = head[SizeOffset(h) + 2]
      BY <1>5, <1>6
    <2>2. QED  BY <1>4, <1>5, <1>8, <2>1 DEF PacketSize, WordAt
  <1>10. h = "4E" => WordAt(bytes, SerialOffset4E) = w.serial
    BY <1>4, <1>5, <1>6 DEF WordAt
  <1>11. HeaderComplete(bytes, 0) /\ FrameSize(bytes, 0) = Len(bytes) /\ FrameComplete(bytes, 0)
    BY <1>5, <1>6, <1>7, <1>8, <1>9 DEF HeaderComplete, FrameSize, FrameComplete, n
  <1>12. ~Mismatch(bytes, 0, w.serial)
    <2>1. size \in PduHeaderSize .. IoBufSize
      BY <1>1, <1>7 DEF PduHeaderSize, size
    <2>2. h = "4E" => 0 + SerialOffset4E = SerialOffset4E
      BY <1>5
    <2>3. QED  BY <1>8, <1>9, <1>10, <2>1, <2>2 DEF Mismatch
  <1>13. WordAt(bytes, n) = code
    <2>1. bytes[n + 1] = pdu[1] /\ bytes[n + 2] = pdu[2]
      BY <1>5, <1>6, <1>7
    <2>2. code \in Int
      BY DEF Bytes
    <2>3. QED  BY <1>2, <2>1, <2>2 DEF WordAt
  <1>14. \A k \in 1 .. Len(body) : bytes[n + 2 + k] = body[k]
    <2>1. ASSUME NEW k \in 1 .. Len(body) PROVE bytes[n + (2 + k)] = pdu[2 + k] /\ n + (2 + k) = n + 2 + k
      BY <1>1, <1>5, <1>6 DEF size
    <2>2. QED  BY <1>2, <2>1
  <1>15. QED  BY <1>6, <1>8, <1>9, <1>10, <1>11, <1>12, <1>13, <1>14, <1>5 DEF n, size, bytes, body

-----------------------------------------------------------------------------
\* What is left of a sequence of bytes or tags after some are taken off.

LEMMA AfterSeq ==
  ASSUME NEW S, NEW s \in Seq(S), NEW n \in 0 .. Len(s)
  PROVE  /\ After(s, n) \in Seq(S) /\ Len(After(s, n)) = Len(s) - n
         /\ \A i \in 1 .. Len(s) - n : After(s, n)[i] = s[n + i]
  <1>1. Len(s) \in Nat /\ \A i \in n + 1 .. Len(s) : s[i] \in S
    BY LenProperties, ElementOfSeq
  <1>2. /\ SubSeq(s, n + 1, Len(s)) \in Seq(S)
        /\ Len(SubSeq(s, n + 1, Len(s))) = IF n + 1 <= Len(s) THEN Len(s) - (n + 1) + 1 ELSE 0
        /\ \A i \in 1 .. Len(s) - (n + 1) + 1 : SubSeq(s, n + 1, Len(s))[i] = s[(n + 1) + i - 1]
    BY <1>1, SubSeqProperties
  <1>3. QED  BY <1>1, <1>2 DEF After

LEMMA AfterAfter ==
  ASSUME NEW S, NEW s \in Seq(S), NEW a \in 0 .. Len(s), NEW b \in 0 .. Len(s) - a
  PROVE  After(After(s, a), b) = After(s, a + b)
  <1>1. Len(s) \in Nat /\ a + b \in 0 .. Len(s)
    BY LenProperties
  <1>2. /\ After(s, a) \in Seq(S) /\ Len(After(s, a)) = Len(s) - a
        /\ \A i \in 1 .. Len(s) - a : After(s, a)[i] = s[a + i]
    BY AfterSeq
  <1>3. /\ After(s, a + b) \in Seq(S) /\ Len(After(s, a + b)) = Len(s) - (a + b)
        /\ \A i \in 1 .. Len(s) - (a + b) : After(s, a + b)[i] = s[a + b + i]
    BY <1>1, AfterSeq
  <1> DEFINE t == After(s, a)
  <1> HIDE DEF t
  <1>4. /\ After(t, b) \in Seq(S) /\ Len(After(t, b)) = Len(t) - b
        /\ \A i \in 1 .. Len(t) - b : After(t, b)[i] = t[b + i]
    BY <1>2, AfterSeq DEF t
  <1>5. ASSUME NEW i \in 1 .. Len(s) - (a + b) PROVE After(t, b)[i] = After(s, a + b)[i]
    <2>1. i \in 1 .. Len(t) - b /\ b + i \in 1 .. Len(s) - a /\ a + (b + i) = a + b + i
      BY <1>1, <1>2 DEF t
    <2>2. QED  BY <1>2, <1>3, <1>4, <2>1 DEF t
  <1>6. Len(After(t, b)) = Len(After(s, a + b))
    BY <1>1, <1>2, <1>3, <1>4 DEF t
  <1>7. QED  BY <1>3, <1>4, <1>5, <1>6, SeqEqual DEF t

LEMMA AfterConcat ==
  ASSUME NEW S, NEW s \in Seq(S), NEW t \in Seq(S), NEW n \in 0 .. Len(s)
  PROVE  After(s, n) \o t = After(s \o t, n)
  <1>1. Len(s) \in Nat /\ Len(t) \in Nat
    BY LenProperties
  <1>2. /\ s \o t \in Seq(S) /\ Len(s \o t) = Len(s) + Len(t)
        /\ \A i \in 1 .. Len(s) + Len(t) : (s \o t)[i] = IF i <= Len(s) THEN s[i] ELSE t[i - Len(s)]
    BY ConcatProperties
  <1>3. /\ After(s, n) \in Seq(S) /\ Len(After(s, n)) = Len(s) - n
        /\ \A i \in 1 .. Len(s) - n : After(s, n)[i] = s[n + i]
    BY AfterSeq
  <1> DEFINE a == After(s, n)
             u == s \o t
  <1> HIDE DEF a, u
  <1>4. /\ a \o t \in Seq(S) /\ Len(a \o t) = Len(a) + Len(t)
        /\ \A i \in 1 .. Len(a) + Len(t) : (a \o t)[i] = IF i <= Len(a) THEN a[i] ELSE t[i - Len(a)]
    BY <1>3, ConcatProperties DEF a
  <1>5. /\ After(u, n) \in Seq(S) /\ Len(After(u, n)) = Len(u) - n
        /\ \A i \in 1 .. Len(u) - n : After(u, n)[i] = u[n + i]
    <2>1. n \in 0 .. Len(u)
      BY <1>1, <1>2 DEF u
    <2>2. QED  BY <1>2, <2>1, AfterSeq DEF u
  <1>6. Len(a \o t) = Len(After(u, n)) /\ Len(a \o t) = Len(s) + Len(t) - n
    BY <1>1, <1>2, <1>3, <1>4, <1>5 DEF a, u
  <1>7. ASSUME NEW i \in 1 .. Len(a \o t) PROVE (a \o t)[i] = After(u, n)[i]
    <2>1. i \in 1 .. Len(a) + Len(t) /\ i \in 1 .. Len(u) - n /\ n + i \in 1 .. Len(s) + Len(t)
      BY <1>1, <1>2, <1>3, <1>4, <1>6 DEF a, u
    <2>2. After(u, n)[i] = IF n + i <= Len(s) THEN s[n + i] ELSE t[n + i - Len(s)]
      BY <1>2, <1>5, <2>1, SMTT(30) DEF u
    <2>3. CASE i <= Len(a)
      BY <1>1, <1>3, <1>4, <2>1, <2>2, <2>3 DEF a
    <2>4. CASE ~(i <= Len(a))
      <3>1. i - Len(a) = n + i - Len(s) /\ ~(n + i <= Len(s))
        BY <1>1, <1>3, <2>1, <2>4 DEF a
      <3>2. QED  BY <1>4, <2>1, <2>2, <2>4, <3>1
    <2>5. QED  BY <2>3, <2>4
  <1>8. QED  BY <1>4, <1>5, <1>6, <1>7, SeqEqual DEF a, u

\* Bytes that move from one sequence to the one in front of it.
LEMMA Moved ==
  ASSUME NEW S, NEW s \in Seq(S), NEW t \in Seq(S), NEW n \in 0 .. Len(t)
  PROVE  /\ SubSeq(t, 1, n) \in Seq(S) /\ Len(SubSeq(t, 1, n)) = n
         /\ (s \o SubSeq(t, 1, n)) \o After(t, n) = s \o t
  <1>1. Len(t) \in Nat /\ \A i \in 1 .. n : t[i] \in S
    BY LenProperties, ElementOfSeq
  <1>2. SubSeq(t, 1, n) \in Seq(S) /\ Len(SubSeq(t, 1, n)) = IF 1 <= n THEN n - 1 + 1 ELSE 0
    BY <1>1, SubSeqProperties
  <1>3. After(t, n) \in Seq(S)
    BY AfterSeq
  <1>4. SubSeq(t, 1, n) \o SubSeq(t, n + 1, Len(t)) = SubSeq(t, 1, Len(t))
    <2>1. /\ 1 \in 1 .. Len(t) + 1 /\ n \in 1 - 1 .. Len(t) /\ Len(t) \in n .. Len(t)
      BY <1>1
    <2>2. QED  BY <2>1, ConcatAdjacentSubSeq
  <1>5. SubSeq(t, 1, n) \o After(t, n) = t
    BY <1>4, SubSeqFull DEF After
  <1>6. Len(SubSeq(t, 1, n)) = n
    BY <1>1, <1>2
  <1> DEFINE first == SubSeq(t, 1, n)
             rest  == After(t, n)
  <1>7. first \in Seq(S) /\ rest \in Seq(S)
    BY <1>2, <1>3
  <1> HIDE DEF first, rest
  <1>8. (s \o first) \o rest = s \o (first \o rest)
    BY <1>7, ConcatAssociative, SMTT(30)
  <1>9. QED  BY <1>2, <1>5, <1>6, <1>8 DEF first, rest

-----------------------------------------------------------------------------
\* A response somewhere in a buffer reads as it does alone.

Stands(buf, p, bytes) ==
  /\ p + Len(bytes) <= Len(buf)
  /\ \A k \in 1 .. Len(bytes) : buf[p + k] = bytes[k]

LEMMA StandsReads ==
  ASSUME NEW buf \in Seq(Bytes), NEW bytes \in Seq(Bytes), NEW p \in Nat, Stands(buf, p, bytes)
  PROVE  /\ \A j \in Nat : j + 2 <= Len(bytes) => HeaderAt(buf, p + j) = HeaderAt(bytes, j)
         /\ FrameComplete(bytes, 0) /\ 2 <= Len(bytes) =>
              /\ HeaderAt(buf, p) = HeaderAt(bytes, 0) /\ FrameComplete(buf, p)
              /\ FrameSize(buf, p) = FrameSize(bytes, 0)
              /\ \A s : Mismatch(buf, p, s) <=> Mismatch(bytes, 0, s)
  <1>1. /\ Len(buf) \in Nat /\ Len(bytes) \in Nat /\ p + Len(bytes) <= Len(buf)
        /\ \A k \in 1 .. Len(bytes) : buf[p + k] = bytes[k]
    BY LenProperties DEF Stands
  <1> DEFINE m == p + Len(bytes)
  <1>2. m \in 0 .. Len(buf) /\ p \in 0 .. m /\ m - p = Len(bytes)
    BY <1>1
  <1> HIDE DEF m
  <1>3. Piece(buf, p, m) = bytes
    <2>1. /\ Piece(buf, p, m) \in Seq(Bytes) /\ Len(Piece(buf, p, m)) = m - p
          /\ \A i \in 1 .. m - p : Piece(buf, p, m)[i] = buf[p + i]
      BY <1>2, PieceFacts
    <2>2. QED  BY <1>1, <1>2, <2>1, SeqEqual
  <1>4. ASSUME NEW j \in Nat, j + 2 <= Len(bytes)
        PROVE  /\ HeaderAt(bytes, j) = HeaderAt(buf, p + j)
               /\ HeaderComplete(bytes, j) =>
                    /\ FrameSize(bytes, j) = FrameSize(buf, p + j)
                    /\ \A s : Mismatch(bytes, j, s) <=> Mismatch(buf, p + j, s)
               /\ FrameComplete(bytes, j) => FrameComplete(buf, p + j)
    BY <1>2, <1>3, <1>4, PieceReads
  <1>5. ASSUME FrameComplete(bytes, 0), 2 <= Len(bytes)
        PROVE  /\ HeaderAt(buf, p) = HeaderAt(bytes, 0) /\ FrameComplete(buf, p)
               /\ FrameSize(buf, p) = FrameSize(bytes, 0)
               /\ \A s : Mismatch(buf, p, s) <=> Mismatch(bytes, 0, s)
    <2>1. 0 \in Nat /\ 0 + 2 <= Len(bytes) /\ p + 0 = p
      BY <1>1, <1>5
    <2>2. HeaderComplete(bytes, 0)
      BY <1>5 DEF FrameComplete
    <2>3. QED  BY <1>4, <1>5, <2>1, <2>2
  <1>6. QED  BY <1>4, <1>5

-----------------------------------------------------------------------------
(***************************************************************************)
(* What a parse does to a context, whatever is in its buffer.              *)
(***************************************************************************)

CtxFields == {"in_use", "settings", "next_serial", "serial", "device", "command",
              "address", "count", "code", "values", "rx"}

Whole(c) == c = [f \in CtxFields |-> c[f]]

\* The value store holds words.
Stored(c) == c.values \in [Slots -> Words]

LEMMA ReadStored ==
  ASSUME NEW c, Stored(c), NEW body
  PROVE  ReadValues(c, body) \in [Slots -> Words]
  <1>1. c.values \in [Slots -> Words]
    BY DEF Stored
  <1>2. \A n : WordOf(n) \in Words
    BY DEF WordOf, Words
  <1>3. CASE IsBitDevice(c.device)
    <2>1. ReadValues(c, body) =
            [k \in Slots |-> {b \in 0 .. BitsPerWord - 1 :
               IF BitsPerWord * k + b < c.count
               THEN NibbleOf(body, BitsPerWord * k + b) = 1 ELSE b \in c.values[k]}]
      BY <1>3 DEF ReadValues
    <2>2. QED  BY <2>1 DEF Words
  <1>4. CASE ~IsBitDevice(c.device)
    <2>1. ReadValues(c, body) =
            [k \in Slots |-> IF k < c.count THEN WordOf(WordAt(body, 2 * k)) ELSE c.values[k]]
      BY <1>4 DEF ReadValues
    <2>2. QED  BY <1>1, <1>2, <2>1
  <1>5. QED  BY <1>3, <1>4

\* A parse changes nothing of a context but its buffer and what was read.
Parsed(c, d) ==
  /\ Whole(d) /\ d.in_use = c.in_use /\ d.settings = c.settings
  /\ d.next_serial = c.next_serial /\ d.serial = c.serial
  /\ d.device = c.device /\ d.command = c.command /\ d.count \in {0, c.count}
  /\ Stored(c) => Stored(d)

TakenStatus == {"OK", "RESPONSE_ERROR", "INVALID_COUNT"}

LEMMA PduCut ==
  ASSUME NEW rx \in Seq(Bytes), NEW size \in Nat, 2 <= size, size <= Len(rx)
  PROVE  LET body == After(rx, PduHeaderSize) IN
         /\ body = After(rx, 2) /\ body \in Seq(Bytes) /\ Len(body) = Len(rx) - 2
         /\ \A k \in 1 .. Len(rx) - 2 : body[k] = rx[2 + k]
         /\ After(body, size - PduHeaderSize) = After(rx, size)
  <1>1. Len(rx) \in Nat
    BY LenProperties
  <1>2. 2 \in 0 .. Len(rx) /\ size - 2 \in 0 .. Len(rx) - 2 /\ 2 + (size - 2) = size
    BY <1>1
  <1>3. /\ After(rx, 2) \in Seq(Bytes) /\ Len(After(rx, 2)) = Len(rx) - 2
        /\ \A k \in 1 .. Len(rx) - 2 : After(rx, 2)[k] = rx[2 + k]
    BY <1>2, AfterSeq
  <1>4. After(After(rx, 2), size - 2) = After(rx, 2 + (size - 2))
    BY <1>2, AfterAfter
  <1>5. QED  BY <1>2, <1>3, <1>4 DEF PduHeaderSize

LEMMA PduParses ==
  ASSUME NEW c, Whole(c), c.rx \in Seq(Bytes), NEW size \in Nat, 2 <= size, size <= Len(c.rx)
  PROVE  LET r == ParsePdu(c, size) IN
         /\ r.st \in TakenStatus /\ Parsed(c, r.ctx)
         /\ \E d \in 2 .. size : r.ctx.rx = After(c.rx, d)
  <1> DEFINE code  == WordAt(c.rx, 0)
             body  == After(c.rx, PduHeaderSize)
             rest  == After(body, size - PduHeaderSize)
             coded == [c EXCEPT !.code = code, !.rx = body]
             taken == [coded EXCEPT !.rx = rest]
             none  == [taken EXCEPT !.count = 0]
             kept  == ReadValues(c, body)
             read  == [taken EXCEPT !.values = kept]
  <1>1. Len(c.rx) \in Nat
    BY LenProperties
  <1>2. body = After(c.rx, 2)
    BY DEF PduHeaderSize
  <1>3. rest = After(c.rx, size) /\ (Stored(c) => kept \in [Slots -> Words])
    BY PduCut, ReadStored
  <1> HIDE DEF code, body, rest, kept
  <1>4. Parsed(c, coded) /\ coded.rx = body
    BY DEF Whole, Parsed, CtxFields, Stored
  <1>5. Parsed(c, taken) /\ taken.rx = rest
    BY DEF Whole, Parsed, CtxFields, Stored
  <1>6. Parsed(c, none) /\ none.rx = rest
    BY DEF Whole, Parsed, CtxFields, Stored
  <1>7. Parsed(c, read) /\ read.rx = rest
    BY <1>3 DEF Whole, Parsed, CtxFields, Stored
  <1>8. ParsePdu(c, size) \in {Fail("RESPONSE_ERROR", none), Fail("INVALID_COUNT", taken),
                                Ok(none), Fail("INVALID_COUNT", coded), Ok(read)}
    BY DEF ParsePdu, code, body, rest, coded, taken, none, kept, read
  <1> HIDE DEF coded, taken, none, read
  <1>9. 2 \in 2 .. size /\ size \in 2 .. size
    OBVIOUS
  <1>10. QED
    BY <1>2, <1>3, <1>4, <1>5, <1>6, <1>7, <1>8, <1>9 DEF Ok, Fail, TakenStatus

LEMMA ParseParses ==
  ASSUME NEW c, Whole(c), c.rx \in Seq(Bytes)
  PROVE  LET r == ParseResponse(c)
             p == StopAt(c.rx, c.serial)
         IN  /\ p \in 0 .. Len(c.rx) /\ Parsed(c, r.ctx)
             /\ r.st \in TakenStatus =>
                  /\ p \in Candidates(c.rx) /\ FrameComplete(c.rx, p) /\ ~Mismatch(c.rx, p, c.serial)
                  /\ p + FrameSize(c.rx, p) <= Len(c.rx)
                  /\ \E d \in p + 1 .. p + FrameSize(c.rx, p) : r.ctx.rx = After(c.rx, d)
             /\ r.st \notin TakenStatus =>
                  /\ r.st \in {"NEED_MORE", "RESYNC"} /\ r.ctx.rx = After(c.rx, p)
                  /\ r.ctx.count = c.count
             /\ r.st = "NEED_MORE" => VerdictAt(c.rx, p) = "need_more"
  <1> DEFINE p    == StopAt(c.rx, c.serial)
             rest == [c EXCEPT !.rx = After(@, p)]
             n    == p + HeaderSize(HeaderAt(c.rx, p))
             opened == [c EXCEPT !.rx = After(@, n)]
             size == PacketSize(c.rx, p)
  <1>1. Len(c.rx) \in Nat
    BY LenProperties
  <1>2. p \in 0 .. Len(c.rx)
    <2> HIDE DEF p
    <2>1. p \in Nat /\ p <= Remainder(c.rx)
      BY <1>1, StopProperties DEF p
    <2>2. QED  BY <1>1, <2>1, Places
  <1>3. VerdictAt(c.rx, p) = Verdict(c.rx, c.serial)
    BY DEF Verdict
  <1>4. Parsed(c, rest) /\ rest.rx = After(c.rx, p) /\ rest.count = c.count
    <2> HIDE DEF p
    <2>1. QED  BY DEF Whole, Parsed, CtxFields, Stored
  <1>5. ParseResponse(c) = IF VerdictAt(c.rx, p) = "frame" THEN ParsePdu(opened, size)
                           ELSE IF VerdictAt(c.rx, p) = "resync" THEN Fail("RESYNC", rest)
                           ELSE Fail("NEED_MORE", rest)
    BY DEF ParseResponse, ParseAt
  <1>6. VerdictAt(c.rx, p) \in {"frame", "resync", "need_more"}
    BY DEF VerdictAt
  <1>7. CASE VerdictAt(c.rx, p) = "frame"
    <2>1. p \in Candidates(c.rx) /\ FrameComplete(c.rx, p) /\ ~Mismatch(c.rx, p, c.serial)
      BY <1>3, <1>7, FrameFound DEF p
    <2> HIDE DEF p
    <2>2. HeaderSize(HeaderAt(c.rx, p)) \in Nat
      BY LayoutAssumption DEF HeaderSize
    <2>3. size \in 2 .. IoBufSize /\ IoBufSize \in Nat
      BY <2>1, LayoutAssumption DEF Mismatch, FrameComplete, PduHeaderSize
    <2>4. FrameSize(c.rx, p) = HeaderSize(HeaderAt(c.rx, p)) + size /\ Len(c.rx) - p >= FrameSize(c.rx, p)
      BY <2>1 DEF FrameComplete, FrameSize
    <2> HIDE DEF size
    <2>5. /\ size \in Nat /\ 2 <= size /\ n \in Nat /\ p <= n /\ n + size = p + FrameSize(c.rx, p)
          /\ n + size <= Len(c.rx) /\ n \in 0 .. Len(c.rx)
      BY <1>1, <1>2, <2>2, <2>3, <2>4
    <2> HIDE DEF n
    <2>6. Parsed(c, opened) /\ opened.rx = After(c.rx, n) /\ opened.count = c.count
      BY DEF Whole, Parsed, CtxFields, Stored
    <2>7. After(c.rx, n) \in Seq(Bytes) /\ Len(After(c.rx, n)) = Len(c.rx) - n
      BY <2>5, AfterSeq
    <2> DEFINE r == ParsePdu(opened, size)
    <2> HIDE DEF opened
    <2>8. /\ r.st \in TakenStatus /\ Parsed(opened, r.ctx)
          /\ \E d \in 2 .. size : r.ctx.rx = After(opened.rx, d)
      <3>1. Whole(opened) /\ opened.rx \in Seq(Bytes) /\ size <= Len(opened.rx)
        BY <1>1, <2>5, <2>6, <2>7 DEF Parsed
      <3>2. QED  BY <2>5, <3>1, PduParses
    <2> HIDE DEF r
    <2>9. PICK d \in 2 .. size : r.ctx.rx = After(opened.rx, d)
      BY <2>8
    <2>10. After(After(c.rx, n), d) = After(c.rx, n + d) /\ n + d \in p + 1 .. p + FrameSize(c.rx, p)
      <3>1. d \in 0 .. Len(c.rx) - n
        BY <1>1, <2>5
      <3>2. n + d \in p + 1 .. n + size
        BY <1>1, <1>2, <2>5
      <3>3. QED  BY <2>5, <3>1, <3>2, AfterAfter
    <2>11. Parsed(c, r.ctx)
      BY <2>6, <2>8 DEF Parsed
    <2>12. ParseResponse(c) = r
      BY <1>5, <1>7 DEF r
    <2>13. r.st # "NEED_MORE"
      BY <2>8 DEF TakenStatus
    <2>14. QED  BY <1>2, <2>1, <2>5, <2>6, <2>8, <2>9, <2>10, <2>11, <2>12, <2>13 DEF p
  <1>8. CASE VerdictAt(c.rx, p) = "resync"
    <2>1. ParseResponse(c) = Fail("RESYNC", rest)
      BY <1>5, <1>8
    <2> HIDE DEF rest
    <2>2. QED  BY <1>2, <1>4, <2>1 DEF Fail, TakenStatus
  <1>9. CASE VerdictAt(c.rx, p) = "need_more"
    <2>1. ParseResponse(c) = Fail("NEED_MORE", rest)
      BY <1>5, <1>9
    <2> HIDE DEF rest
    <2>2. QED  BY <1>2, <1>4, <1>9, <2>1 DEF Fail, TakenStatus
  <1>10. QED  BY <1>6, <1>7, <1>8, <1>9

-----------------------------------------------------------------------------
(***************************************************************************)
(* What a parse hands out when it meets the answer to the request that the *)
(* context made last.                                                      *)
(***************************************************************************)

\* The numbers a station gives: those asked for by a read, or none.
Answers(w, code, vals) ==
  /\ Numbered(w, vals)
  /\ IF code = 0 /\ w.command = "READ" THEN Len(vals) = w.count ELSE vals = <<>>

\* The context waits for the answer to the request w.
Awaits(c, w) == c.command = w.command /\ c.device = w.device /\ c.count = w.count

\* Index by index, the context holds these values.
Holds(c, vals) ==
  /\ c.count = Len(vals)
  /\ \A i \in 0 .. c.count - 1 :
       GetResponseValue(c, i) =
         IF IsBitDevice(c.device) THEN (IF vals[i + 1] = 1 THEN BitTrue ELSE {})
         ELSE WordOf(vals[i + 1])

\* The value store after a read: bits in their slots, words in theirs.
LEMMA ReadsBack ==
  ASSUME NEW c, NEW d, NEW body, NEW vals \in Seq(Numbers16),
         d.values = ReadValues(c, body), d.device = c.device, d.count = c.count,
         c.count = Len(vals), c.count <= MaxCount(c.device),
         IsBitDevice(c.device) => \A i \in 0 .. Len(vals) - 1 : NibbleOf(body, i) = vals[i + 1],
         ~IsBitDevice(c.device) => \A i \in 0 .. Len(vals) - 1 : WordAt(body, 2 * i) = vals[i + 1]
  PROVE  Holds(d, vals)
  <1>1. Len(vals) \in Nat /\ MaxValueCount \in Nat
    <2>1. Len(vals) \in Nat
      BY LenProperties
    <2>2. QED  BY <2>1, SerialsAreNat
  <1>2. ASSUME NEW i \in 0 .. c.count - 1
        PROVE  GetResponseValue(d, i) =
                 IF IsBitDevice(d.device) THEN (IF vals[i + 1] = 1 THEN BitTrue ELSE {})
                 ELSE WordOf(vals[i + 1])
    <2>1. CASE IsBitDevice(c.device)
      <3> DEFINE k == SlotOf(i)
                 b == BitOf(i)
      <3>1. i \in Nat /\ i < Len(vals) /\ Len(vals) <= 16 * MaxValueCount
        BY <1>1, <2>1 DEF MaxCount, MaxBitValueCount, BitsPerWord
      <3>2. k \in Slots /\ b \in 0 .. BitsPerWord - 1 /\ BitsPerWord * k + b = i
        BY <1>1, <3>1 DEF SlotOf, BitOf, Slots, BitsPerWord
      <3> HIDE DEF k, b
      <3>3. d.values = [s \in Slots |-> {x \in 0 .. BitsPerWord - 1 :
                          IF BitsPerWord * s + x < c.count
                          THEN NibbleOf(body, BitsPerWord * s + x) = 1 ELSE x \in c.values[s]}]
        BY <2>1 DEF ReadValues
      <3>4. b \in d.values[k] <=> (IF BitsPerWord * k + b < c.count
                                   THEN NibbleOf(body, BitsPerWord * k + b) = 1 ELSE b \in c.values[k])
        BY <3>2, <3>3
      <3>5. b \in d.values[k] <=> NibbleOf(body, i) = 1
        BY <3>1, <3>2, <3>4
      <3>6. NibbleOf(body, i) = vals[i + 1]
        BY <2>1
      <3>7. QED  BY <2>1, <3>5, <3>6 DEF GetResponseValue, k, b
    <2>2. CASE ~IsBitDevice(c.device)
      <3>1. i \in Slots /\ i < c.count
        BY <1>1, <2>2 DEF MaxCount, Slots
      <3>2. d.values = [k \in Slots |-> IF k < c.count THEN WordOf(WordAt(body, 2 * k)) ELSE c.values[k]]
        BY <2>2 DEF ReadValues
      <3>3. d.values[i] = WordOf(WordAt(body, 2 * i))
        BY <3>1, <3>2
      <3>4. WordAt(body, 2 * i) = vals[i + 1]
        BY <2>2
      <3>5. QED  BY <2>2, <3>3, <3>4 DEF GetResponseValue
    <2>3. QED  BY <2>1, <2>2
  <1>3. QED  BY <1>2 DEF Holds

\* The payload of a read says the numbers, whichever way they were packed.
LEMMA BodySays ==
  ASSUME NEW w, Asked(w), NEW vals, Numbered(w, vals), NEW body \in Seq(Bytes),
         Len(Body(w, 0, vals)) <= Len(body),
         \A k \in 1 .. Len(Body(w, 0, vals)) : body[k] = Body(w, 0, vals)[k]
  PROVE  /\ IsBitDevice(w.device) => \A i \in 0 .. Len(vals) - 1 : NibbleOf(body, i) = vals[i + 1]
         /\ ~IsBitDevice(w.device) => \A i \in 0 .. Len(vals) - 1 : WordAt(body, 2 * i) = vals[i + 1]
  <1>1. vals \in Seq(Numbers16) /\ Len(vals) \in Nat /\ (IsBitDevice(w.device) => vals \in Seq({0, 1}))
    BY LenProperties DEF Numbered
  <1>2. ASSUME IsBitDevice(w.device), NEW i \in 0 .. Len(vals) - 1
        PROVE  NibbleOf(body, i) = vals[i + 1]
    <2>1. Body(w, 0, vals) = BitBytes(vals)
      BY <1>2 DEF Body
    <2>2. Len(BitBytes(vals)) = (Len(vals) + 1) \div 2 /\ NibbleOf(BitBytes(vals), i) = vals[i + 1]
      BY <1>1, <1>2, BitBytesFacts
    <2>3. i \div 2 + 1 \in 1 .. (Len(vals) + 1) \div 2
      BY <1>1
    <2>4. body[i \div 2 + 1] = BitBytes(vals)[i \div 2 + 1]
      BY <2>1, <2>2, <2>3
    <2>5. QED  BY <2>2, <2>4 DEF NibbleOf
  <1>3. ASSUME ~IsBitDevice(w.device), NEW i \in 0 .. Len(vals) - 1
        PROVE  WordAt(body, 2 * i) = vals[i + 1]
    <2>1. Body(w, 0, vals) = WordBytes(vals)
      BY <1>3 DEF Body
    <2>2. /\ Len(WordBytes(vals)) = 2 * Len(vals)
          /\ WordBytes(vals)[2 * i + 1] = vals[i + 1] % 256
          /\ WordBytes(vals)[2 * i + 2] = vals[i + 1] \div 256
      BY <1>1, WordBytesFacts
    <2>3. 2 * i + 1 \in 1 .. 2 * Len(vals) /\ 2 * i + 2 \in 1 .. 2 * Len(vals)
      BY <1>1
    <2>4. body[2 * i + 1] = vals[i + 1] % 256 /\ body[2 * i + 2] = vals[i + 1] \div 256
      BY <2>1, <2>2, <2>3
    <2>5. (vals[i + 1] % 256) + 256 * (vals[i + 1] \div 256) = vals[i + 1]
      <3>1. vals[i + 1] \in Numbers16
        BY <1>1, ElementOfSeq
      <3>2. QED  BY <3>1, Halves
    <2>6. QED  BY <2>4, <2>5 DEF WordAt
  <1>4. QED  BY <1>2, <1>3

LEMMA PduAnswers ==
  ASSUME NEW w, Asked(w), NEW code \in Bytes, NEW vals, Answers(w, code, vals),
         NEW c, Whole(c), c.rx \in Seq(Bytes), Awaits(c, w),
         2 + Len(Body(w, code, vals)) <= Len(c.rx), WordAt(c.rx, 0) = code,
         \A k \in 1 .. Len(Body(w, code, vals)) : c.rx[2 + k] = Body(w, code, vals)[k]
  PROVE  LET size == 2 + Len(Body(w, code, vals))
             r    == ParsePdu(c, size)
         IN  /\ r.st = (IF code = 0 THEN "OK" ELSE "RESPONSE_ERROR")
             /\ r.ctx.rx = After(c.rx, size) /\ r.ctx.code = code
             /\ r.st = "OK" /\ w.command = "READ" => Holds(r.ctx, vals)
  <1> DEFINE size  == 2 + Len(Body(w, code, vals))
             body  == After(c.rx, PduHeaderSize)
             rest  == After(body, size - PduHeaderSize)
             coded == [c EXCEPT !.code = WordAt(c.rx, 0), !.rx = body]
             taken == [coded EXCEPT !.rx = rest]
             none  == [taken EXCEPT !.count = 0]
             kept  == ReadValues(c, body)
             read  == [taken EXCEPT !.values = kept]
             asked == c.count \in 1 .. MaxCount(c.device) /\ size - PduHeaderSize = PayloadSize(c.device, c.count)
             odd   == ~IsBitDevice(c.device) /\ (size - PduHeaderSize) % 2 = 1
  <1>1. /\ Numbered(w, vals) /\ vals \in Seq(Numbers16) /\ Len(vals) \in Nat
        /\ (code = 0 /\ w.command = "READ" => Len(vals) = w.count)
        /\ (~(code = 0 /\ w.command = "READ") => vals = <<>>)
        /\ Len(c.rx) \in Nat
    BY LenProperties DEF Answers, Numbered
  <1>2. /\ Len(Body(w, code, vals)) \in Nat
        /\ Len(Body(w, code, vals)) = IF code # 0 THEN 9 ELSE PayloadSize(w.device, Len(vals))
    BY <1>1, BodyFacts
  <1>3. size \in Nat /\ 2 <= size /\ size - PduHeaderSize = Len(Body(w, code, vals)) /\ size <= Len(c.rx)
    BY <1>2 DEF PduHeaderSize
  <1> HIDE DEF size
  <1>4. /\ body \in Seq(Bytes) /\ Len(body) = Len(c.rx) - 2
        /\ \A k \in 1 .. Len(c.rx) - 2 : body[k] = c.rx[2 + k]
    BY <1>3, PduCut
  <1>5. rest = After(c.rx, size)
    BY <1>3, PduCut
  <1>6. ParsePdu(c, size) =
          IF WordAt(c.rx, 0) # 0 THEN Fail("RESPONSE_ERROR", none)
          ELSE IF c.command = "WRITE"
          THEN IF size - PduHeaderSize > 0 THEN Fail("INVALID_COUNT", taken) ELSE Ok(none)
          ELSE IF odd THEN Fail("INVALID_COUNT", coded)
          ELSE IF ~asked THEN Fail("INVALID_COUNT", taken)
          ELSE Ok(read)
    BY DEF ParsePdu
  <1> HIDE DEF body, rest, kept
  <1>7. taken.rx = rest /\ none.rx = rest /\ read.rx = rest
        /\ none.code = code /\ read.code = code
        /\ read.values = kept /\ read.count = c.count /\ read.device = c.device
    BY DEF Whole, CtxFields
  <1> HIDE DEF coded, taken, none, read
  <1>8. CASE code # 0
    <2>1. ParsePdu(c, size) = Fail("RESPONSE_ERROR", none)
      BY <1>6, <1>8
    <2>2. QED  BY <1>5, <1>7, <1>8, <2>1 DEF Fail, size
  <1>9. CASE code = 0 /\ w.command = "WRITE"
    <2>1. Len(vals) = 0
      BY <1>1, <1>9, EmptySeq
    <2>2. PayloadSize(w.device, Len(vals)) = 0
      BY <2>1 DEF PayloadSize
    <2>3. ~(size - PduHeaderSize > 0)
      BY <1>2, <1>3, <1>9, <2>2
    <2>4. ParsePdu(c, size) = Ok(none)
      BY <1>6, <1>9, <2>3 DEF Awaits
    <2>5. QED  BY <1>5, <1>7, <1>9, <2>4 DEF Ok, size
  <1>10. CASE code = 0 /\ w.command = "READ"
    <2>1. size - PduHeaderSize = PayloadSize(c.device, c.count) /\ c.count = Len(vals)
      BY <1>1, <1>2, <1>3, <1>10 DEF Awaits
    <2>2. asked
      BY <2>1 DEF Asked, Awaits
    <2>3. ~odd
      BY <1>1, <2>1 DEF PayloadSize
    <2>4. ParsePdu(c, size) = Ok(read)
      BY <1>6, <1>10, <2>2, <2>3 DEF Awaits
    <2>5. Holds(read, vals)
      <3>1. /\ Len(Body(w, 0, vals)) <= Len(body)
            /\ \A k \in 1 .. Len(Body(w, 0, vals)) : body[k] = Body(w, 0, vals)[k]
        BY <1>1, <1>2, <1>3, <1>4, <1>10 DEF PduHeaderSize
      <3>2. /\ IsBitDevice(c.device) => \A i \in 0 .. Len(vals) - 1 : NibbleOf(body, i) = vals[i + 1]
            /\ ~IsBitDevice(c.device) => \A i \in 0 .. Len(vals) - 1 : WordAt(body, 2 * i) = vals[i + 1]
        <4>1. c.device = w.device /\ Numbered(w, vals) /\ body \in Seq(Bytes)
          BY <1>1, <1>4 DEF Awaits
        <4>2. /\ IsBitDevice(w.device) => \A i \in 0 .. Len(vals) - 1 : NibbleOf(body, i) = vals[i + 1]
              /\ ~IsBitDevice(w.device) => \A i \in 0 .. Len(vals) - 1 : WordAt(body, 2 * i) = vals[i + 1]
          BY <3>1, <4>1, BodySays
        <4>3. QED  BY <4>1, <4>2
      <3>3. c.count <= MaxCount(c.device)
        BY <1>1, <2>1 DEF Numbered, Awaits
      <3>4. read.values = ReadValues(c, body)
        BY <1>7 DEF kept
      <3>5. QED  BY <1>1, <1>7, <2>1, <3>2, <3>3, <3>4, ReadsBack
    <2>6. QED  BY <1>5, <1>7, <1>10, <2>4, <2>5 DEF Ok, size
  <1>11. QED  BY <1>8, <1>9, <1>10 DEF Asked, Commands

\* The search stops where the whole answer stands: it is handed out, and taken
\* off the buffer with all that was before it.
LEMMA ParseAnswers ==
  ASSUME NEW w, Asked(w), NEW code \in Bytes, NEW vals, Answers(w, code, vals),
         NEW c, Whole(c), c.rx \in Seq(Bytes), Awaits(c, w),
         ParseResponse(c).st \in TakenStatus,
         Stands(c.rx, StopAt(c.rx, c.serial), Response(w, code, vals))
  PROVE  LET r == ParseResponse(c)
             n == StopAt(c.rx, c.serial) + Len(Response(w, code, vals))
         IN  /\ r.st = (IF code = 0 THEN "OK" ELSE "RESPONSE_ERROR")
             /\ r.ctx.rx = After(c.rx, n) /\ r.ctx.code = code
             /\ r.st = "OK" /\ w.command = "READ" => Holds(r.ctx, vals)
  <1> DEFINE bytes  == Response(w, code, vals)
             body   == Body(w, code, vals)
             h      == w.settings.header
             p      == StopAt(c.rx, c.serial)
             n      == p + HeaderSize(HeaderAt(c.rx, p))
             opened == [c EXCEPT !.rx = After(@, n)]
             size   == PacketSize(c.rx, p)
             m      == p + HeaderSize(h)
  <1>1. Numbered(w, vals)
    BY DEF Answers
  <1>2. /\ bytes \in Seq(Bytes) /\ Len(bytes) = HeaderSize(h) + 2 + Len(body)
        /\ HeaderAt(bytes, 0) = h /\ FrameSize(bytes, 0) = Len(bytes) /\ FrameComplete(bytes, 0)
        /\ WordAt(bytes, HeaderSize(h)) = code
        /\ \A k \in 1 .. Len(body) : bytes[HeaderSize(h) + 2 + k] = body[k]
    BY <1>1, ResponseFacts
  <1>3. Len(body) \in Nat /\ Len(c.rx) \in Nat /\ HeaderSize(h) \in Nat
    BY <1>1, BodyFacts, LenProperties, LayoutAssumption DEF HeaderSize
  <1>4. /\ p \in 0 .. Len(c.rx) /\ FrameComplete(c.rx, p) /\ ~Mismatch(c.rx, p, c.serial)
    BY ParseParses
  <1>5. VerdictAt(c.rx, p) = "frame"
    BY DEF ParseResponse, ParseAt, Fail, TakenStatus
  <1>6. ParseResponse(c) = ParsePdu(opened, size)
    BY <1>5 DEF ParseResponse, ParseAt
  <1>7. Stands(c.rx, p, bytes)
    OBVIOUS
  <1> HIDE DEF bytes, body, p
  <1>8. HeaderAt(c.rx, p) = h /\ FrameSize(c.rx, p) = Len(bytes)
    BY <1>2, <1>3, <1>4, <1>7, StandsReads
  <1>9. n = m /\ size = 2 + Len(body)
    <2>1. size \in 2 .. IoBufSize /\ IoBufSize \in Nat
      BY <1>4, LayoutAssumption DEF Mismatch, FrameComplete, PduHeaderSize
    <2>2. Len(bytes) = HeaderSize(h) + size /\ n = m
      BY <1>8 DEF FrameSize
    <2>3. Len(bytes) = HeaderSize(h) + 2 + Len(body)
      BY <1>2
    <2> DEFINE hs == HeaderSize(h)
               lb == Len(body)
    <2>4. hs \in Nat /\ lb \in Nat
      BY <1>3
    <2> HIDE DEF size, n, m, hs, lb
    <2>5. hs + 2 + lb = hs + size
      BY <2>2, <2>3 DEF hs, lb
    <2>6. size = 2 + lb
      BY <2>1, <2>4, <2>5
    <2>7. QED  BY <2>2, <2>6 DEF lb
  <1> HIDE DEF n, size
  <1>10. /\ m + 2 + Len(body) <= Len(c.rx) /\ m \in 0 .. Len(c.rx)
         /\ \A k \in 1 .. HeaderSize(h) + 2 + Len(body) : c.rx[p + k] = bytes[k]
    BY <1>2, <1>3, <1>4, <1>7 DEF Stands
  <1>11. /\ Whole(opened) /\ opened.rx = After(c.rx, m) /\ opened.count = c.count
         /\ opened.command = c.command /\ opened.device = c.device
    <2> HIDE DEF m
    <2>1. QED  BY <1>9 DEF Whole, CtxFields
  <1>12. /\ After(c.rx, m) \in Seq(Bytes) /\ Len(After(c.rx, m)) = Len(c.rx) - m
         /\ \A i \in 1 .. Len(c.rx) - m : After(c.rx, m)[i] = c.rx[m + i]
    <2> HIDE DEF m
    <2>1. QED  BY <1>10, AfterSeq
  <1> DEFINE rx == After(c.rx, m)
  <1>13. ASSUME NEW j \in 1 .. 2 + Len(body)
         PROVE  rx[j] = bytes[HeaderSize(h) + j]
    <2>1. j \in 1 .. Len(c.rx) - m /\ HeaderSize(h) + j \in 1 .. HeaderSize(h) + 2 + Len(body)
          /\ m + j = p + (HeaderSize(h) + j)
      <3>1. m \in Nat /\ m = p + HeaderSize(h) /\ p \in Nat
        BY <1>4, <1>10
      <3> HIDE DEF m
      <3>2. j \in 1 .. Len(c.rx) - m
        <4>1. Len(c.rx) \in Nat /\ Len(body) \in Nat /\ m + 2 + Len(body) <= Len(c.rx)
          BY <1>3, <1>10
        <4>2. QED  BY <3>1, <4>1
      <3>4. HeaderSize(h) + j \in 1 .. HeaderSize(h) + 2 + Len(body) /\ HeaderSize(h) \in Nat
        BY <1>3
      <3>3. QED  BY <3>1, <3>2, <3>4
    <2> HIDE DEF m
    <2>2. QED  BY <1>10, <1>12, <2>1
  <1> HIDE DEF rx, m
  <1>14. WordAt(rx, 0) = code
    <2>1. rx[1] = bytes[HeaderSize(h) + 1] /\ rx[2] = bytes[HeaderSize(h) + 2]
      BY <1>3, <1>13
    <2>2. QED  BY <1>2, <2>1 DEF WordAt
  <1>15. \A k \in 1 .. Len(body) : rx[2 + k] = body[k]
    <2>1. ASSUME NEW k \in 1 .. Len(body) PROVE rx[2 + k] = body[k]
      <3>1. 2 + k \in 1 .. 2 + Len(body) /\ HeaderSize(h) + (2 + k) = HeaderSize(h) + 2 + k
        BY <1>3
      <3>2. QED  BY <1>2, <1>13, <3>1
    <2>2. QED  BY <2>1
  <1>16. Awaits(opened, w)
    BY <1>11 DEF Awaits
  <1> HIDE DEF opened
  <1> DEFINE r == ParsePdu(opened, 2 + Len(body))
  <1>17. /\ r.st = (IF code = 0 THEN "OK" ELSE "RESPONSE_ERROR")
         /\ r.ctx.rx = After(opened.rx, 2 + Len(body)) /\ r.ctx.code = code
         /\ r.st = "OK" /\ w.command = "READ" => Holds(r.ctx, vals)
    <2>1. opened.rx = rx /\ rx \in Seq(Bytes) /\ 2 + Len(body) <= Len(rx)
      BY <1>3, <1>10, <1>11, <1>12 DEF rx
    <2>2. /\ opened.rx \in Seq(Bytes) /\ 2 + Len(Body(w, code, vals)) <= Len(opened.rx)
          /\ WordAt(opened.rx, 0) = code
          /\ \A k \in 1 .. Len(Body(w, code, vals)) : opened.rx[2 + k] = Body(w, code, vals)[k]
      BY <1>14, <1>15, <2>1 DEF body
    <2>3. QED  BY <1>11, <1>16, <2>2, PduAnswers DEF body
  <1>18. After(opened.rx, 2 + Len(body)) = After(c.rx, p + Len(bytes))
    <2>1. 2 + Len(body) \in 0 .. Len(c.rx) - m /\ m + (2 + Len(body)) = p + Len(bytes)
      BY <1>2, <1>3, <1>4, <1>10, SMTT(30) DEF m
    <2>2. After(After(c.rx, m), 2 + Len(body)) = After(c.rx, m + (2 + Len(body)))
      BY <1>10, <2>1, AfterAfter
    <2>3. QED  BY <1>11, <2>1, <2>2
  <1> HIDE DEF r
  <1>19. QED  BY <1>6, <1>9, <1>17, <1>18 DEF r, p, bytes

-----------------------------------------------------------------------------
(***************************************************************************)
(* Bytes in flight.  A flow is made of whole responses, the first of which *)
(* may have lost its beginning: R[i] starts where the tag is i, and the    *)
(* responses are in order.                                                 *)
(***************************************************************************)
Flow(buf, tag, R, m) ==
  /\ buf \in Seq(Bytes) /\ tag \in Seq(0 .. m) /\ Len(tag) = Len(buf)
  /\ \A p \in 0 .. Len(buf) - 1 : tag[p + 1] # 0 =>
       LET bytes == R[tag[p + 1]] IN
       /\ Stands(buf, p, bytes)
       /\ \A k \in 2 .. Len(bytes) : tag[p + k] = 0
       /\ p + Len(bytes) < Len(buf) => tag[p + Len(bytes) + 1] # 0
  /\ \A p, q \in 0 .. Len(buf) - 1 :
       p < q /\ tag[p + 1] # 0 /\ tag[q + 1] # 0 => tag[p + 1] < tag[q + 1]

\* A response that reads as one: a subheader, and a size that is its length.
Framed(bytes) ==
  /\ bytes \in Seq(Bytes) /\ 2 <= Len(bytes) /\ HeaderAt(bytes, 0) # "none"
  /\ FrameComplete(bytes, 0) /\ FrameSize(bytes, 0) = Len(bytes)

Tagged(bytes, i) == [k \in 1 .. Len(bytes) |-> IF k = 1 THEN i ELSE 0]

LEMMA FlowDrop ==
  ASSUME NEW m \in Nat, NEW R, NEW buf, NEW tag, Flow(buf, tag, R, m), NEW d \in 0 .. Len(buf),
         \A i \in 1 .. m : R[i] \in Seq(Bytes)
  PROVE  Flow(After(buf, d), After(tag, d), R, m)
  <1> DEFINE b == After(buf, d)
             t == After(tag, d)
  <1>1. /\ buf \in Seq(Bytes) /\ tag \in Seq(0 .. m) /\ Len(tag) = Len(buf) /\ Len(buf) \in Nat
        /\ d \in 0 .. Len(tag)
    BY LenProperties DEF Flow
  <1>2. /\ b \in Seq(Bytes) /\ Len(b) = Len(buf) - d
        /\ \A i \in 1 .. Len(buf) - d : b[i] = buf[d + i]
    BY <1>1, AfterSeq
  <1>3. /\ t \in Seq(0 .. m) /\ Len(t) = Len(buf) - d
        /\ \A i \in 1 .. Len(buf) - d : t[i] = tag[d + i]
    BY <1>1, AfterSeq
  <1> HIDE DEF b, t
  <1>5. ASSUME NEW p \in 0 .. Len(b) - 1
        PROVE  /\ p \in Nat /\ d + p \in 0 .. Len(buf) - 1 /\ t[p + 1] = tag[(d + p) + 1]
               /\ tag[(d + p) + 1] \in 0 .. m
    <2>1. p + 1 \in 1 .. Len(buf) - d /\ d + (p + 1) = (d + p) + 1 /\ (d + p) + 1 \in 1 .. Len(tag)
      BY SMTT(30), <1>1, <1>2
    <2>2. t[p + 1] = tag[d + (p + 1)]
      BY <1>3, <2>1
    <2>3. tag[(d + p) + 1] \in 0 .. m
      BY <1>1, <2>1, ElementOfSeq
    <2>4. p \in Nat /\ d + p \in 0 .. Len(buf) - 1
      <3>1. Len(b) = Len(buf) - d /\ Len(buf) \in Nat /\ d \in 0 .. Len(buf)
        BY <1>1, <1>2
      <3>2. QED  BY <3>1
    <2>5. d + (p + 1) = (d + p) + 1
      BY <2>1
    <2>6. QED  BY <2>2, <2>3, <2>4, <2>5
  <1>7. ASSUME NEW p \in 0 .. Len(b) - 1, t[p + 1] # 0
        PROVE  LET bytes == R[t[p + 1]] IN
               /\ Stands(b, p, bytes)
               /\ \A k \in 2 .. Len(bytes) : t[p + k] = 0
               /\ p + Len(bytes) < Len(b) => t[p + Len(bytes) + 1] # 0
    <2> DEFINE bytes == R[t[p + 1]]
    <2>1. bytes \in Seq(Bytes) /\ Len(bytes) \in Nat
      <3>1. t[p + 1] \in 1 .. m
        BY <1>5, <1>7
      <3>2. bytes \in Seq(Bytes)
        BY <3>1
      <3>3. QED  BY <3>2, LenProperties
    <2>2. /\ Stands(buf, d + p, bytes)
          /\ \A k \in 2 .. Len(bytes) : tag[(d + p) + k] = 0
          /\ (d + p) + Len(bytes) < Len(buf) => tag[(d + p) + Len(bytes) + 1] # 0
      BY <1>5, <1>7 DEF Flow
    <2> HIDE DEF bytes
    <2>3. /\ (d + p) + Len(bytes) <= Len(buf)
          /\ \A k \in 1 .. Len(bytes) : buf[(d + p) + k] = bytes[k]
      BY <2>2 DEF Stands
    <2>4. ASSUME NEW k \in 1 .. Len(bytes)
          PROVE  p + k \in 1 .. Len(buf) - d /\ d + (p + k) = (d + p) + k
      BY <1>1, <1>5, <2>1, <2>3, SMTT(30)
    <2>5. Stands(b, p, bytes)
      <3>1. p + Len(bytes) <= Len(b)
        BY <1>1, <1>2, <1>5, <2>1, <2>3
      <3>2. ASSUME NEW k \in 1 .. Len(bytes) PROVE b[p + k] = bytes[k]
        BY <1>2, <2>3, <2>4
      <3>3. QED  BY <3>1, <3>2 DEF Stands
    <2>6. ASSUME NEW k \in 2 .. Len(bytes) PROVE t[p + k] = 0
      <3>1. k \in 1 .. Len(bytes)
        BY <2>1
      <3>2. QED  BY <1>3, <2>2, <2>4, <3>1
    <2>7. ASSUME p + Len(bytes) < Len(b) PROVE t[p + Len(bytes) + 1] # 0
      <3> DEFINE j == p + Len(bytes) + 1
      <3>1. /\ (d + p) + Len(bytes) < Len(buf) /\ j \in 1 .. Len(buf) - d
            /\ d + j = (d + p) + Len(bytes) + 1
        BY <1>1, <1>2, <1>5, <2>1, <2>7, SMTT(30)
      <3> HIDE DEF j
      <3>2. t[j] = tag[d + j]
        BY <1>3, <3>1
      <3>3. t[j] # 0
        BY <2>2, <3>1, <3>2
      <3>4. QED  BY <3>3 DEF j
    <2>8. QED  BY <2>5, <2>6, <2>7 DEF bytes
  <1>8. ASSUME NEW p \in 0 .. Len(b) - 1, NEW q \in 0 .. Len(b) - 1,
               p < q, t[p + 1] # 0, t[q + 1] # 0
        PROVE  t[p + 1] < t[q + 1]
    <2>1. d + p < d + q
      BY <1>1, <1>5, <1>8
    <2>2. QED  BY <1>5, <1>8, <2>1 DEF Flow
  <1>9. QED  BY <1>1, <1>2, <1>3, <1>7, <1>8 DEF Flow, b, t

\* A response that follows prolongs the flow.
LEMMA FlowAppend ==
  ASSUME NEW m \in Nat, NEW R, NEW buf, NEW tag, Flow(buf, tag, R, m),
         \A i \in 1 .. m : R[i] \in Seq(Bytes),
         NEW S, \A i \in 1 .. m : S[i] = R[i], NEW bytes, S[m + 1] = bytes,
         Framed(bytes)
  PROVE  Flow(buf \o bytes, tag \o Tagged(bytes, m + 1), S, m + 1)
  <1> DEFINE b    == buf \o bytes
             more == Tagged(bytes, m + 1)
             t    == tag \o more
             n    == Len(buf)
             k    == Len(bytes)
  <1>1. /\ buf \in Seq(Bytes) /\ tag \in Seq(0 .. m) /\ Len(tag) = n /\ n \in Nat
        /\ bytes \in Seq(Bytes) /\ k \in Nat /\ 2 <= k /\ HeaderAt(bytes, 0) # "none"
    BY LenProperties DEF Flow, Framed
  <1>2. more \in Seq(0 .. m + 1) /\ Len(more) = k
        /\ \A i \in 1 .. k : more[i] = IF i = 1 THEN m + 1 ELSE 0
    <2>1. more \in [1 .. k -> 0 .. m + 1]
      BY DEF Tagged
    <2>2. QED  BY <1>1, <2>1, FunctionIsSeq DEF Tagged
  <1>3. /\ b \in Seq(Bytes) /\ Len(b) = n + k
        /\ \A i \in 1 .. n + k : b[i] = IF i <= n THEN buf[i] ELSE bytes[i - n]
    BY <1>1, ConcatProperties
  <1>4. /\ t \in Seq(0 .. m + 1) /\ Len(t) = n + k
        /\ \A i \in 1 .. n + k : t[i] = IF i <= n THEN tag[i] ELSE more[i - n]
    <2>1. tag \in Seq(0 .. m + 1)
      <3>1. 0 .. m \subseteq 0 .. m + 1
        OBVIOUS
      <3>2. QED  BY <1>1, <3>1, SeqMonotonic
    <2> DEFINE T == 0 .. m + 1
    <2> HIDE DEF more, T, n, k
    <2>2. tag \in Seq(T) /\ more \in Seq(T)
      BY <1>2, <2>1 DEF T
    <2>3. /\ tag \o more \in Seq(T) /\ Len(tag \o more) = Len(tag) + Len(more)
          /\ \A i \in 1 .. Len(tag) + Len(more) :
               (tag \o more)[i] = IF i <= Len(tag) THEN tag[i] ELSE more[i - Len(tag)]
      BY <2>2, ConcatProperties
    <2>4. QED  BY <1>1, <1>2, <2>3 DEF T
  <1> HIDE DEF b, t, more, n, k
  <1>5. ASSUME NEW i \in 1 .. n
        PROVE  b[i] = buf[i] /\ t[i] = tag[i] /\ buf[i] \in Bytes /\ tag[i] \in 0 .. m
    <2>1. b[i] = buf[i] /\ t[i] = tag[i]
      BY <1>1, <1>3, <1>4, SMTT(30)
    <2>2. buf[i] \in Bytes /\ tag[i] \in 0 .. m
      BY <1>1, ElementOfSeq DEF n
    <2>3. QED  BY <2>1, <2>2
  <1>6. ASSUME NEW i \in 1 .. k
        PROVE  b[n + i] = bytes[i] /\ t[n + i] = (IF i = 1 THEN m + 1 ELSE 0)
    <2>1. n + i \in 1 .. n + k /\ ~(n + i <= n) /\ (n + i) - n = i
      BY <1>1
    <2>2. QED  BY <1>2, <1>3, <1>4, <2>1
  <1>7. Stands(b, n, bytes)
    BY <1>1, <1>3, <1>6 DEF Stands, k
  <1>11. ASSUME NEW p \in 0 .. Len(b) - 1, t[p + 1] # 0
         PROVE  /\ Stands(b, p, S[t[p + 1]])
                /\ \A i \in 2 .. Len(S[t[p + 1]]) : t[p + i] = 0
                /\ p + Len(S[t[p + 1]]) < Len(b) => t[p + Len(S[t[p + 1]]) + 1] # 0
    <2>1. CASE p < n
      <3> DEFINE r == R[tag[p + 1]]
      <3>1. /\ p + 1 \in 1 .. n /\ p \in Nat /\ p \in 0 .. Len(buf) - 1
            /\ tag[p + 1] # 0 /\ tag[p + 1] \in 1 .. m
        <4>1. p + 1 \in 1 .. n /\ p \in Nat /\ p \in 0 .. Len(buf) - 1
          BY <1>1, <2>1 DEF n
        <4>2. QED  BY <1>5, <1>11, <4>1
      <3>2. S[t[p + 1]] = r /\ r \in Seq(Bytes) /\ Len(r) \in Nat
        <4>1. S[t[p + 1]] = r /\ r \in Seq(Bytes)
          BY <1>5, <3>1
        <4>2. QED  BY <4>1, LenProperties
      <3>3. /\ Stands(buf, p, r)
            /\ \A i \in 2 .. Len(r) : tag[p + i] = 0
            /\ p + Len(r) < Len(buf) => tag[p + Len(r) + 1] # 0
        BY <3>1 DEF Flow
      <3> HIDE DEF r
      <3>4. p + Len(r) <= n /\ \A i \in 1 .. Len(r) : buf[p + i] = r[i]
        BY <3>3 DEF Stands, n
      <3>5. ASSUME NEW i \in 1 .. Len(r)
            PROVE  b[p + i] = r[i] /\ t[p + i] = tag[p + i]
        <4>1. p + i \in 1 .. n
          <5>1. p + Len(r) <= n /\ p \in Nat /\ Len(r) \in Nat /\ n \in Nat
            BY <1>1, <3>1, <3>2, <3>4
          <5>2. QED  BY <5>1
        <4>2. QED  BY <1>5, <3>4, <4>1
      <3>6. Stands(b, p, r)
        <4>1. p + Len(r) <= Len(b)
          BY <1>1, <1>3, <3>2, <3>4
        <4>2. QED  BY <3>5, <4>1 DEF Stands
      <3>7. ASSUME NEW i \in 2 .. Len(r) PROVE t[p + i] = 0
        <4>1. i \in 1 .. Len(r)
          BY <3>2
        <4>2. QED  BY <3>3, <3>5, <4>1
      <3>8. t[p + Len(r) + 1] # 0
        <4>1. CASE p + Len(r) < n
          <5>1. p + Len(r) + 1 \in 1 .. n
            BY <1>1, <3>2, <4>1
          <5>2. QED  BY <1>5, <3>3, <4>1, <5>1 DEF n
        <4>2. CASE ~(p + Len(r) < n)
          <5>1. p + Len(r) + 1 = n + 1 /\ 1 \in 1 .. k
            <6>1. p + Len(r) <= n /\ p \in Nat /\ Len(r) \in Nat /\ n \in Nat
              BY <1>1, <3>1, <3>2, <3>4
            <6>2. k \in Nat /\ 2 <= k
              BY <1>1
            <6>3. QED  BY <4>2, <6>1, <6>2
          <5>2. t[n + 1] = m + 1 /\ m + 1 # 0
            BY <1>6, <5>1
          <5>3. QED  BY <5>1, <5>2
        <4>3. QED  BY <4>1, <4>2
      <3>9. QED  BY <3>2, <3>6, <3>7, <3>8
    <2>2. CASE ~(p < n)
      <3> DEFINE j == p - n
      <3>1. j \in 0 .. k - 1 /\ n + (j + 1) = p + 1 /\ j + 1 \in 1 .. k /\ p = n + j
        <4>1. n \in Nat /\ k \in Nat /\ p \in 0 .. (n + k) - 1
          BY <1>1, <1>3
        <4>2. QED  BY <2>2, <4>1
      <3> HIDE DEF j
      <3>2. t[n + (j + 1)] = IF j + 1 = 1 THEN m + 1 ELSE 0
        BY <1>6, <3>1
      <3>3. j = 0
        BY <1>1, <1>11, <3>1, <3>2
      <3>4. p = n /\ t[p + 1] = m + 1 /\ S[t[p + 1]] = bytes
        BY <1>1, <3>1, <3>2, <3>3
      <3>5. ASSUME NEW i \in 2 .. Len(bytes) PROVE t[p + i] = 0
        <4>1. i \in 1 .. k /\ i # 1
          BY <1>1 DEF k
        <4>2. QED  BY <1>6, <3>4, <4>1
      <3>6. ~(p + Len(bytes) < Len(b))
        BY <1>1, <1>3, <3>4 DEF k
      <3>7. QED  BY <1>7, <3>4, <3>5, <3>6
    <2>3. QED  BY <2>1, <2>2
  <1>12. ASSUME NEW p \in 0 .. Len(b) - 1, NEW q \in 0 .. Len(b) - 1,
                p < q, t[p + 1] # 0, t[q + 1] # 0
         PROVE  t[p + 1] < t[q + 1]
    <2>1. CASE q < n
      <3>1. /\ p + 1 \in 1 .. n /\ q + 1 \in 1 .. n
            /\ p \in 0 .. Len(buf) - 1 /\ q \in 0 .. Len(buf) - 1
        BY <1>1, <1>12, <2>1, SMTT(30) DEF n
      <3>2. QED  BY <1>5, <1>12, <3>1 DEF Flow
    <2>2. CASE ~(q < n)
      <3> DEFINE j == q - n
      <3>1. n + (j + 1) = q + 1 /\ j + 1 \in 1 .. k /\ q = n + j
        <4>1. n \in Nat /\ k \in Nat /\ q \in 0 .. (n + k) - 1
          BY <1>1, <1>3
        <4>2. QED  BY <2>2, <4>1, SMTT(30)
      <3> HIDE DEF j
      <3>2. t[q + 1] = m + 1 /\ q = n
        <4>1. t[n + (j + 1)] = IF j + 1 = 1 THEN m + 1 ELSE 0
          BY <1>6, <3>1
        <4>2. j + 1 = 1
          BY <1>12, <3>1, <4>1
        <4>3. QED  BY <1>1, <3>1, <4>1, <4>2, SMTT(30)
      <3>3. p + 1 \in 1 .. n
        BY <1>1, <1>12, <3>2
      <3>4. t[p + 1] \in 0 .. m
        BY <1>5, <3>3
      <3>5. QED  BY <3>2, <3>4
    <2>3. QED  BY <2>1, <2>2
  <1>13. Len(t) = Len(b)
    BY <1>3, <1>4
  <1>14. QED  BY <1>3, <1>4, <1>11, <1>12, <1>13 DEF Flow, b, t, more

-----------------------------------------------------------------------------
(***************************************************************************)
(* A parse of the first k bytes of a flow.                                 *)
(***************************************************************************)

\* The start of a response in the flow reads like the response.
LEMMA FlowReads ==
  ASSUME NEW m \in Nat, NEW R, NEW buf, NEW tag, Flow(buf, tag, R, m),
         \A i \in 1 .. m : Framed(R[i]), NEW p \in Nat, HeaderAt(buf, p) # "none",
         tag[p + 1] # 0
  PROVE  LET bytes == R[tag[p + 1]] IN
         /\ p + 2 <= Len(buf) /\ tag[p + 1] \in 1 .. m
         /\ Framed(bytes) /\ Stands(buf, p, bytes)
         /\ FrameComplete(buf, p) /\ FrameSize(buf, p) = Len(bytes)
         /\ \A s : Mismatch(buf, p, s) <=> Mismatch(bytes, 0, s)
  <1> DEFINE bytes == R[tag[p + 1]]
  <1>1. buf \in Seq(Bytes) /\ tag \in Seq(0 .. m) /\ Len(tag) = Len(buf) /\ Len(buf) \in Nat
    BY LenProperties DEF Flow
  <1>2. p + 2 <= Len(buf) /\ p \in 0 .. Len(buf) - 1 /\ p + 1 \in 1 .. Len(tag)
    <2>1. p + 2 <= Len(buf)
      BY <1>1 DEF HeaderAt
    <2>2. QED  BY <1>1, <2>1
  <1>3. tag[p + 1] \in 1 .. m
    <2>1. tag[p + 1] \in 0 .. m
      BY <1>1, <1>2, ElementOfSeq
    <2>2. QED  BY <2>1
  <1>4. Framed(bytes) /\ Stands(buf, p, bytes)
    BY <1>2, <1>3 DEF Flow
  <1> HIDE DEF bytes
  <1>5. /\ FrameComplete(buf, p) /\ FrameSize(buf, p) = Len(bytes)
        /\ \A s : Mismatch(buf, p, s) <=> Mismatch(bytes, 0, s)
    BY <1>1, <1>4, StandsReads DEF Framed
  <1>6. QED  BY <1>2, <1>3, <1>4, <1>5 DEF bytes

LEMMA FlowTagReads ==
  ASSUME NEW m \in Nat, NEW R, NEW buf, NEW tag, Flow(buf, tag, R, m),
         \A i \in 1 .. m : Framed(R[i]), NEW q \in 0 .. Len(buf) - 1, tag[q + 1] # 0
  PROVE  q \in Nat /\ HeaderAt(buf, q) # "none" /\ buf[q + 1] \in {Low3E, Low4E}
  <1> DEFINE bytes == R[tag[q + 1]]
  <1>1. buf \in Seq(Bytes) /\ tag \in Seq(0 .. m) /\ Len(tag) = Len(buf) /\ Len(buf) \in Nat
    BY LenProperties DEF Flow
  <1>2. tag[q + 1] \in 1 .. m /\ q \in Nat
    <2>1. q + 1 \in 1 .. Len(tag) /\ q \in Nat
      BY <1>1
    <2>2. tag[q + 1] \in 0 .. m
      BY <1>1, <2>1, ElementOfSeq
    <2>3. QED  BY <2>1, <2>2
  <1>3. Framed(bytes) /\ Stands(buf, q, bytes)
    BY <1>2 DEF Flow
  <1> HIDE DEF bytes
  <1>4. HeaderAt(buf, q) = HeaderAt(bytes, 0) /\ HeaderAt(bytes, 0) # "none"
    BY <1>1, <1>2, <1>3, StandsReads DEF Framed
  <1>5. buf[q + 1] \in {Low3E, Low4E}
    <2>1. WordAt(buf, q) \in {Low3E, Low4E} /\ Len(buf) - q >= 2
      BY <1>4 DEF HeaderAt
    <2>2. buf[q + 1] \in 0 .. 255 /\ buf[q + 2] \in 0 .. 255
      <3>1. q + 1 \in 1 .. Len(buf) /\ q + 2 \in 1 .. Len(buf)
        BY <1>1, <1>2, <2>1
      <3>2. buf[q + 1] \in Bytes /\ buf[q + 2] \in Bytes
        BY <1>1, <3>1, ElementOfSeq
      <3>3. QED  BY <3>2 DEF Bytes
    <2>3. buf[q + 1] + 256 * buf[q + 2] \in {Low3E, Low4E}
      BY <2>1 DEF WordAt
    <2>4. ASSUME NEW lo \in 0 .. 255, NEW hi \in 0 .. 255, lo + 256 * hi \in {Low3E, Low4E}
          PROVE  lo \in {Low3E, Low4E}
      <3>1. hi = 0
        BY <2>4 DEF Low3E, Low4E
      <3>2. QED  BY <2>4, <3>1
    <2>5. QED  BY <2>2, <2>3, <2>4, ZenonT(30)
  <1>6. QED  BY <1>2, <1>4, <1>5

\* The first bytes of a flow read as they do in it.
LEMMA FrontReads ==
  ASSUME NEW buf \in Seq(Bytes), NEW k \in 0 .. Len(buf)
  PROVE  LET rx == Piece(buf, 0, k) IN
         /\ rx \in Seq(Bytes) /\ Len(rx) = k /\ \A i \in 1 .. k : rx[i] = buf[i]
         /\ \A p \in Nat : p + 2 <= k =>
              /\ HeaderAt(rx, p) = HeaderAt(buf, p)
              /\ FrameComplete(rx, p) => FrameSize(rx, p) = FrameSize(buf, p)
              /\ \A s : Mismatch(rx, p, s) => Mismatch(buf, p, s)
              /\ FrameComplete(rx, p) => \A s : Mismatch(buf, p, s) => Mismatch(rx, p, s)
  <1> DEFINE rx == Piece(buf, 0, k)
  <1>1. Len(buf) \in Nat /\ k \in Nat /\ k <= Len(buf) /\ 0 \in 0 .. k
    BY LenProperties
  <1>2. rx \in Seq(Bytes) /\ Len(rx) = k /\ \A i \in 1 .. k : rx[i] = buf[i]
    <2>1. rx \in Seq(Bytes) /\ Len(rx) = k - 0 /\ \A i \in 1 .. k - 0 : rx[i] = buf[0 + i]
      BY <1>1, PieceFacts
    <2>2. QED  BY <1>1, <2>1
  <1>3. ASSUME NEW p \in Nat, p + 2 <= k
        PROVE  /\ HeaderAt(rx, p) = HeaderAt(buf, p)
               /\ FrameComplete(rx, p) => FrameSize(rx, p) = FrameSize(buf, p)
               /\ \A s : Mismatch(rx, p, s) => Mismatch(buf, p, s)
               /\ FrameComplete(rx, p) => \A s : Mismatch(buf, p, s) => Mismatch(rx, p, s)
    <2>1. p + 2 <= k - 0 /\ 0 + p = p
      BY <1>1, <1>3
    <2>2. /\ HeaderAt(rx, p) = HeaderAt(buf, 0 + p)
          /\ HeaderComplete(rx, p) =>
               /\ FrameSize(rx, p) = FrameSize(buf, 0 + p)
               /\ \A s : Mismatch(rx, p, s) <=> Mismatch(buf, 0 + p, s)
      BY <1>1, <2>1, PieceReads
    <2> HIDE DEF rx
    <2>3. QED  BY <2>1, <2>2 DEF Mismatch, FrameComplete
  <1>4. QED  BY <1>2, <1>3

LEMMA FlowStop ==
  ASSUME NEW m \in Nat, NEW R, NEW buf, NEW tag, Flow(buf, tag, R, m),
         \A i \in 1 .. m : Framed(R[i]), NEW k \in 0 .. Len(buf), NEW s,
         NEW last, last \in 1 .. m => ~Mismatch(R[last], 0, s),
         Clear(Piece(buf, 0, k), tag, last, s)
  PROVE  LET rx == Piece(buf, 0, k)
             p  == StopAt(rx, s)
         IN  /\ p \in 0 .. k
             /\ \A q \in 0 .. k - 1 : tag[q + 1] # 0 /\ ~Mismatch(R[tag[q + 1]], 0, s) => p <= q
             /\ p \in Candidates(rx) /\ FrameComplete(rx, p) /\ ~Mismatch(rx, p, s) =>
                  /\ p + 2 <= k /\ tag[p + 1] \in 1 .. m
                  /\ p + Len(R[tag[p + 1]]) <= k /\ Stands(rx, p, R[tag[p + 1]])
                  /\ FrameSize(rx, p) = Len(R[tag[p + 1]]) /\ ~Mismatch(R[tag[p + 1]], 0, s)
  <1> DEFINE rx == Piece(buf, 0, k)
             p  == StopAt(rx, s)
  <1>1. buf \in Seq(Bytes) /\ Len(buf) \in Nat /\ k \in Nat /\ k <= Len(buf)
    BY LenProperties DEF Flow
  <1>2. /\ rx \in Seq(Bytes) /\ Len(rx) = k /\ \A i \in 1 .. k : rx[i] = buf[i]
        /\ \A x \in Nat : x + 2 <= k =>
              /\ HeaderAt(rx, x) = HeaderAt(buf, x)
              /\ FrameComplete(rx, x) => FrameSize(rx, x) = FrameSize(buf, x)
              /\ \A t : Mismatch(rx, x, t) => Mismatch(buf, x, t)
              /\ FrameComplete(rx, x) => \A t : Mismatch(buf, x, t) => Mismatch(rx, x, t)
    BY <1>1, FrontReads
  <1> HIDE DEF rx
  <1>3. /\ p \in Nat /\ p <= Remainder(rx)
        /\ \A x \in Candidates(rx) : x < p => Passed(rx, x, s)
    BY <1>2, StopProperties
  <1>4. /\ Remainder(rx) \in 0 .. k /\ k - 1 <= Remainder(rx)
        /\ \A x \in Candidates(rx) : x \in Nat /\ x + 2 <= k /\ HeaderAt(rx, x) # "none"
        /\ \A x \in Nat : HeaderAt(rx, x) # "none" => x \in Candidates(rx)
    BY <1>2, Places
  <1> HIDE DEF p
  <1>5. p \in 0 .. k
    BY <1>1, <1>3, <1>4
  <1>6. ASSUME NEW q \in 0 .. k - 1, tag[q + 1] # 0, ~Mismatch(R[tag[q + 1]], 0, s)
        PROVE  p <= q
    <2> SUFFICES ASSUME q < p PROVE FALSE
      BY <1>1, <1>3
    <2>1. q \in Nat /\ q \in 0 .. Len(buf) - 1
      BY <1>1
    <2>2. HeaderAt(buf, q) # "none" /\ buf[q + 1] \in {Low3E, Low4E}
      BY <1>6, <2>1, FlowTagReads
    <2>3. ~Mismatch(buf, q, s)
      BY <1>6, <2>1, <2>2, FlowReads
    <2>4. CASE q + 2 <= k
      <3>1. q \in Candidates(rx)
        BY <1>2, <1>4, <2>1, <2>2, <2>4
      <3>2. Mismatch(rx, q, s)
        BY <1>3, <3>1 DEF Passed
      <3>3. QED  BY <1>2, <2>1, <2>3, <2>4, <3>2
    <2>5. CASE ~(q + 2 <= k)
      <3>1. q + 1 = k /\ k \in 1 .. k /\ Remainder(rx) = k
        BY <1>1, <1>3, <1>4, <1>6, <2>1, <2>5
      <3>2. rx[Len(rx)] \in {Low3E, Low4E} /\ rx # <<>>
        BY <1>2, <2>2, <3>1, EmptySeq
      <3>3. Remainder(rx) = k - 1
        BY <1>2, <3>2 DEF Remainder
      <3>4. QED  BY <1>1, <3>1, <3>3
    <2>6. QED  BY <2>4, <2>5
  <1>7. ASSUME p \in Candidates(rx), FrameComplete(rx, p), ~Mismatch(rx, p, s)
        PROVE  /\ p + 2 <= k /\ tag[p + 1] \in 1 .. m
               /\ p + Len(R[tag[p + 1]]) <= k /\ Stands(rx, p, R[tag[p + 1]])
               /\ FrameSize(rx, p) = Len(R[tag[p + 1]]) /\ ~Mismatch(R[tag[p + 1]], 0, s)
    <2> DEFINE bytes == R[tag[p + 1]]
    <2>1. p \in Nat /\ p + 2 <= k /\ HeaderAt(rx, p) # "none" /\ HeaderAt(buf, p) # "none"
      BY <1>2, <1>4, <1>7
    <2>0. tag[p + 1] # 0
      <3> SUFFICES ASSUME tag[p + 1] = 0 PROVE FALSE
        OBVIOUS
      <3>1. p \in 0 .. k - 1 /\ p \in 0 .. Len(rx) - 1
        BY <1>1, <1>2, <2>1
      <3>2. TakenAsHeader(rx, p, s)
        BY <1>7, <2>1 DEF TakenAsHeader, FrameComplete
      <3>3. PICK q \in 0 .. p : tag[q + 1] # 0 /\ tag[q + 1] = last
        BY <3>1, <3>2 DEF Clear, rx
      <3>4. q \in 0 .. k - 1 /\ q + 1 \in 1 .. Len(tag)
        BY <1>1, <3>1 DEF Flow
      <3>5. tag[q + 1] \in 0 .. m
        BY <3>4, ElementOfSeq DEF Flow
      <3>6. last \in 1 .. m
        BY <3>3, <3>5
      <3>7. p <= q
        BY <1>6, <3>3, <3>4, <3>6
      <3>8. p = q
        BY <2>1, <3>7
      <3>9. QED  BY <3>3, <3>8
    <2>2. /\ tag[p + 1] \in 1 .. m /\ Framed(bytes) /\ Stands(buf, p, bytes)
          /\ FrameSize(buf, p) = Len(bytes)
          /\ \A t : Mismatch(buf, p, t) <=> Mismatch(bytes, 0, t)
      BY <2>0, <2>1, FlowReads
    <2> HIDE DEF bytes
    <2>3. FrameSize(rx, p) = Len(bytes) /\ ~Mismatch(bytes, 0, s)
      BY <1>2, <1>7, <2>1, <2>2
    <2>4. Len(bytes) \in Nat
      BY <2>2, LenProperties DEF Framed
    <2>5. p + Len(bytes) <= k
      <3>1. Len(rx) - p >= Len(bytes)
        BY <1>7, <2>3 DEF FrameComplete
      <3>2. QED  BY <1>1, <1>2, <2>1, <2>4, <3>1
    <2>6. Stands(rx, p, bytes)
      <3>1. ASSUME NEW i \in 1 .. Len(bytes) PROVE rx[p + i] = bytes[i]
        <4>1. p + i \in 1 .. k
          BY <1>1, <2>1, <2>4, <2>5
        <4>2. QED  BY <1>2, <2>2, <4>1 DEF Stands
      <3>2. QED  BY <1>2, <2>5, <3>1 DEF Stands
    <2>7. QED  BY <2>1, <2>2, <2>3, <2>5, <2>6 DEF bytes
  <1>8. QED  BY <1>5, <1>6, <1>7 DEF p, rx

\* A parse that has the whole flow and asks for more bytes leaves no response
\* in it that it could have taken.
LEMMA FlowWaits ==
  ASSUME NEW m \in Nat, NEW R, NEW buf, NEW tag, Flow(buf, tag, R, m),
         \A i \in 1 .. m : Framed(R[i]), NEW s, VerdictAt(buf, StopAt(buf, s)) = "need_more",
         NEW q \in 0 .. Len(buf) - 1, tag[q + 1] # 0, ~Mismatch(R[tag[q + 1]], 0, s),
         Clear(buf, tag, tag[q + 1], s)
  PROVE  FALSE
  <1> DEFINE p == StopAt(buf, s)
  <1>1. buf \in Seq(Bytes) /\ Len(buf) \in Nat /\ Len(buf) \in 0 .. Len(buf) /\ ResyncLimit \in Nat
    BY LenProperties, LayoutAssumption DEF Flow
  <1>2. /\ p \in Nat /\ p <= Remainder(buf)
        /\ \/ p \in Candidates(buf) /\ ~Passed(buf, p, s)
           \/ p = ResyncLimit + 1 /\ ResyncLimit \in Candidates(buf)
           \/ p = Remainder(buf)
    BY <1>1, StopProperties
  <1>3. /\ Remainder(buf) \in 0 .. Len(buf) /\ Len(buf) - 1 <= Remainder(buf)
        /\ \A x \in Candidates(buf) : HeaderAt(buf, x) # "none"
    BY <1>1, Places
  <1>4. Piece(buf, 0, Len(buf)) = buf
    <2>1. Piece(buf, 0, Len(buf)) = SubSeq(buf, 1, Len(buf))
      BY DEF Piece
    <2>2. QED  BY <1>1, <2>1, SubSeqFull
  <1>5. p <= q
    <2> DEFINE last == tag[q + 1]
    <2>1. Clear(Piece(buf, 0, Len(buf)), tag, last, s) /\ ~Mismatch(R[last], 0, s)
      BY <1>4
    <2> HIDE DEF last
    <2>2. \A x \in 0 .. Len(buf) - 1 :
            tag[x + 1] # 0 /\ ~Mismatch(R[tag[x + 1]], 0, s) => StopAt(Piece(buf, 0, Len(buf)), s) <= x
      BY <1>1, <2>1, FlowStop
    <2>3. QED  BY <1>4, <2>2
  <1> HIDE DEF p
  <1>6. HeaderAt(buf, q) # "none" /\ q \in Nat
    BY FlowTagReads
  <1>7. ~(p > ResyncLimit)
    BY DEF VerdictAt, p
  <1>8. HeaderAt(buf, p) # "none"
    <2>1. CASE p = Remainder(buf)
      <3>1. p = q
        BY <1>1, <1>2, <1>3, <1>5, <2>1
      <3>2. QED  BY <1>6, <3>1
    <2>2. CASE p = ResyncLimit + 1
      BY <1>1, <1>7, <2>2
    <2>3. QED  BY <1>2, <1>3, <2>1, <2>2
  <1>9. tag[p + 1] # 0
    <2> SUFFICES ASSUME tag[p + 1] = 0 PROVE FALSE
      OBVIOUS
    <2>1. p # q /\ p < q
      BY <1>2, <1>5, <1>6
    <2>2. p \in Candidates(buf) /\ p + 2 <= Len(buf) /\ p \in 0 .. Len(buf) - 1
      BY <1>1, <1>2, <1>8 DEF Candidates, HeaderAt
    <2>3. ~Mismatch(buf, p, s)
      <3>1. ~Passed(buf, p, s)
        BY <1>1, <1>2, <1>3, <1>7, <2>2
      <3>2. QED  BY <1>1, <1>2, <1>7, <3>1 DEF Passed
    <2>4. \A x \in 0 .. p : tag[x + 1] # 0 => tag[x + 1] # tag[q + 1]
      <3>1. ASSUME NEW x \in 0 .. p, tag[x + 1] # 0 PROVE tag[x + 1] < tag[q + 1]
        <4>1. x \in 0 .. Len(buf) - 1 /\ x < q
          BY <1>1, <1>2, <1>6, <2>1, <2>2
        <4>2. QED  BY <3>1, <4>1 DEF Flow
      <3>2. tag[q + 1] \in 0 .. m
        BY <1>1, ElementOfSeq DEF Flow
      <3>3. ASSUME NEW x \in 0 .. p, tag[x + 1] # 0 PROVE tag[x + 1] # tag[q + 1]
        <4>1. tag[x + 1] < tag[q + 1]
          BY <3>1, <3>3
        <4>2. tag[q + 1] \in Nat
          BY <3>2
        <4>3. QED  BY <4>1, <4>2
      <3>4. QED  BY <3>3
    <2>5. ~HeaderComplete(buf, p)
      BY <1>8, <2>2, <2>3, <2>4 DEF Clear, TakenAsHeader
    <2>6. Len(buf) - p < 13
      <3>1. HeaderSize(HeaderAt(buf, p)) \in {9, 13}
        BY HeaderAssumption DEF HeaderSize
      <3>2. QED  BY <1>1, <1>2, <2>5, <3>1 DEF HeaderComplete
    <2>7. p + 2 <= q
      <3> SUFFICES ASSUME q = p + 1 PROVE FALSE
        BY <1>2, <1>6, <2>1
      <3>1. buf[p + 2] \in {Low3E, Low4E}
        <4>1. buf[q + 1] \in {Low3E, Low4E}
          BY FlowTagReads
        <4>2. q + 1 = p + 2
          BY <1>2
        <4>3. QED  BY <4>1, <4>2
      <3>2. buf[p + 1] \in 0 .. 255
        <4>1. p + 1 \in 1 .. Len(buf)
          BY <1>1, <2>2
        <4>2. QED  BY <1>1, <4>1, ElementOfSeq DEF Bytes
      <3>3. \A lo \in 0 .. 255 : \A hi \in {Low3E, Low4E} : lo + 256 * hi \notin {Low3E, Low4E}
        BY DEF Low3E, Low4E
      <3>4. WordAt(buf, p) \notin {Low3E, Low4E}
        BY <3>1, <3>2, <3>3, ZenonT(30) DEF WordAt
      <3>5. QED  BY <1>8, <3>4 DEF HeaderAt
    <2>8. q + 11 <= Len(buf)
      <3> DEFINE bytes == R[tag[q + 1]]
      <3>1. /\ FrameComplete(buf, q) /\ FrameSize(buf, q) = Len(bytes)
            /\ ~Mismatch(buf, q, s)
        BY <1>6, FlowReads
      <3> HIDE DEF bytes
      <3>2. PacketSize(buf, q) \in 2 .. IoBufSize
        BY <3>1 DEF Mismatch, FrameComplete, PduHeaderSize
      <3>3. HeaderSize(HeaderAt(buf, q)) \in {9, 13}
        BY HeaderAssumption DEF HeaderSize
      <3>4. FrameSize(buf, q) >= 11 /\ FrameSize(buf, q) \in Int
        <4> DEFINE h == HeaderSize(HeaderAt(buf, q))
                   k == PacketSize(buf, q)
        <4>1. FrameSize(buf, q) = h + k
          BY DEF FrameSize
        <4>2. h \in {9, 13} /\ k \in 2 .. IoBufSize /\ IoBufSize \in Nat
          BY <3>2, <3>3, LayoutAssumption
        <4> HIDE DEF h, k
        <4>3. QED  BY <4>1, <4>2
      <3>5. Len(buf) - q >= FrameSize(buf, q)
        BY <3>1 DEF FrameComplete
      <3>6. QED  BY <1>1, <1>6, <3>4, <3>5
    <2>9. QED  BY <1>1, <1>2, <1>6, <2>6, <2>7, <2>8
  <1>10. FrameComplete(buf, p)
    BY <1>2, <1>8, <1>9, FlowReads
  <1>11. QED  BY <1>7, <1>8, <1>10 DEF VerdictAt, p

-----------------------------------------------------------------------------
\* A context as a caller with valid settings keeps it between two calls.

IsSeq(s) == s \in Seq({s[i] : i \in 1 .. Len(s)})

Settings == [header : Headers, timer : {"default"}]

Sound(c) ==
  /\ Whole(c) /\ c.in_use /\ c.settings \in Settings
  /\ c.next_serial \in 0 .. SerialRange - 1 /\ c.serial \in 0 .. SerialRange - 1
  /\ c.rx \in Seq(Bytes) /\ Len(c.rx) <= IoBufSize

LEMMA AppendTo ==
  ASSUME NEW s, IsSeq(s), NEW x
  PROVE  /\ IsSeq(Append(s, x)) /\ Len(s) \in Nat /\ Len(Append(s, x)) = Len(s) + 1
         /\ \A i \in 1 .. Len(s) : Append(s, x)[i] = s[i]
         /\ Append(s, x)[Len(s) + 1] = x
  <1> DEFINE S == {s[i] : i \in 1 .. Len(s)} \cup {x}
             t == Append(s, x)
  <1>1. s \in Seq(S)
    <2>1. {s[i] : i \in 1 .. Len(s)} \subseteq S
      OBVIOUS
    <2> HIDE DEF S
    <2>2. QED  BY <2>1, SeqMonotonic DEF IsSeq
  <1>2. x \in S
    OBVIOUS
  <1> HIDE DEF S
  <1>3. /\ t \in Seq(S) /\ Len(t) = Len(s) + 1 /\ \A i \in 1 .. Len(s) : t[i] = s[i]
        /\ t[Len(s) + 1] = x /\ Len(s) \in Nat
    BY <1>1, <1>2, AppendProperties, LenProperties
  <1> HIDE DEF t
  <1>4. t \in Seq({t[i] : i \in 1 .. Len(t)})
    <2>1. Range(t) = {t[i] : i \in 1 .. Len(t)}
      BY <1>3, RangeEquality
    <2>2. QED  BY <1>3, <2>1, SeqOfRange
  <1>5. QED  BY <1>3, <1>4 DEF IsSeq, t

LEMMA InitSound ==
  Sound([ResetContext(ZeroContext) EXCEPT !.in_use = TRUE])
  <1> DEFINE st == [header |-> "4E", timer |-> "default"]
             z  == ZeroContext
             y  == ResetContext(z)
             c  == [y EXCEPT !.in_use = TRUE]
  <1>1. Whole(z)
    BY DEF ZeroContext, Whole, CtxFields
  <1>2. y = [z EXCEPT !.settings = st, !.next_serial = 0, !.serial = 0, !.device = "D",
                      !.command = "READ", !.address = 0, !.count = 0, !.code = 0, !.rx = <<>>]
    BY DEF ResetContext, DefaultSettings
  <1> HIDE DEF y, z
  <1>3. Whole(y) /\ y.settings = st /\ y.next_serial = 0 /\ y.serial = 0 /\ y.rx = <<>>
    <2> HIDE DEF st
    <2>1. QED  BY <1>1, <1>2 DEF Whole, CtxFields
  <1>4. Whole(c) /\ c.in_use /\ c.settings = st /\ c.next_serial = 0 /\ c.serial = 0 /\ c.rx = <<>>
    <2> HIDE DEF st
    <2>1. QED  BY <1>3 DEF Whole, CtxFields
  <1> HIDE DEF c
  <1>5. 0 \in 0 .. SerialRange - 1 /\ IoBufSize \in Nat
    BY SerialsAreNat, LayoutAssumption
  <1>6. c.rx \in Seq(Bytes) /\ Len(c.rx) = 0 /\ Len(c.rx) <= IoBufSize
    BY <1>4, <1>5, EmptySeq
  <1>7. c.settings \in Settings
    BY <1>4 DEF Settings, Headers
  <1>8. Sound(c)
    BY <1>4, <1>5, <1>6, <1>7 DEF Sound
  <1>9. QED  BY <1>8 DEF c, y, z

-----------------------------------------------------------------------------
\* A response alone in the buffer, or the beginning of one: the search stops in
\* front of it and waits until it is whole.
LEMMA AloneReads ==
  ASSUME NEW bytes, Framed(bytes), NEW s, ~Mismatch(bytes, 0, s), NEW k \in 1 .. Len(bytes)
  PROVE  LET rx == Piece(bytes, 0, k) IN
         /\ rx \in Seq(Bytes) /\ Len(rx) = k /\ StopAt(rx, s) = 0
         /\ k < Len(bytes) => VerdictAt(rx, 0) = "need_more"
         /\ k = Len(bytes) => rx = bytes /\ VerdictAt(rx, 0) = "frame"
  <1> DEFINE rx == Piece(bytes, 0, k)
  <1>1. /\ bytes \in Seq(Bytes) /\ Len(bytes) \in Nat /\ 2 <= Len(bytes) /\ HeaderAt(bytes, 0) # "none"
        /\ FrameComplete(bytes, 0) /\ FrameSize(bytes, 0) = Len(bytes) /\ k \in 0 .. Len(bytes) /\ k \in Nat
    BY LenProperties DEF Framed
  <1>2. /\ rx \in Seq(Bytes) /\ Len(rx) = k /\ \A i \in 1 .. k : rx[i] = bytes[i]
        /\ \A p \in Nat : p + 2 <= k =>
              /\ HeaderAt(rx, p) = HeaderAt(bytes, p)
              /\ FrameComplete(rx, p) => FrameSize(rx, p) = FrameSize(bytes, p)
              /\ \A x : Mismatch(rx, p, x) => Mismatch(bytes, p, x)
    BY <1>1, FrontReads
  <1>3. k = Len(bytes) => rx = bytes
    <2>1. Piece(bytes, 0, Len(bytes)) = bytes
      BY <1>1, SubSeqFull DEF Piece
    <2>2. QED  BY <2>1
  <1> HIDE DEF rx
  <1>4. ResyncLimit \in Nat /\ ~(0 > ResyncLimit)
    BY LayoutAssumption
  <1>5. TurnedDown(rx, s, 0)
    <2>1. \A p \in Candidates(rx) : p \in Nat
      BY <1>2, Places
    <2>2. QED  BY <2>1 DEF TurnedDown
  <1>6. CASE k = 1
    <2>1. rx[1] \in {Low3E, Low4E}
      <3>1. bytes[1] \in Bytes /\ bytes[2] \in Bytes
        BY <1>1, ElementOfSeq
      <3>2. WordAt(bytes, 0) \in {Low3E, Low4E}
        BY <1>1 DEF HeaderAt
      <3>3. bytes[1] + 256 * bytes[2] \in {208, 212}
        BY <3>2 DEF WordAt, Low3E, Low4E
      <3>4. \A x, y \in Bytes : x + 256 * y \in {208, 212} => x \in {208, 212}
        BY DEF Bytes
      <3>5. bytes[1] \in {208, 212}
        BY <3>1, <3>3, <3>4
      <3>6. QED  BY <1>2, <1>6, <3>5 DEF Low3E, Low4E
    <2>2. Remainder(rx) = 0
      <3>1. rx # <<>>
        <4>1. Len(rx) = 1 /\ Len(<<>>) = 0
          BY <1>2, <1>6
        <4>2. QED  BY <4>1
      <3>2. QED  BY <1>2, <1>6, <2>1, <3>1 DEF Remainder
    <2>3. StopAt(rx, s) = 0
      <3>1. 0 \in 0 .. Len(rx)
        BY <1>2, <1>6
      <3>2. QED  BY <1>2, <1>5, <2>2, <3>1, StopIs
    <2>4. HeaderAt(rx, 0) = "none"
      BY <1>2, <1>6 DEF HeaderAt
    <2>5. VerdictAt(rx, 0) = "need_more"
      BY <1>4, <2>4 DEF VerdictAt
    <2>6. QED  BY <1>1, <1>2, <1>6, <2>3, <2>5 DEF rx
  <1>7. CASE k >= 2
    <2>1. /\ HeaderAt(rx, 0) # "none" /\ ~Mismatch(rx, 0, s)
          /\ FrameComplete(rx, 0) => FrameSize(rx, 0) = Len(bytes)
      <3>1. 0 \in Nat /\ 0 + 2 <= k
        BY <1>7
      <3>2. QED  BY <1>1, <1>2, <3>1
    <2>2. 0 \in Candidates(rx) /\ ~Passed(rx, 0, s)
      <3>1. 0 \in 0 .. Len(rx) - 2
        BY <1>1, <1>2, <1>7
      <3>2. QED  BY <2>1, <3>1 DEF Candidates, Passed
    <2>3. StopAt(rx, s) = 0
      <3>1. 0 \in 0 .. Len(rx)
        BY <1>1, <1>2
      <3>2. QED  BY <1>2, <1>5, <2>2, <3>1, StopIs
    <2>4. ASSUME k < Len(bytes) PROVE VerdictAt(rx, 0) = "need_more"
      <3>1. ~FrameComplete(rx, 0)
        <4>1. SUFFICES ASSUME FrameComplete(rx, 0) PROVE FALSE
          OBVIOUS
        <4>2. Len(rx) - 0 >= FrameSize(rx, 0)
          BY <4>1 DEF FrameComplete
        <4>3. QED  BY <1>1, <1>2, <2>1, <2>4, <4>1, <4>2
      <3>2. QED  BY <1>4, <3>1 DEF VerdictAt
    <2>5. ASSUME k = Len(bytes) PROVE rx = bytes /\ VerdictAt(rx, 0) = "frame"
      BY <1>1, <1>3, <1>4, <2>5 DEF VerdictAt
    <2>6. QED  BY <1>2, <2>3, <2>4, <2>5 DEF rx
  <1>8. QED  BY <1>1, <1>6, <1>7

-----------------------------------------------------------------------------
(***************************************************************************)
(* A request, from the reset of the context to the bytes of its payload.   *)
(***************************************************************************)

\* A context that was reset, with header mode h, and what it is to ask.
Fresh(c, h) == Sound(c) /\ Stored(c) /\ c.rx = <<>> /\ c.settings.header = h

Asking(c, cmd, dev, a, n) ==
  c.command = cmd /\ c.device = dev /\ c.address = a /\ c.count = n

\* What the caller means by a value: any word but 0 is "on" for a bit device.
Meant(dev, v) == IF IsBitDevice(dev) /\ v # {} THEN BitTrue ELSE v

\* What the station takes from a write request for its i-th value.
ValueSent(w, i) ==
  IF IsBitDevice(w.device) THEN (IF CoilIn(w.payload, i) = 1 THEN BitTrue ELSE {})
  ELSE WordOf(RegisterIn(w.payload, i))

LEMMA ResetMakes ==
  ASSUME NEW c, Sound(c), Stored(c), NEW h \in Headers
  PROVE  LET r == SetNetworkSettings(ResetContext(c), [header |-> h, timer |-> "default"])
         IN  Fresh(r.ctx, h)
  <1> DEFINE st == [header |-> h, timer |-> "default"]
             y  == ResetContext(c)
             d  == [y EXCEPT !.settings = st]
  <1>1. SetNetworkSettings(y, st).ctx = d
    <2>1. st.header \in Headers
      OBVIOUS
    <2> HIDE DEF st, y
    <2>2. QED  BY <2>1 DEF SetNetworkSettings, Ok
  <1>2. Whole(c) /\ c.in_use /\ c.values \in [Slots -> Words]
    BY DEF Sound, Stored
  <1>3. y = [c EXCEPT !.settings = DefaultSettings, !.next_serial = 0, !.serial = 0, !.device = "D",
                      !.command = "READ", !.address = 0, !.count = 0, !.code = 0, !.rx = <<>>]
    BY DEF ResetContext
  <1> HIDE DEF y, st
  <1>4. /\ Whole(y) /\ y.in_use /\ y.next_serial = 0 /\ y.serial = 0 /\ y.rx = <<>>
        /\ y.values = c.values
    BY <1>2, <1>3 DEF Whole, CtxFields
  <1>5. /\ Whole(d) /\ d.in_use /\ d.settings = st /\ d.next_serial = 0 /\ d.serial = 0
        /\ d.rx = <<>> /\ d.values = c.values
    BY <1>4 DEF Whole, CtxFields
  <1> HIDE DEF d
  <1>6. 0 \in 0 .. SerialRange - 1 /\ IoBufSize \in Nat
    BY SerialsAreNat, LayoutAssumption
  <1>7. d.rx \in Seq(Bytes) /\ Len(d.rx) = 0 /\ Len(d.rx) <= IoBufSize
    BY <1>5, <1>6, EmptySeq
  <1>8. d.settings \in Settings /\ d.settings.header = h
    BY <1>5 DEF Settings, st
  <1>9. Sound(d)
    BY <1>5, <1>6, <1>7, <1>8 DEF Sound
  <1>10. Fresh(d, h)
    BY <1>2, <1>5, <1>8, <1>9 DEF Fresh, Stored
  <1>11. QED  BY <1>1, <1>10 DEF st, y

LEMMA SetRequestMakes ==
  ASSUME NEW c, NEW h, Fresh(c, h), NEW cmd, NEW dev, NEW a, NEW n \in Nat
  PROVE  LET r == SetRequest(c, cmd, dev, a, n) IN
         /\ Fresh(r.ctx, h)
         /\ r.st = "OK" => /\ Asking(r.ctx, cmd, dev, a, n) /\ n \in 1 .. MaxCount(dev)
                           /\ cmd \in Commands /\ dev \in Devices
                           /\ SetRequestStatus(cmd, dev, a, n) = "OK"
  <1> DEFINE none == [k \in Slots |-> {}]
             vs   == IF ClearValuesOnSetRequest THEN none ELSE c.values
             d    == [c EXCEPT !.command = cmd, !.device = dev, !.address = a, !.count = n,
                               !.code = 0, !.values = vs]
             st   == SetRequestStatus(cmd, dev, a, n)
  <1>1. SetRequest(c, cmd, dev, a, n) = IF st # "OK" THEN Fail(st, c) ELSE Ok(d)
    BY DEF SetRequest
  <1>2. ASSUME st = "OK" PROVE n \in 1 .. MaxCount(dev) /\ cmd \in Commands /\ dev \in Devices
    <2>1. n # 0 /\ cmd \in Commands /\ dev \in Devices /\ ~(n > MaxCount(dev))
      BY <1>2 DEF SetRequestStatus
    <2>2. MaxCount(dev) \in Nat
      BY CountsAreNat
    <2>3. QED  BY <2>1, <2>2
  <1>3. vs \in [Slots -> Words]
    <2>1. none \in [Slots -> Words] /\ c.values \in [Slots -> Words]
      BY DEF Words, Fresh, Stored
    <2>2. QED  BY <2>1
  <1>4. Sound(c) /\ c.rx = <<>> /\ c.settings.header = h
    BY DEF Fresh
  <1> HIDE DEF vs, st
  <1>5. /\ Whole(d) /\ d.in_use = c.in_use /\ d.settings = c.settings /\ d.next_serial = c.next_serial
        /\ d.serial = c.serial /\ d.rx = c.rx /\ d.values = vs
        /\ d.command = cmd /\ d.device = dev /\ d.address = a /\ d.count = n
    BY <1>4 DEF Sound, Whole, CtxFields
  <1> HIDE DEF d
  <1>6. Fresh(d, h) /\ Asking(d, cmd, dev, a, n)
    BY <1>3, <1>4, <1>5 DEF Fresh, Sound, Stored, Asking
  <1>7. QED  BY <1>1, <1>2, <1>6 DEF Ok, Fail, st

\* A context with another value store.
Over(c, vs) == [c EXCEPT !.values = vs]

LEMMA WriteMakes ==
  ASSUME NEW c, NEW h, Fresh(c, h), NEW cmd, NEW dev, NEW a, NEW n \in 1 .. MaxCount(dev),
         Asking(c, cmd, dev, a, n), NEW i \in 0 .. n - 1, NEW v \in Words
  PROVE  LET r == SetWriteValue(c, i, v) IN
         /\ r.st = "OK" /\ Fresh(r.ctx, h) /\ Asking(r.ctx, cmd, dev, a, n)
         /\ \E vs \in [Slots -> Words] : r = Ok(Over(c, vs))
         /\ \A j \in 0 .. n - 1 :
              GetResponseValue(r.ctx, j) = IF j = i THEN Meant(dev, v) ELSE GetResponseValue(c, j)
  <1>1. /\ Sound(c) /\ Whole(c) /\ c.values \in [Slots -> Words] /\ c.rx = <<>>
        /\ c.settings.header = h /\ c.command = cmd /\ c.device = dev /\ c.address = a /\ c.count = n
    BY DEF Fresh, Sound, Stored, Asking
  <1>2. MaxCount(dev) \in Nat /\ MaxValueCount \in Nat /\ n \in Nat /\ n # 0 /\ ~(i >= n)
    <2>1. MaxCount(dev) \in Nat
      BY CountsAreNat
    <2>2. QED  BY <2>1, SerialsAreNat
  <1>3. CASE IsBitDevice(dev)
    <2> DEFINE b(j) == BitOf(j)
               k(j) == SlotOf(j)
               x    == IF v # {} THEN c.values[k(i)] \cup {b(i)} ELSE c.values[k(i)] \ {b(i)}
               vs   == [c.values EXCEPT ![k(i)] = x]
               d    == [c EXCEPT !.values = vs]
    <2>1. SetWriteValue(c, i, v) = Ok(d)
      BY <1>1, <1>2, <1>3 DEF SetWriteValue
    <2>2. \A j \in 0 .. n - 1 : k(j) \in Slots /\ b(j) \in 0 .. BitsPerWord - 1 /\ j = 16 * k(j) + b(j)
      <3>1. n <= 16 * MaxValueCount
        BY <1>2, <1>3 DEF MaxCount, MaxBitValueCount, BitsPerWord
      <3>2. QED  BY <1>2, <3>1 DEF SlotOf, BitOf, Slots, BitsPerWord
    <2> HIDE DEF b, k
    <2>3. x \in Words /\ vs \in [Slots -> Words]
      <3>1. k(i) \in Slots /\ b(i) \in 0 .. BitsPerWord - 1
        BY <2>2
      <3>2. x \in Words
        BY <1>1, <3>1 DEF Words
      <3> HIDE DEF x
      <3>3. QED  BY <1>1, <3>1, <3>2
    <2>4. ASSUME NEW j \in 0 .. n - 1
          PROVE  b(j) \in vs[k(j)] <=> IF j = i THEN v # {} ELSE b(j) \in c.values[k(j)]
      <3>1. vs[k(j)] = IF k(j) = k(i) THEN x ELSE c.values[k(j)]
        <4>1. k(j) \in Slots
          BY <2>2
        <4> HIDE DEF x
        <4>2. QED  BY <1>1, <4>1
      <3>2. k(j) = k(i) /\ b(j) = b(i) => j = i
        <4>1. j = 16 * k(j) + b(j) /\ i = 16 * k(i) + b(i)
          BY <2>2
        <4>2. QED  BY <4>1
      <3>3. QED  BY <3>1, <3>2
    <2> HIDE DEF vs
    <2>5. /\ Whole(d) /\ d.in_use = c.in_use /\ d.settings = c.settings /\ d.next_serial = c.next_serial
          /\ d.serial = c.serial /\ d.rx = c.rx /\ d.values = vs
          /\ d.command = cmd /\ d.device = dev /\ d.address = a /\ d.count = n
      BY <1>1 DEF Whole, CtxFields
    <2> HIDE DEF d
    <2>6. Fresh(d, h) /\ Asking(d, cmd, dev, a, n)
      BY <1>1, <2>3, <2>5 DEF Fresh, Sound, Stored, Asking
    <2>7. ASSUME NEW j \in 0 .. n - 1
          PROVE  GetResponseValue(d, j) = IF j = i THEN Meant(dev, v) ELSE GetResponseValue(c, j)
      <3>1. GetResponseValue(d, j) = IF b(j) \in vs[k(j)] THEN BitTrue ELSE {}
        BY <1>3, <2>5 DEF GetResponseValue, b, k
      <3>2. GetResponseValue(c, j) = IF b(j) \in c.values[k(j)] THEN BitTrue ELSE {}
        BY <1>1, <1>3 DEF GetResponseValue, b, k
      <3>3. Meant(dev, v) = IF v # {} THEN BitTrue ELSE {}
        BY <1>3 DEF Meant
      <3>4. QED  BY <2>4, <3>1, <3>2, <3>3
    <2>8. \E y \in [Slots -> Words] : SetWriteValue(c, i, v) = Ok(Over(c, y))
      BY <2>1, <2>3 DEF d, Over
    <2>9. SetWriteValue(c, i, v).st = "OK" /\ SetWriteValue(c, i, v).ctx = d
      BY <2>1 DEF Ok
    <2>10. QED  BY <2>6, <2>7, <2>8, <2>9
  <1>4. CASE ~IsBitDevice(dev)
    <2> DEFINE vs == [c.values EXCEPT ![i] = v]
               d  == [c EXCEPT !.values = vs]
    <2>1. SetWriteValue(c, i, v) = Ok(d)
      BY <1>1, <1>2, <1>4 DEF SetWriteValue
    <2>2. \A j \in 0 .. n - 1 : j \in Slots
      BY <1>2, <1>4 DEF MaxCount, Slots
    <2>3. vs \in [Slots -> Words] /\ \A j \in 0 .. n - 1 : vs[j] = IF j = i THEN v ELSE c.values[j]
      BY <1>1, <2>2
    <2> HIDE DEF vs
    <2>4. /\ Whole(d) /\ d.in_use = c.in_use /\ d.settings = c.settings /\ d.next_serial = c.next_serial
          /\ d.serial = c.serial /\ d.rx = c.rx /\ d.values = vs
          /\ d.command = cmd /\ d.device = dev /\ d.address = a /\ d.count = n
      BY <1>1 DEF Whole, CtxFields
    <2> HIDE DEF d
    <2>5. Fresh(d, h) /\ Asking(d, cmd, dev, a, n)
      BY <1>1, <2>3, <2>4 DEF Fresh, Sound, Stored, Asking
    <2>6. \A j \in 0 .. n - 1 :
            GetResponseValue(d, j) = IF j = i THEN Meant(dev, v) ELSE GetResponseValue(c, j)
      BY <1>1, <1>4, <2>3, <2>4 DEF GetResponseValue, Meant
    <2>7. \E y \in [Slots -> Words] : SetWriteValue(c, i, v) = Ok(Over(c, y))
      BY <2>1, <2>3 DEF d, Over
    <2>8. SetWriteValue(c, i, v).st = "OK" /\ SetWriteValue(c, i, v).ctx = d
      BY <2>1 DEF Ok
    <2>9. QED  BY <2>5, <2>6, <2>7, <2>8
  <1>5. QED  BY <1>3, <1>4

\* fx5_build_request on a context that was reset and set: the request goes out
\* as it was set.
LEMMA BuildMakes ==
  ASSUME NEW c, NEW h, Fresh(c, h), NEW cmd, NEW dev, NEW a, NEW n, Asking(c, cmd, dev, a, n)
  PROVE  LET r == BuildRequest(c, MaxRequestSize) IN
         /\ Fresh(r.ctx, h) /\ Asking(r.ctx, cmd, dev, a, n)
         /\ r.ctx.values = c.values
         /\ Wire(r.ctx).serial = r.ctx.serial /\ Wire(r.ctx).settings.header = h
  <1> DEFINE d == Stamp(c)
  <1>1. /\ Sound(c) /\ Whole(c) /\ c.in_use /\ c.values \in [Slots -> Words] /\ c.rx = <<>>
        /\ c.settings.header = h /\ c.settings \in Settings
        /\ c.next_serial \in 0 .. SerialRange - 1 /\ c.serial \in 0 .. SerialRange - 1
        /\ c.command = cmd /\ c.device = dev /\ c.address = a /\ c.count = n
    BY DEF Fresh, Sound, Stored, Asking
  <1> DEFINE next == IF h = "4E" THEN (c.next_serial + 1) % SerialRange ELSE c.next_serial
             now  == IF h = "4E" THEN c.next_serial ELSE 0
  <1>2. next \in 0 .. SerialRange - 1 /\ now \in 0 .. SerialRange - 1
    <2>1. SerialRange \in Nat /\ SerialRange >= 1
      BY SerialsAreNat
    <2>2. ASSUME NEW k \in Nat PROVE k % SerialRange \in 0 .. SerialRange - 1
      BY <2>1
    <2>3. c.next_serial \in Nat /\ c.next_serial + 1 \in Nat /\ c.next_serial \in 0 .. SerialRange - 1
      BY <1>1, <2>1
    <2>4. 0 \in 0 .. SerialRange - 1
      BY <2>1
    <2>5. (c.next_serial + 1) % SerialRange \in 0 .. SerialRange - 1
      BY <2>2, <2>3
    <2>6. QED  BY <2>3, <2>4, <2>5
  <1>3. /\ Whole(d) /\ d.in_use /\ d.settings = c.settings /\ d.next_serial = next
        /\ d.serial = now /\ d.rx = c.rx /\ d.values = c.values
        /\ d.command = cmd /\ d.device = dev /\ d.address = a /\ d.count = n
    <2>1. CASE h = "4E"
      <3>1. d = [c EXCEPT !.serial = c.next_serial, !.next_serial = next]
        BY <1>1, <2>1 DEF Stamp
      <3> HIDE DEF next, d
      <3>2. QED  BY <1>1, <2>1, <3>1 DEF Whole, CtxFields
    <2>2. CASE h # "4E"
      <3>1. d = [c EXCEPT !.serial = 0]
        BY <1>1, <2>2 DEF Stamp
      <3> HIDE DEF d
      <3>2. QED  BY <1>1, <2>2, <3>1 DEF Whole, CtxFields
    <2>3. QED  BY <2>1, <2>2
  <1> HIDE DEF d, next, now
  <1>4. Fresh(d, h) /\ Asking(d, cmd, dev, a, n)
    <2>1. Sound(d)
      BY <1>1, <1>2, <1>3 DEF Sound
    <2>2. QED  BY <1>1, <1>3, <2>1 DEF Fresh, Stored, Asking
  <1>5. BuildRequest(c, MaxRequestSize).ctx \in {c, d}
    BY DEF BuildRequest, Ok, Fail, d
  <1>6. \A x : Wire(x).serial = x.serial /\ Wire(x).settings = x.settings
    BY DEF Wire
  <1>7. ASSUME NEW x \in {c, d}
        PROVE  /\ Fresh(x, h) /\ Asking(x, cmd, dev, a, n) /\ x.values = c.values
               /\ Wire(x).serial = x.serial /\ Wire(x).settings.header = h
    <2>1. Fresh(x, h) /\ Asking(x, cmd, dev, a, n) /\ x.values = c.values
      BY <1>3, <1>4
    <2>2. QED  BY <1>6, <2>1 DEF Fresh
  <1>8. QED  BY <1>5, <1>7

\* What the payload of a write says is what the caller would read back.
LEMMA PayloadSays ==
  ASSUME NEW c, Stored(c), c.command = "WRITE", c.count \in 1 .. MaxCount(c.device),
         NEW i \in 0 .. c.count - 1
  PROVE  ValueSent(Wire(c), i) = GetResponseValue(c, i)
  <1>1. /\ Wire(c).device = c.device /\ Wire(c).payload = WritePayload(c)
        /\ c.values \in [Slots -> Words]
    BY DEF Wire, Stored
  <1>2. MaxCount(c.device) \in Nat /\ MaxValueCount \in Nat /\ c.count \in Nat
    <2>1. MaxCount(c.device) \in Nat
      BY CountsAreNat
    <2>2. QED  BY <2>1, SerialsAreNat
  <1> DEFINE n == c.count
  <1>3. CASE IsBitDevice(c.device)
    <2> DEFINE k == i \div 2 + 1
    <2>1. /\ k \in 1 .. PayloadSize(c.device, n) /\ i % 2 \in {0, 1}
          /\ i % 2 = 0 => 2 * k - 2 = i
          /\ i % 2 = 1 => 2 * k - 1 = i
      BY <1>2, <1>3 DEF PayloadSize
    <2>2. \A j : PackedBit(c, j) \in {0, 1}
      BY DEF PackedBit
    <2>3. PackedBit(c, i) = 1 <=> BitOf(i) \in c.values[SlotOf(i)]
      BY <1>2 DEF PackedBit
    <2>4. WritePayload(c)[k] = 16 * PackedBit(c, 2 * k - 2) + PackedBit(c, 2 * k - 1)
      BY <1>3, <2>1 DEF WritePayload, PackBits
    <2>5. \A x, y \in {0, 1} : /\ ((16 * x + y) \div 16) % 16 = x
                               /\ ((16 * x + y) \div 1) % 16 = y
      OBVIOUS
    <2>6. CoilIn(WritePayload(c), i) = PackedBit(c, i)
      <3>1. CoilIn(WritePayload(c), i) = (WritePayload(c)[k] \div (IF i % 2 = 0 THEN 16 ELSE 1)) % 16
        BY DEF CoilIn
      <3> HIDE DEF k
      <3>2. CASE i % 2 = 0
        BY <2>1, <2>2, <2>4, <2>5, <3>1, <3>2
      <3>3. CASE i % 2 = 1
        BY <2>1, <2>2, <2>4, <2>5, <3>1, <3>3
      <3>4. QED  BY <2>1, <3>2, <3>3
    <2>7. QED  BY <1>1, <1>3, <2>3, <2>6 DEF ValueSent, GetResponseValue
  <1>4. CASE ~IsBitDevice(c.device)
    <2>1. i \in Slots
      BY <1>2, <1>4 DEF MaxCount, Slots
    <2>2. c.values[i] \in Words /\ NumberOf(c.values[i]) \in Numbers16
      BY <1>1, <2>1, NumberFits
    <2> DEFINE x == NumberOf(c.values[i])
    <2>3. WritePayload(c) = [k \in 1 .. 2 * n |->
            LET m == NumberOf(c.values[(k - 1) \div 2]) IN IF k % 2 = 1 THEN m % 256 ELSE m \div 256]
      BY <1>4 DEF WritePayload, PackWords, PayloadSize
    <2>4. /\ 2 * i + 1 \in 1 .. 2 * n /\ 2 * i + 2 \in 1 .. 2 * n
          /\ (2 * i + 1 - 1) \div 2 = i /\ (2 * i + 2 - 1) \div 2 = i
          /\ (2 * i + 1) % 2 = 1 /\ (2 * i + 2) % 2 # 1
      BY <1>2
    <2>5. WritePayload(c)[2 * i + 1] = x % 256 /\ WritePayload(c)[2 * i + 2] = x \div 256
      BY <2>3, <2>4
    <2> HIDE DEF x
    <2>6. (x % 256) + 256 * (x \div 256) = x
      BY <2>2, Halves DEF x
    <2>7. RegisterIn(WritePayload(c), i) = x
      BY <2>5, <2>6 DEF RegisterIn
    <2>8. WordOf(x) = c.values[i]
      BY <2>2, WordsReadBack DEF x
    <2>9. QED  BY <1>1, <1>4, <2>7, <2>8 DEF ValueSent, GetResponseValue
  <1>5. QED  BY <1>3, <1>4

\* A response fits in the receive buffer.
LEMMA ResponseFits ==
  ASSUME NEW w, Asked(w), NEW code \in Bytes, NEW vals, Numbered(w, vals)
  PROVE  Len(Response(w, code, vals)) <= IoBufSize
  <1>1. /\ vals \in Seq(Numbers16) /\ Len(vals) \in Nat /\ Len(vals) <= MaxCount(w.device)
    BY LenProperties DEF Numbered
  <1>2. MaxValueCount \in Nat /\ MaxValueCount >= 1
    BY ContextAssumption DEF LargestValueCount
  <1>3. IoBufSize = 41 + 8 * MaxValueCount
    <2>1. IoBufSize = 41 + (16 * MaxValueCount + 1) \div 2
      <3>1. IoBufSize = MaxRequestSize
        BY ContextAssumption
      <3>2. QED  BY <1>2, <3>1 DEF MaxRequestSize, MaxBitPayload, MaxBitValueCount, BitsPerWord,
                                   ReqHeaderSize4E, ReqPduHeaderSize, IoBufGuard
    <2>2. QED  BY <1>2, <2>1
  <1>4. PayloadSize(w.device, Len(vals)) \in Nat /\ PayloadSize(w.device, Len(vals)) <= 8 * MaxValueCount
    BY <1>1, <1>2 DEF PayloadSize, MaxCount, MaxBitValueCount, BitsPerWord
  <1>5. /\ Len(Response(w, code, vals)) = HeaderSize(w.settings.header) + 2 + Len(Body(w, code, vals))
        /\ Len(Body(w, code, vals)) = IF code # 0 THEN 9 ELSE PayloadSize(w.device, Len(vals))
    BY ResponseFacts, BodyFacts
  <1>6. HeaderSize(w.settings.header) \in {9, 13}
    BY HeaderAssumption DEF HeaderSize
  <1> DEFINE z  == PayloadSize(w.device, Len(vals))
             hs == HeaderSize(w.settings.header)
  <1> HIDE DEF z, hs
  <1>7. Len(Body(w, code, vals)) \in {9, z} /\ z \in Nat /\ z <= 8 * MaxValueCount
    BY <1>4, <1>5 DEF z
  <1>8. hs \in {9, 13} /\ Len(Response(w, code, vals)) = hs + 2 + Len(Body(w, code, vals))
    BY <1>5, <1>6 DEF hs
  <1> DEFINE lb == Len(Body(w, code, vals))
             lr == Len(Response(w, code, vals))
  <1>9. lb \in {9, z} /\ lr = hs + 2 + lb
    BY <1>7, <1>8, Zenon
  <1> HIDE DEF lb, lr
  <1>10. lr <= IoBufSize
    BY <1>2, <1>3, <1>7, <1>8, <1>9
  <1>11. QED  BY <1>10 DEF lr

\* A context that waits for an answer, and has it or its beginning alone in its
\* buffer, waits on or hands it out.
LEMMA AloneParses ==
  ASSUME NEW w, Asked(w), NEW code \in Bytes, NEW vals, Answers(w, code, vals),
         NEW bytes, bytes = Response(w, code, vals), Framed(bytes),
         NEW c, Whole(c), Awaits(c, w), c.serial = w.serial,
         NEW k \in 1 .. Len(bytes), c.rx = Piece(bytes, 0, k)
  PROVE  LET r == ParseResponse(c) IN
         /\ StopAt(c.rx, c.serial) = 0
         /\ k < Len(bytes) => /\ r.st = "NEED_MORE" /\ r.ctx.rx = c.rx
                              /\ Awaits(r.ctx, w) /\ r.ctx.serial = w.serial
         /\ k = Len(bytes) => /\ r.st = (IF code = 0 THEN "OK" ELSE "RESPONSE_ERROR")
                              /\ r.ctx.rx = <<>> /\ r.ctx.code = code /\ r.ctx.device = w.device
                              /\ r.st = "OK" /\ w.command = "READ" => Holds(r.ctx, vals)
  <1> DEFINE r  == ParseResponse(c)
             rx == c.rx
  <1>1. Numbered(w, vals) /\ bytes \in Seq(Bytes) /\ Len(bytes) \in Nat
    BY LenProperties DEF Answers, Framed
  <1>2. ~Mismatch(bytes, 0, c.serial)
    BY <1>1, ResponseFacts
  <1>3. /\ rx \in Seq(Bytes) /\ Len(rx) = k /\ StopAt(rx, c.serial) = 0
        /\ k < Len(bytes) => VerdictAt(rx, 0) = "need_more"
        /\ k = Len(bytes) => rx = bytes /\ VerdictAt(rx, 0) = "frame"
    BY <1>2, AloneReads
  <1>4. /\ Parsed(c, r.ctx)
        /\ r.st \notin TakenStatus => r.ctx.rx = After(rx, 0) /\ r.ctx.count = c.count
    BY <1>3, ParseParses
  <1>5. r = ParseAt(c, 0)
    BY <1>3 DEF ParseResponse
  <1>6. ASSUME k < Len(bytes)
        PROVE  r.st = "NEED_MORE" /\ r.ctx.rx = rx /\ Awaits(r.ctx, w) /\ r.ctx.serial = w.serial
    <2>1. r.st = "NEED_MORE"
      BY <1>3, <1>5, <1>6 DEF ParseAt, Fail
    <2>2. After(rx, 0) = rx
      BY <1>3, SubSeqFull DEF After
    <2> HIDE DEF r, rx
    <2>3. QED  BY <1>4, <2>1, <2>2 DEF TakenStatus, Awaits, Parsed
  <1>7. ASSUME k = Len(bytes)
        PROVE  /\ r.st = (IF code = 0 THEN "OK" ELSE "RESPONSE_ERROR")
               /\ r.ctx.rx = <<>> /\ r.ctx.code = code /\ r.ctx.device = w.device
               /\ r.st = "OK" /\ w.command = "READ" => Holds(r.ctx, vals)
    <2>1. r.st \in TakenStatus
      <3> DEFINE size == PacketSize(rx, 0)
                 n    == HeaderSize(HeaderAt(rx, 0))
                 d    == [c EXCEPT !.rx = After(@, 0 + n)]
      <3>1. r = ParsePdu(d, size)
        BY <1>3, <1>5, <1>7 DEF ParseAt
      <3>2. ParsePdu(d, size).st \in TakenStatus
        BY DEF ParsePdu, TakenStatus, Ok, Fail
      <3>3. QED  BY <3>1, <3>2
    <2>2. Stands(rx, 0, bytes)
      BY <1>1, <1>3, <1>7 DEF Stands
    <2>3. /\ r.st = (IF code = 0 THEN "OK" ELSE "RESPONSE_ERROR")
          /\ r.ctx.rx = After(rx, 0 + Len(bytes)) /\ r.ctx.code = code
          /\ r.st = "OK" /\ w.command = "READ" => Holds(r.ctx, vals)
      <3>1. Stands(c.rx, StopAt(c.rx, c.serial), Response(w, code, vals)) /\ c.rx \in Seq(Bytes)
        BY <1>3, <2>2
      <3>2. LET m == StopAt(c.rx, c.serial) + Len(Response(w, code, vals)) IN
            /\ r.st = (IF code = 0 THEN "OK" ELSE "RESPONSE_ERROR")
            /\ r.ctx.rx = After(c.rx, m) /\ r.ctx.code = code
            /\ r.st = "OK" /\ w.command = "READ" => Holds(r.ctx, vals)
        BY <2>1, <3>1, ParseAnswers
      <3>3. QED  BY <1>3, <3>2
    <2>4. After(rx, 0 + Len(bytes)) = <<>>
      <3>1. Len(rx) < Len(bytes) + 1 /\ 0 + Len(bytes) = Len(bytes)
            /\ Len(bytes) + 1 \in Int /\ Len(rx) \in Int
        BY <1>1, <1>3, <1>7
      <3>2. SubSeq(rx, Len(bytes) + 1, Len(rx)) = <<>>
        BY <3>1, SubSeqEmpty
      <3>3. QED  BY <3>1, <3>2 DEF After
    <2>5. r.ctx.device = w.device
      BY <1>4 DEF Parsed, Awaits
    <2>6. QED  BY <2>3, <2>4, <2>5
  <1> HIDE DEF r
  <1>8. QED  BY <1>3, <1>6, <1>7 DEF r
=============================================================================
