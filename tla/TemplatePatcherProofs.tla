------------------------ MODULE TemplatePatcherProofs ------------------------
(***************************************************************************)
(* A patched script is the compiled one, for every byte size, field width, *)
(* template and channel.                                                   *)
(***************************************************************************)
EXTENDS TemplatePatcher, SumProofs, SequenceTheorems

-----------------------------------------------------------------------------
(* Powers of the byte size.                                                *)

LEMMA LeastNatural ==
    ASSUME NEW Bad \in SUBSET Nat, Bad # {}
    PROVE  \E n \in Bad : \A m \in Nat : m < n => m \notin Bad
<1>1. IsWellFoundedOn(OpToRel(<, Nat), Nat)
  BY NatLessThanWellFounded
<1>2. PICK n \in Bad : \A m \in Bad : << m, n >> \notin OpToRel(<, Nat)
  BY <1>1, WFMin, Zenon
<1>3. ASSUME NEW m \in Bad, m < n
      PROVE  FALSE
  <2>1. << m, n >> \in OpToRel(<, Nat)
    BY <1>3 DEF OpToRel
  <2> QED
    BY <1>2, <1>3, <2>1
<1> QED
  BY <1>2, <1>3

\* The first n powers.
IsPower(g, n) == g = [k \in 0 .. n |-> IF k = 0 THEN 1 ELSE Base * g[k - 1]]

LEMMA PowersExist ==
    \A n \in Nat : \E g : IsPower(g, n)
<1> DEFINE Bad == { n \in Nat : ~ \E g : IsPower(g, n) }
<1>1. CASE Bad # {}
  <2>1. PICK n \in Bad : \A m \in Nat : m < n => m \notin Bad
    <3> HIDE DEF Bad
    <3>1. Bad \in SUBSET Nat
      BY DEF Bad
    <3> QED
      BY <1>1, <3>1, LeastNatural
  <2>2. CASE n = 0
    <3>1. IsPower([k \in 0 .. 0 |-> 1], 0)
      BY DEF IsPower
    <3> QED
      BY <2>2, <3>1
  <2>3. CASE n # 0
    <3>1. n - 1 \in Nat /\ n - 1 < n
      BY <2>3
    <3>2. PICK g : IsPower(g, n - 1)
      BY <2>1, <3>1
    <3>3. g = [k \in 0 .. n - 1 |-> IF k = 0 THEN 1 ELSE Base * g[k - 1]]
      BY <3>2 DEF IsPower
    <3> DEFINE h == [k \in 0 .. n |-> IF k = n THEN Base * g[n - 1] ELSE g[k]]
    <3>4. \A k \in 0 .. n : h[k] = IF k = 0 THEN 1 ELSE Base * h[k - 1]
      <4> TAKE k \in 0 .. n
      <4>1. CASE k = n
        BY <2>3, <4>1
      <4>2. CASE k # n
        <5>1. k \in 0 .. n - 1
          BY <4>2
        <5>2. g[k] = IF k = 0 THEN 1 ELSE Base * g[k - 1]
          BY <3>3, <5>1
        <5>3. k # 0 => h[k - 1] = g[k - 1]
          BY <5>1
        <5> QED
          BY <4>2, <5>2, <5>3
      <4> QED
        BY <4>1, <4>2
    <3>5. IsPower(h, n)
      <4>1. h = [k \in 0 .. n |-> h[k]]
        OBVIOUS
      <4> HIDE DEF h
      <4> QED
        BY <3>4, <4>1 DEF IsPower
    <3> QED
      BY <3>5
  <2> QED
    BY <2>2, <2>3
<1> QED
  BY <1>1

LEMMA PowerAt ==
    ASSUME NEW n \in Nat, NEW g, IsPower(g, n), NEW k \in 0 .. n
    PROVE  g[k] = IF k = 0 THEN 1 ELSE Base * g[k - 1]
  BY DEF IsPower

LEMMA PowersAgree ==
    ASSUME NEW n \in Nat, NEW g, IsPower(g, n),
           NEW m \in Nat, NEW h, IsPower(h, m), n <= m
    PROVE  \A k \in 0 .. n : g[k] = h[k]
<1> DEFINE Bad == { k \in 0 .. n : g[k] # h[k] }
<1>1. CASE Bad # {}
  <2>1. PICK k \in Bad : \A j \in Nat : j < k => j \notin Bad
    <3>1. Bad \in SUBSET Nat
      OBVIOUS
    <3> HIDE DEF Bad
    <3> QED
      BY <1>1, <3>1, LeastNatural
  <2>2. k \in 0 .. n /\ k \in 0 .. m
    OBVIOUS
  <2>3. g[k] = (IF k = 0 THEN 1 ELSE Base * g[k - 1])
    BY <2>2, PowerAt
  <2>4. h[k] = (IF k = 0 THEN 1 ELSE Base * h[k - 1])
    BY <2>2, PowerAt
  <2>5. k # 0 => g[k - 1] = h[k - 1]
    <3>1. k # 0 => k - 1 \in Nat /\ k - 1 < k /\ k - 1 \in 0 .. n
      BY <2>2
    <3> QED
      BY <2>1, <3>1
  <2> QED
    BY <2>3, <2>4, <2>5
<1> QED
  BY <1>1

LEMMA PowerUnfolds ==
    Power = [k \in Nat |-> IF k = 0 THEN 1 ELSE Base * Power[k - 1]]
<1> DEFINE fn(n) == CHOOSE g : IsPower(g, n)
           F == [k \in Nat |-> fn(k)[k]]
<1>1. \A n \in Nat : IsPower(fn(n), n)
  BY PowersExist
<1> HIDE DEF fn
<1>2. \A k \in Nat : F[k] = IF k = 0 THEN 1 ELSE Base * F[k - 1]
  <2> TAKE k \in Nat
  <2>1. fn(k)[k] = IF k = 0 THEN 1 ELSE Base * fn(k)[k - 1]
    BY <1>1, PowerAt
  <2>2. k # 0 => fn(k)[k - 1] = fn(k - 1)[k - 1]
    <3> SUFFICES ASSUME k # 0
                 PROVE  fn(k)[k - 1] = fn(k - 1)[k - 1]
      OBVIOUS
    <3>1. k - 1 \in Nat /\ k - 1 <= k /\ k - 1 \in 0 .. k - 1
      OBVIOUS
    <3>2. IsPower(fn(k), k) /\ IsPower(fn(k - 1), k - 1)
      BY <1>1, <3>1
    <3> QED
      BY <3>1, <3>2, PowersAgree
  <2> QED
    BY <2>1, <2>2
<1>3. F = [k \in Nat |-> IF k = 0 THEN 1 ELSE Base * F[k - 1]]
  <2>1. F = [k \in Nat |-> F[k]]
    OBVIOUS
  <2> HIDE DEF F
  <2> QED
    BY <1>2, <2>1
<1> HIDE DEF F
<1> QED
  BY <1>3 DEF Power

LEMMA BaseFacts ==
    /\ Base \in Nat /\ Base >= 2 /\ SignBit \in Nat /\ SignBit + SignBit = Base
    /\ SignBit > 0
  BY PatcherAssumption DEF SignBit

LEMMA PowerTyped ==
    \A k \in Nat : /\ Power[k] \in Nat \ {0}
                   /\ Power[k] = IF k = 0 THEN 1 ELSE Base * Power[k - 1]
                   /\ k < Power[k]
<1>1. \A k \in Nat : Power[k] = IF k = 0 THEN 1 ELSE Base * Power[k - 1]
  BY PowerUnfolds
<1> DEFINE Good(k) == Power[k] \in Nat \ {0} /\ k < Power[k]
           Bad == { k \in Nat : ~ Good(k) }
<1>2. CASE Bad # {}
  <2>1. PICK n \in Bad : \A m \in Nat : m < n => m \notin Bad
    <3>1. Bad \in SUBSET Nat
      OBVIOUS
    <3> HIDE DEF Bad
    <3> QED
      BY <1>2, <3>1, LeastNatural
  <2>2. n \in Nat /\ n # 0
    BY <1>1
  <2>3. Power[n - 1] \in Nat \ {0} /\ n - 1 < Power[n - 1] /\ n - 1 \in Nat
    BY <2>1, <2>2
  <2>4. Power[n] = Base * Power[n - 1]
    BY <1>1, <2>2
  <2>5. \A c, p \in Nat : c * p \in Nat /\ (c + 2) * p = c * p + p + p
    BY SMT
  <2>6. Base * Power[n - 1] >= Power[n - 1] + Power[n - 1] /\ Base * Power[n - 1] \in Nat
    <3>1. Base - 2 \in Nat /\ (Base - 2) + 2 = Base
      BY BaseFacts
    <3> QED
      BY <2>3, <2>5, <3>1
  <2> HIDE DEF Bad
  <2>7. Good(n)
    BY <2>2, <2>3, <2>4, <2>6
  <2> QED
    BY <2>7 DEF Bad
<1> QED
  BY <1>1, <1>2

-----------------------------------------------------------------------------
(* The encodings are byte sequences.                                       *)

Byte == 0 .. Base - 1

LEMMA BytesAreInts ==
    \A bytes \in Seq(Byte) : bytes \in Seq(Int)
<1>1. Byte \subseteq Int
  BY BaseFacts DEF Byte
<1> TAKE bytes \in Seq(Byte)
<1>2. bytes = [i \in 1 .. Len(bytes) |-> bytes[i]]
      /\ \A i \in 1 .. Len(bytes) : bytes[i] \in Byte
  OBVIOUS
<1> QED
  BY <1>1, <1>2

LEMMA AbsTyped ==
    \A value \in Int : /\ AbsValue(value) \in Nat
                       /\ value # 0 => AbsValue(value) >= 1
  BY DEF AbsValue

LEMMA DigitsTyped ==
    ASSUME NEW value \in Nat, NEW size \in Nat
    PROVE  /\ Digits(value, size) \in Seq(Byte)
           /\ Len(Digits(value, size)) = size
<1>1. \A i \in 1 .. size : (value \div Power[i - 1]) % Base \in Byte
  <2> TAKE i \in 1 .. size
  <2>1. Power[i - 1] \in Nat /\ Power[i - 1] > 0
    BY PowerTyped
  <2>2. value \div Power[i - 1] \in Int
    BY <2>1
  <2> QED
    BY <2>2, BaseFacts DEF Byte
<1> QED
  BY <1>1 DEF Digits

LEMMA WithSignTyped ==
    ASSUME NEW bytes \in Seq(Byte)
    PROVE  WithSign(bytes) \in Seq(Byte) /\ Len(WithSign(bytes)) = Len(bytes)
<1>1. \A i \in DOMAIN bytes :
         bytes[i] < SignBit => bytes[i] \in Byte /\ bytes[i] + SignBit \in Byte
  BY BaseFacts DEF Byte
<1> QED
  BY <1>1 DEF WithSign

\* What fits a field is as wide as a field, what does not throws.
LEMMA FixedIntTyped ==
    ASSUME NEW value \in Int
    PROVE  /\ Power[Width] \in Nat
           /\ IF AbsValue(value) >= Power[Width]
              THEN EncodeFixedInt(value, Width) = Failed
              ELSE /\ EncodeFixedInt(value, Width) \in Seq(Int)
                   /\ Len(EncodeFixedInt(value, Width)) = Width
<1>1. Width \in Nat /\ Power[Width] \in Nat
  BY PatcherAssumption, PowerTyped
<1> DEFINE bytes == Digits(AbsValue(value), Width)
<1>2. bytes \in Seq(Byte) /\ Len(bytes) = Width
  BY <1>1, AbsTyped, DigitsTyped
<1>3. /\ bytes \in Seq(Int) /\ WithSign(bytes) \in Seq(Int)
      /\ Len(WithSign(bytes)) = Width
  BY <1>2, WithSignTyped, BytesAreInts
<1> HIDE DEF bytes
<1> QED
  BY <1>1, <1>2, <1>3 DEF EncodeFixedInt, bytes

\* A positive integer has a least number of bytes.
LEMMA MinimalTyped ==
    ASSUME NEW value \in Nat, value >= 1
    PROVE  /\ Minimal(value) \in Seq(Byte)
           /\ Len(Minimal(value)) >= 1
<1> DEFINE Reached == { n \in Nat : value < Power[n] }
           Fits(n) == Power[n - 1] <= value /\ value < Power[n]
           size == CHOOSE n \in 1 .. value : Fits(n)
<1>1. value \in Reached
  BY PowerTyped
<1>2. PICK n \in Reached : \A m \in Nat : m < n => m \notin Reached
  <2> HIDE DEF Reached
  <2>1. Reached \in SUBSET Nat
    BY DEF Reached
  <2> QED
    BY <1>1, <2>1, LeastNatural
<1>3. n # 0
  BY PowerTyped
<1>4. n \in 1 .. value /\ Fits(n)
  <2>1. n <= value
    BY <1>1, <1>2
  <2>2. n - 1 \in Nat /\ n - 1 \notin Reached
    BY <1>2, <1>3
  <2>3. Power[n - 1] \in Nat
    BY <2>2, PowerTyped
  <2> QED
    BY <1>2, <1>3, <2>1, <2>2, <2>3
<1>5. size \in 1 .. value
  <2> HIDE DEF Fits
  <2> QED
    BY <1>4
<1>6. Minimal(value) = Digits(value, size)
  BY DEF Minimal
<1> HIDE DEF size
<1> QED
  BY <1>5, <1>6, DigitsTyped

LEMMA ScriptIntTyped ==
    ASSUME NEW value \in Int
    PROVE  /\ EncodeScriptInt(value) \in Seq(Int)
           /\ value \in -1 .. SmallMax => EncodeScriptInt(value) = << >>
<1>1. CASE value \in -1 .. SmallMax
  BY <1>1 DEF EncodeScriptInt
<1>2. CASE value \notin -1 .. SmallMax
  <2> DEFINE bytes == Minimal(AbsValue(value))
  <2>1. value # 0
    BY <1>2, PatcherAssumption
  <2>2. bytes \in Seq(Byte)
    BY <2>1, AbsTyped, MinimalTyped
  <2>3. bytes \in Seq(Int) /\ WithSign(bytes) \in Seq(Int)
    BY <2>2, WithSignTyped, BytesAreInts
  <2>4. EncodeScriptInt(value) =
          IF bytes[Len(bytes)] >= SignBit
          THEN Append(bytes, IF value < 0 THEN SignBit ELSE 0)
          ELSE IF value < 0 THEN WithSign(bytes) ELSE bytes
    BY <1>2 DEF EncodeScriptInt
  <2> HIDE DEF bytes
  <2>5. Append(bytes, IF value < 0 THEN SignBit ELSE 0) \in Seq(Int)
    BY <2>3, BaseFacts
  <2> QED
    BY <1>2, <2>3, <2>4, <2>5
<1> QED
  BY <1>1, <1>2

-----------------------------------------------------------------------------
(* A script splits at the bytes of each parameter.                         *)

\* Concatenation, as the prover is to see it: by the two facts below.
s ++ t == s \o t

Records == [client : Seq(Int), initTimeout : Int, initNonce : Int]
Names == {"client", "initTimeout", "initNonce"}

Bytes(p, as) == ArgToBytes(p, as[p])

\* Arguments with bytes to be found for every parameter.
Patchable(as) ==
    /\ as \in Records
    /\ \A p \in Names : Bytes(p, as) \in Seq(Int) /\ Len(Bytes(p, as)) > 0

SameSizes(as, bs) == \A p \in Names : Len(Bytes(p, as)) = Len(Bytes(p, bs))

\* The code before and after the bytes of a parameter.
Before(p, as) ==
    LET fieldCode == FieldCode("initTimeout", as) ++ FieldCode("initNonce", as)
        allButNonce == (fieldCode ++ Push(as["client"])) ++ InlineCode("initTimeout", as)
        size == << Len(Bytes(p, as)) >>
    IN  CASE p = "client" -> fieldCode ++ size
          [] p = "initTimeout" /\ p \in fields -> size
          [] p = "initTimeout" /\ p \notin fields -> (fieldCode ++ Push(as["client"])) ++ size
          [] p = "initNonce" /\ p \in fields -> FieldCode("initTimeout", as) ++ size
          [] p = "initNonce" /\ p \notin fields -> allButNonce ++ size

After(p, as) ==
    LET inline == InlineCode("initTimeout", as) ++ (InlineCode("initNonce", as) ++ body)
        code == Push(as["client"]) ++ inline
    IN  CASE p = "client" -> inline
          [] p = "initTimeout" /\ p \in fields -> FieldCode("initNonce", as) ++ code
          [] p = "initTimeout" /\ p \notin fields -> InlineCode("initNonce", as) ++ body
          [] p = "initNonce" /\ p \in fields -> code
          [] p = "initNonce" /\ p \notin fields -> body

Empty == << >>

LEMMA EmptySequence == Empty \in Seq(Int) /\ Len(Empty) = 0
  BY DEF Empty

LEMMA BytesOf ==
    ASSUME NEW as, fields \subseteq IntParams
    PROVE  /\ Bytes("client", as) = as["client"]
           /\ \A p \in IntParams :
                Bytes(p, as) = IF p \in fields THEN EncodeFixedInt(as[p], Width)
                               ELSE EncodeScriptInt(as[p])
<1>1. Bytes("client", as) = as["client"]
  <2>1. "client" \notin fields
    BY DEF IntParams
  <2> QED
    BY <2>1 DEF Bytes, ArgToBytes
<1>2. ASSUME NEW p \in IntParams
      PROVE  Bytes(p, as) = IF p \in fields THEN EncodeFixedInt(as[p], Width)
                            ELSE EncodeScriptInt(as[p])
  <2>1. p # "client"
    BY DEF IntParams
  <2> QED
    BY <2>1 DEF Bytes, ArgToBytes
<1> QED
  BY <1>1, <1>2

LEMMA Joins ==
    \A s, t \in Seq(Int) : s ++ t \in Seq(Int) /\ Len(s ++ t) = Len(s) + Len(t)
  BY ConcatProperties DEF ++

LEMMA JoinsAt ==
    \A s, t \in Seq(Int) : \A i \in 1 .. Len(s) + Len(t) :
        (s ++ t)[i] = IF i <= Len(s) THEN s[i] ELSE t[i - Len(s)]
  BY ConcatProperties DEF ++

LEMMA Regroups ==
    \A s, t, u \in Seq(Int) : (s ++ t) ++ u = s ++ (t ++ u)
  BY ConcatAssociative DEF ++

LEMMA PushTyped ==
    \A bytes \in Seq(Int) :
        /\ Push(bytes) \in Seq(Int) /\ << Len(bytes) >> \in Seq(Int)
        /\ Push(bytes) = << Len(bytes) >> ++ bytes
        /\ Len(Push(bytes)) = Len(bytes) + 1 /\ Len(<< Len(bytes) >>) = 1
<1> TAKE bytes \in Seq(Int)
<1>1. << Len(bytes) >> \in Seq(Int) /\ Len(<< Len(bytes) >>) = 1
  OBVIOUS
<1> HIDE DEF Push
<1> QED
  BY <1>1, Joins DEF Push, ++

\* The code of an integer parameter: in front, or inline, behind its length.
LEMMA CodeOf ==
    ASSUME NEW as, Patchable(as), fields \subseteq IntParams, NEW p \in IntParams
    PROVE  /\ FieldCode(p, as) = IF p \in fields THEN Push(Bytes(p, as)) ELSE Empty
           /\ InlineCode(p, as) = IF p \in fields THEN Empty ELSE Push(Bytes(p, as))
           /\ FieldCode(p, as) \in Seq(Int) /\ InlineCode(p, as) \in Seq(Int)
           /\ Len(FieldCode(p, as)) = IF p \in fields THEN Len(Bytes(p, as)) + 1 ELSE 0
           /\ Len(InlineCode(p, as)) = IF p \in fields THEN 0 ELSE Len(Bytes(p, as)) + 1
<1>1. p \in Names /\ as[p] \in Int
  BY DEF Patchable, Records, IntParams, Names
<1>2. Bytes(p, as) \in Seq(Int) /\ Len(Bytes(p, as)) > 0
  BY <1>1 DEF Patchable
<1>3. /\ p \in fields => FieldCode(p, as) = Push(Bytes(p, as))
      /\ p \notin fields => FieldCode(p, as) = Empty
  BY BytesOf DEF FieldCode, Empty
<1>4. p \in fields => InlineCode(p, as) = Empty
  BY DEF InlineCode, Empty
<1>5. p \notin fields => InlineCode(p, as) = Push(Bytes(p, as))
  <2> SUFFICES ASSUME p \notin fields
               PROVE  InlineCode(p, as) = Push(Bytes(p, as))
    OBVIOUS
  <2>1. Bytes(p, as) = EncodeScriptInt(as[p])
    BY BytesOf
  <2>2. as[p] \notin -1 .. SmallMax
    <3>1. SUFFICES ASSUME as[p] \in -1 .. SmallMax
                   PROVE  FALSE
      OBVIOUS
    <3>2. Bytes(p, as) = Empty
      BY <1>1, <2>1, <3>1, ScriptIntTyped DEF Empty
    <3> QED
      BY <1>2, <3>2, EmptySequence
  <2> QED
    BY <2>1, <2>2 DEF InlineCode, Empty
<1>6. /\ Push(Bytes(p, as)) \in Seq(Int)
      /\ Len(Push(Bytes(p, as))) = Len(Bytes(p, as)) + 1
  BY <1>2, PushTyped
<1>7. CASE p \in fields
  <2>1. FieldCode(p, as) = Push(Bytes(p, as)) /\ InlineCode(p, as) = Empty
    BY <1>3, <1>4, <1>7
  <2> QED
    BY <1>6, <1>7, <2>1, EmptySequence
<1>8. CASE p \notin fields
  <2>1. FieldCode(p, as) = Empty /\ InlineCode(p, as) = Push(Bytes(p, as))
    BY <1>3, <1>5, <1>8
  <2> QED
    BY <1>6, <1>8, <2>1, EmptySequence
<1> QED
  BY <1>7, <1>8

LEMMA ClientCode ==
    ASSUME NEW as, Patchable(as), fields \subseteq IntParams
    PROVE  /\ Push(as["client"]) \in Seq(Int)
           /\ Push(as["client"]) = << Len(Bytes("client", as)) >> ++ Bytes("client", as)
           /\ Len(Push(as["client"])) = Len(Bytes("client", as)) + 1
<1>1. Bytes("client", as) \in Seq(Int)
  BY DEF Patchable, Names
<1> QED
  BY <1>1, BytesOf, PushTyped

\* Six pieces, cut at the third, the first, the second, the fourth and the fifth.
Regrouped(a, b, c, d, e, f) ==
    LET whole == ((((a ++ b) ++ c) ++ d) ++ e) ++ f
    IN  /\ whole = a ++ (b ++ (c ++ (d ++ (e ++ f))))
        /\ whole = (a ++ b) ++ (c ++ (d ++ (e ++ f)))
        /\ whole = ((a ++ b) ++ c) ++ (d ++ (e ++ f))
        /\ whole = (((a ++ b) ++ c) ++ d) ++ (e ++ f)
        /\ a ++ b \in Seq(Int) /\ (a ++ b) ++ c \in Seq(Int)
        /\ ((a ++ b) ++ c) ++ d \in Seq(Int)
        /\ c ++ (d ++ (e ++ f)) \in Seq(Int)
        /\ b ++ (c ++ (d ++ (e ++ f))) \in Seq(Int)
        /\ d ++ (e ++ f) \in Seq(Int) /\ e ++ f \in Seq(Int)

LEMMA SixPieces ==
    ASSUME NEW a \in Seq(Int), NEW b \in Seq(Int), NEW c \in Seq(Int),
           NEW d \in Seq(Int), NEW e \in Seq(Int), NEW f \in Seq(Int)
    PROVE  Regrouped(a, b, c, d, e, f)
<1> DEFINE ab == a ++ b
           abc == ab ++ c
           abcd == abc ++ d
           ef == e ++ f
           def == d ++ ef
           cdef == c ++ def
           bcdef == b ++ cdef
<1>1. ab \in Seq(Int) /\ ef \in Seq(Int)
  BY Joins
<1>2. abc \in Seq(Int) /\ def \in Seq(Int)
  <2> HIDE DEF ab, ef
  <2> QED
    BY <1>1, Joins
<1>3. abcd \in Seq(Int) /\ cdef \in Seq(Int)
  <2> HIDE DEF abc, def
  <2> QED
    BY <1>2, Joins
<1>4. bcdef \in Seq(Int)
  <2> HIDE DEF cdef
  <2> QED
    BY <1>3, Joins
<1>5. (abcd ++ e) ++ f = abcd ++ ef
  <2> HIDE DEF abcd
  <2> QED
    BY <1>3, Regroups
<1>6. abcd ++ ef = abc ++ def
  <2> HIDE DEF abc, ef
  <2> QED
    BY <1>1, <1>2, Regroups
<1>7. abc ++ def = ab ++ cdef
  <2> HIDE DEF ab, def
  <2> QED
    BY <1>1, <1>2, Regroups
<1>8. ab ++ cdef = a ++ bcdef
  <2> HIDE DEF cdef
  <2> QED
    BY <1>3, Regroups
<1> QED
  BY <1>1, <1>2, <1>3, <1>4, <1>5, <1>6, <1>7, <1>8, Zenon DEF Regrouped

\* A piece behind its length, between what comes before and after.
LEMMA CutOut ==
    ASSUME NEW before \in Seq(Int), NEW size \in Seq(Int), NEW bytes \in Seq(Int),
           NEW after \in Seq(Int)
    PROVE  /\ before ++ ((size ++ bytes) ++ after) = (before ++ size) ++ (bytes ++ after)
           /\ (size ++ bytes) ++ after = size ++ (bytes ++ after)
           /\ (before ++ (size ++ bytes)) ++ after = (before ++ size) ++ (bytes ++ after)
           /\ before ++ size \in Seq(Int)
<1>1. before ++ size \in Seq(Int) /\ bytes ++ after \in Seq(Int) /\ size ++ bytes \in Seq(Int)
  BY Joins
<1>2. (size ++ bytes) ++ after = size ++ (bytes ++ after)
  BY Regroups
<1>3. before ++ (size ++ (bytes ++ after)) = (before ++ size) ++ (bytes ++ after)
  BY <1>1, Regroups
<1>4. (before ++ (size ++ bytes)) ++ after = before ++ ((size ++ bytes) ++ after)
  BY <1>1, Regroups
<1> QED
  BY <1>1, <1>2, <1>3, <1>4

LEMMA Splits ==
    ASSUME NEW as, Patchable(as), fields \subseteq IntParams, body \in Seq(Int),
           NEW p \in Names
    PROVE  /\ Compile(as) = Before(p, as) ++ (Bytes(p, as) ++ After(p, as))
           /\ Before(p, as) \in Seq(Int) /\ After(p, as) \in Seq(Int)
<1> DEFINE t == "initTimeout"
           n == "initNonce"
           bytes == Bytes(p, as)
           size == << Len(bytes) >>
           a == FieldCode(t, as)
           b == FieldCode(n, as)
           c == Push(as["client"])
           d == InlineCode(t, as)
           e == InlineCode(n, as)
<1>1. t \in IntParams /\ n \in IntParams
  BY DEF IntParams
<1>2. a \in Seq(Int) /\ b \in Seq(Int) /\ d \in Seq(Int) /\ e \in Seq(Int)
  BY <1>1, CodeOf
<1>3. c \in Seq(Int) /\ (p = "client" => c = size ++ bytes)
  BY ClientCode
<1>4. /\ p = t /\ t \in fields => a = size ++ bytes
      /\ p = t /\ t \notin fields => d = size ++ bytes
      /\ p = n /\ n \in fields => b = size ++ bytes
      /\ p = n /\ n \notin fields => e = size ++ bytes
  <2>1. bytes \in Seq(Int)
    BY DEF Patchable
  <2>2. Push(bytes) = size ++ bytes
    <3> HIDE DEF bytes
    <3> QED
      BY <2>1, PushTyped
  <2> QED
    BY <1>1, <2>2, CodeOf
<1>5. bytes \in Seq(Int) /\ size \in Seq(Int)
  <2>1. bytes \in Seq(Int)
    BY DEF Patchable
  <2> HIDE DEF bytes
  <2> QED
    BY <2>1, PushTyped
<1>6. Compile(as) = ((((a ++ b) ++ c) ++ d) ++ e) ++ body
  BY Zenon DEF Compile, ++
<1> DEFINE whole == ((((a ++ b) ++ c) ++ d) ++ e) ++ body
           Cut == /\ whole = Before(p, as) ++ (bytes ++ After(p, as))
                  /\ Before(p, as) \in Seq(Int) /\ After(p, as) \in Seq(Int)
<1> HIDE DEF a, b, c, d, e, bytes, size
<1>12. /\ whole = a ++ (b ++ (c ++ (d ++ (e ++ body))))
       /\ whole = (a ++ b) ++ (c ++ (d ++ (e ++ body)))
       /\ whole = ((a ++ b) ++ c) ++ (d ++ (e ++ body))
       /\ whole = (((a ++ b) ++ c) ++ d) ++ (e ++ body)
       /\ a ++ b \in Seq(Int) /\ (a ++ b) ++ c \in Seq(Int)
       /\ ((a ++ b) ++ c) ++ d \in Seq(Int)
       /\ c ++ (d ++ (e ++ body)) \in Seq(Int)
       /\ b ++ (c ++ (d ++ (e ++ body))) \in Seq(Int)
       /\ d ++ (e ++ body) \in Seq(Int) /\ e ++ body \in Seq(Int)
  <2>1. Regrouped(a, b, c, d, e, body)
    BY <1>2, <1>3, SixPieces
  <2> QED
    BY <2>1 DEF Regrouped
<1>7. ASSUME p = "client"
      PROVE  Cut
  <2>1. /\ Before(p, as) = (a ++ b) ++ size
        /\ After(p, as) = d ++ (e ++ body)
    BY <1>7 DEF Before, After, a, b, d, e, size, bytes
  <2>2. /\ whole = ((a ++ b) ++ (size ++ bytes)) ++ (d ++ (e ++ body))
        /\ a ++ b \in Seq(Int) /\ d ++ (e ++ body) \in Seq(Int)
    BY <1>3, <1>4, <1>12, <1>7
  <2> HIDE DEF whole
  <2> QED
    BY <1>5, <2>1, <2>2, CutOut
<1>8. ASSUME p = t /\ t \in fields
      PROVE  Cut
  <2>1. /\ Before(p, as) = size
        /\ After(p, as) = b ++ (c ++ (d ++ (e ++ body)))
    BY <1>8 DEF Before, After, b, c, d, e, size, bytes
  <2>2. /\ whole = (size ++ bytes) ++ (b ++ (c ++ (d ++ (e ++ body))))
        /\ b ++ (c ++ (d ++ (e ++ body))) \in Seq(Int)
    BY <1>3, <1>4, <1>12, <1>8
  <2> HIDE DEF whole
  <2> QED
    BY <1>5, <2>1, <2>2, CutOut
<1>9. ASSUME p = t /\ t \notin fields
      PROVE  Cut
  <2>1. /\ Before(p, as) = ((a ++ b) ++ c) ++ size
        /\ After(p, as) = e ++ body
    BY <1>9 DEF Before, After, a, b, c, e, size, bytes
  <2>2. /\ whole = (((a ++ b) ++ c) ++ (size ++ bytes)) ++ (e ++ body)
        /\ (a ++ b) ++ c \in Seq(Int) /\ e ++ body \in Seq(Int)
    BY <1>3, <1>4, <1>12, <1>9
  <2> HIDE DEF whole
  <2> QED
    BY <1>5, <2>1, <2>2, CutOut
<1>10. ASSUME p = n /\ n \in fields
      PROVE  Cut
  <2>1. /\ Before(p, as) = a ++ size
        /\ After(p, as) = c ++ (d ++ (e ++ body))
    BY <1>10 DEF Before, After, a, c, d, e, size, bytes
  <2>2. /\ whole = (a ++ (size ++ bytes)) ++ (c ++ (d ++ (e ++ body)))
        /\ c ++ (d ++ (e ++ body)) \in Seq(Int)
    BY <1>3, <1>4, <1>12, <1>10
  <2> HIDE DEF whole
  <2> QED
    BY <1>2, <1>5, <2>1, <2>2, CutOut
<1>11. ASSUME p = n /\ n \notin fields
      PROVE  Cut
  <2>1. /\ Before(p, as) = (((a ++ b) ++ c) ++ d) ++ size
        /\ After(p, as) = body
    BY <1>11 DEF Before, After, a, b, c, d, size, bytes
  <2>2. /\ whole = ((((a ++ b) ++ c) ++ d) ++ (size ++ bytes)) ++ body
        /\ ((a ++ b) ++ c) ++ d \in Seq(Int)
    BY <1>3, <1>4, <1>12, <1>11
  <2> HIDE DEF whole
  <2> QED
    BY <1>5, <2>1, <2>2, CutOut
<1> QED
  <2>1. p \in Names
    OBVIOUS
  <2>2. Cut
    <3> HIDE DEF Cut
    <3> QED
      BY <1>7, <1>8, <1>9, <1>10, <1>11 DEF Names
  <2> QED
    BY <1>6, <2>2 DEF bytes

\* What is around a parameter does not depend on it.
LEMMA SurroundingsKept ==
    ASSUME NEW as, Patchable(as), NEW bs, Patchable(bs), fields \subseteq IntParams,
           NEW p \in Names, \A q \in Names : q # p => as[q] = bs[q],
           Len(Bytes(p, as)) = Len(Bytes(p, bs))
    PROVE  Before(p, as) = Before(p, bs) /\ After(p, as) = After(p, bs)
<1>1. \A q \in IntParams : q # p =>
         FieldCode(q, as) = FieldCode(q, bs) /\ InlineCode(q, as) = InlineCode(q, bs)
  <2> TAKE q \in IntParams
  <2>1. q \in Names
    BY DEF Names, IntParams
  <2>2. q # p => as[q] = bs[q]
    BY <2>1
  <2> QED
    BY <2>2 DEF FieldCode, InlineCode
<1>2. p # "client" => Push(as["client"]) = Push(bs["client"])
  BY DEF Names
<1>3. p \in IntParams => /\ p \in fields => InlineCode(p, as) = InlineCode(p, bs)
                         /\ p \notin fields => FieldCode(p, as) = FieldCode(p, bs)
  BY CodeOf
<1>4. CASE p = "client"
  BY <1>1, <1>4 DEF Before, After, IntParams
<1>5. CASE p = "initTimeout"
  BY <1>1, <1>2, <1>3, <1>5 DEF Before, After, IntParams
<1>6. CASE p = "initNonce"
  BY <1>1, <1>2, <1>3, <1>6 DEF Before, After, IntParams
<1> QED
  BY <1>4, <1>5, <1>6 DEF Names

\* Where a parameter is depends on the sizes only.
LEMMA SameStart ==
    ASSUME NEW as, Patchable(as), NEW bs, Patchable(bs), SameSizes(as, bs),
           fields \subseteq IntParams, NEW p \in Names
    PROVE  Len(Before(p, as)) = Len(Before(p, bs))
<1> DEFINE t == "initTimeout"
           n == "initNonce"
           sizeOf(xs) == << Len(Bytes(p, xs)) >>
           a(xs) == FieldCode(t, xs)
           b(xs) == FieldCode(n, xs)
           c(xs) == Push(xs["client"])
           d(xs) == InlineCode(t, xs)
           Sizes(xs) ==
             /\ Len(a(xs) ++ sizeOf(xs)) = Len(a(xs)) + 1
             /\ Len((a(xs) ++ b(xs)) ++ sizeOf(xs)) = Len(a(xs)) + Len(b(xs)) + 1
             /\ Len(((a(xs) ++ b(xs)) ++ c(xs)) ++ sizeOf(xs))
                  = Len(a(xs)) + Len(b(xs)) + Len(c(xs)) + 1
             /\ Len((((a(xs) ++ b(xs)) ++ c(xs)) ++ d(xs)) ++ sizeOf(xs))
                  = Len(a(xs)) + Len(b(xs)) + Len(c(xs)) + Len(d(xs)) + 1
             /\ Len(sizeOf(xs)) = 1
<1>1. t \in IntParams /\ n \in IntParams /\ t \in Names /\ n \in Names /\ "client" \in Names
  BY DEF IntParams, Names
<1>2. ASSUME NEW xs, Patchable(xs)
      PROVE  Sizes(xs)
  <2>1. a(xs) \in Seq(Int) /\ b(xs) \in Seq(Int) /\ d(xs) \in Seq(Int)
    BY <1>1, <1>2, CodeOf
  <2>2. c(xs) \in Seq(Int)
    BY <1>2, ClientCode
  <2>3. sizeOf(xs) \in Seq(Int) /\ Len(sizeOf(xs)) = 1
    BY <1>2, PushTyped DEF Patchable
  <2> HIDE DEF a, b, c, d, sizeOf
  <2>4. a(xs) ++ b(xs) \in Seq(Int) /\ Len(a(xs) ++ b(xs)) = Len(a(xs)) + Len(b(xs))
    BY <2>1, Joins
  <2>5. /\ (a(xs) ++ b(xs)) ++ c(xs) \in Seq(Int)
        /\ Len((a(xs) ++ b(xs)) ++ c(xs)) = Len(a(xs)) + Len(b(xs)) + Len(c(xs))
    BY <2>2, <2>4, Joins
  <2>6. /\ ((a(xs) ++ b(xs)) ++ c(xs)) ++ d(xs) \in Seq(Int)
        /\ Len(((a(xs) ++ b(xs)) ++ c(xs)) ++ d(xs))
             = Len(a(xs)) + Len(b(xs)) + Len(c(xs)) + Len(d(xs))
    BY <2>1, <2>5, Joins
  <2>7. /\ Len(a(xs) ++ sizeOf(xs)) = Len(a(xs)) + Len(sizeOf(xs))
        /\ Len((a(xs) ++ b(xs)) ++ sizeOf(xs)) = Len(a(xs) ++ b(xs)) + Len(sizeOf(xs))
        /\ Len(((a(xs) ++ b(xs)) ++ c(xs)) ++ sizeOf(xs))
             = Len((a(xs) ++ b(xs)) ++ c(xs)) + Len(sizeOf(xs))
        /\ Len((((a(xs) ++ b(xs)) ++ c(xs)) ++ d(xs)) ++ sizeOf(xs))
             = Len(((a(xs) ++ b(xs)) ++ c(xs)) ++ d(xs)) + Len(sizeOf(xs))
    BY <2>1, <2>3, <2>4, <2>5, <2>6, Joins
  <2> QED
    BY <2>3, <2>4, <2>5, <2>6, <2>7
<1>3. /\ Len(a(as)) = Len(a(bs)) /\ Len(b(as)) = Len(b(bs))
      /\ Len(c(as)) = Len(c(bs)) /\ Len(d(as)) = Len(d(bs))
  BY <1>1, CodeOf, ClientCode DEF SameSizes
<1>4. Sizes(as) /\ Sizes(bs)
  BY <1>2
<1>5. ASSUME NEW xs
      PROVE  Before(p, xs) =
               IF p = "client" THEN (a(xs) ++ b(xs)) ++ sizeOf(xs)
               ELSE IF p = t THEN IF t \in fields THEN sizeOf(xs)
                                  ELSE ((a(xs) ++ b(xs)) ++ c(xs)) ++ sizeOf(xs)
               ELSE IF n \in fields THEN a(xs) ++ sizeOf(xs)
                    ELSE (((a(xs) ++ b(xs)) ++ c(xs)) ++ d(xs)) ++ sizeOf(xs)
  <2> HIDE DEF a, b, c, d, sizeOf
  <2>1. CASE p = "client"
    BY <2>1 DEF Before, a, b, c, d, sizeOf
  <2>2. CASE p = t
    BY <2>2 DEF Before, a, b, c, d, sizeOf
  <2>3. CASE p = n
    BY <2>3 DEF Before, a, b, c, d, sizeOf
  <2> QED
    BY <2>1, <2>2, <2>3 DEF Names
<1> HIDE DEF a, b, c, d, sizeOf
<1>7. CASE p = "client"
  BY <1>3, <1>4, <1>5, <1>7
<1>8. CASE p = t
  BY <1>3, <1>4, <1>5, <1>8
<1>9. CASE p = n
  BY <1>3, <1>4, <1>5, <1>9
<1> QED
  BY <1>7, <1>8, <1>9 DEF Names

Placed(s, before, bytes, after) ==
    /\ s \in Seq(Int)
    /\ Len(s) = Len(before) + Len(bytes) + Len(after)
    /\ \A i \in 1 .. Len(s) :
         s[i] = IF i <= Len(before) THEN before[i]
                ELSE IF i <= Len(before) + Len(bytes) THEN bytes[i - Len(before)]
                ELSE after[i - Len(before) - Len(bytes)]

LEMMA PlacedBytes ==
    ASSUME NEW before \in Seq(Int), NEW bytes \in Seq(Int), NEW after \in Seq(Int)
    PROVE  Placed(before ++ (bytes ++ after), before, bytes, after)
<1> DEFINE r == bytes ++ after
<1>1. /\ r \in Seq(Int) /\ Len(r) = Len(bytes) + Len(after)
      /\ \A i \in 1 .. Len(r) : r[i] = IF i <= Len(bytes) THEN bytes[i] ELSE after[i - Len(bytes)]
  BY Joins, JoinsAt
<1> HIDE DEF r
<1>2. /\ before ++ r \in Seq(Int) /\ Len(before ++ r) = Len(before) + Len(r)
      /\ \A i \in 1 .. Len(before ++ r) :
           (before ++ r)[i] = IF i <= Len(before) THEN before[i] ELSE r[i - Len(before)]
  BY <1>1, Joins, JoinsAt
<1>3. Len(before) \in Nat /\ Len(bytes) \in Nat /\ Len(after) \in Nat
  OBVIOUS
<1>4. ASSUME NEW i \in 1 .. Len(before ++ r)
      PROVE  (before ++ r)[i] =
               IF i <= Len(before) THEN before[i]
               ELSE IF i <= Len(before) + Len(bytes) THEN bytes[i - Len(before)]
               ELSE after[i - Len(before) - Len(bytes)]
  <2>1. i \in Int /\ 1 <= i /\ i <= Len(before) + Len(bytes) + Len(after)
    BY <1>1, <1>2, <1>3
  <2>2. CASE i <= Len(before)
    BY <1>2, <2>2
  <2>3. CASE ~ (i <= Len(before))
    <3>1. (before ++ r)[i] = r[i - Len(before)]
      BY <1>2, <2>3
    <3>2. i - Len(before) \in 1 .. Len(r)
      BY <1>1, <1>3, <2>1, <2>3
    <3>3. r[i - Len(before)] = IF i - Len(before) <= Len(bytes) THEN bytes[i - Len(before)]
                               ELSE after[i - Len(before) - Len(bytes)]
      BY <1>1, <3>2
    <3>4. i - Len(before) <= Len(bytes) <=> i <= Len(before) + Len(bytes)
      BY <1>3, <2>1
    <3> QED
      BY <2>3, <3>1, <3>3, <3>4
  <2> QED
    BY <2>2, <2>3
<1> QED
  <2>1. Placed(before ++ r, before, bytes, after)
    BY <1>1, <1>2, <1>3, <1>4 DEF Placed
  <2> QED
    BY <2>1 DEF r

LEMMA SameSequence ==
    ASSUME NEW s \in Seq(Int), NEW t \in Seq(Int), Len(s) = Len(t),
           \A i \in 1 .. Len(s) : s[i] = t[i]
    PROVE  s = t
<1>1. s = [i \in 1 .. Len(s) |-> s[i]] /\ t = [i \in 1 .. Len(t) |-> t[i]]
  OBVIOUS
<1>2. [i \in 1 .. Len(s) |-> s[i]] = [i \in 1 .. Len(t) |-> t[i]]
  OBVIOUS
<1> QED
  BY <1>1, <1>2

\* The piece in the middle.
LEMMA PieceOf ==
    ASSUME NEW s, NEW before \in Seq(Int), NEW bytes \in Seq(Int), NEW after \in Seq(Int),
           Placed(s, before, bytes, after)
    PROVE  SubSeq(s, Len(before) + 1, Len(before) + Len(bytes)) = bytes
<1> DEFINE m == Len(before)
           n == Len(bytes)
           u == SubSeq(s, m + 1, m + n)
<1>1. m \in Nat /\ n \in Nat /\ Len(after) \in Nat
  OBVIOUS
<1>2. \A i \in 1 .. n : bytes[i] \in Int
  OBVIOUS
<1>3. /\ s \in Seq(Int) /\ Len(s) = m + n + Len(after)
      /\ \A i \in 1 .. Len(s) :
           s[i] = IF i <= m THEN before[i]
                  ELSE IF i <= m + n THEN bytes[i - m] ELSE after[i - m - n]
  BY DEF Placed
<1> HIDE DEF m, n
<1>4. ASSUME NEW i \in m + 1 .. m + n
      PROVE  s[i] = bytes[i - m] /\ s[i] \in Int
  <2>1. i \in 1 .. Len(s) /\ ~ (i <= m) /\ i <= m + n /\ i - m \in 1 .. n
    BY <1>1, <1>3
  <2>2. s[i] = bytes[i - m]
    BY <1>3, <2>1
  <2> QED
    BY <1>2, <2>1, <2>2
<1>5. m + 1 \in Int /\ m + n \in Int /\ (m + n) - (m + 1) + 1 = n
  BY <1>1
<1>6. /\ u \in Seq(Int) /\ Len(u) = n
      /\ \A i \in 1 .. n : u[i] = s[m + 1 + i - 1]
  <2>1. /\ u \in Seq(Int)
        /\ Len(u) = IF m + 1 <= m + n THEN (m + n) - (m + 1) + 1 ELSE 0
        /\ \A i \in 1 .. (m + n) - (m + 1) + 1 : u[i] = s[(m + 1) + i - 1]
    BY <1>4, <1>5, SubSeqProperties
  <2> HIDE DEF u
  <2> QED
    BY <1>1, <1>5, <2>1
<1> HIDE DEF u
<1>7. \A i \in 1 .. n : u[i] = bytes[i]
  <2> TAKE i \in 1 .. n
  <2>1. m + i \in m + 1 .. m + n /\ (m + i) - m = i /\ m + 1 + i - 1 = m + i
    BY <1>1
  <2> QED
    BY <1>4, <1>6, <2>1
<1>8. u = bytes
  BY <1>6, <1>7, SameSequence DEF n
<1> QED
  BY <1>8 DEF u, m, n

\* Overwriting replaces a piece.
LEMMA Overwrites ==
    ASSUME NEW before \in Seq(Int), NEW old \in Seq(Int), NEW new \in Seq(Int),
           NEW after \in Seq(Int), Len(old) = Len(new)
    PROVE  Overwrite(before ++ (old ++ after), Len(before), old, new)
             = before ++ (new ++ after)
<1> DEFINE s == before ++ (old ++ after)
           t == before ++ (new ++ after)
<1>1. Placed(s, before, old, after) /\ Placed(t, before, new, after)
  BY PlacedBytes
<1>2. Len(before) \in Nat /\ Len(old) \in Nat /\ Len(after) \in Nat
  OBVIOUS
<1> HIDE DEF s, t
<1>3. SubSeq(s, Len(before) + 1, Len(before) + Len(old)) = old
  BY <1>1, PieceOf
<1>4. Overwrite(s, Len(before), old, new)
        = [i \in DOMAIN s |-> IF i - Len(before) \in 1 .. Len(new)
                              THEN new[i - Len(before)] ELSE s[i]]
  BY <1>3 DEF Overwrite
<1>5. DOMAIN s = DOMAIN t /\ t = [i \in DOMAIN t |-> t[i]] /\ DOMAIN s = 1 .. Len(s)
  BY <1>1 DEF Placed
<1>6. ASSUME NEW i \in DOMAIN s
      PROVE  t[i] = IF i - Len(before) \in 1 .. Len(new) THEN new[i - Len(before)] ELSE s[i]
  <2>1. i \in 1 .. Len(s) /\ i \in 1 .. Len(t)
    BY <1>1, <1>5 DEF Placed
  <2>2. i - Len(before) \in 1 .. Len(new) <=>
           ~ (i <= Len(before)) /\ i <= Len(before) + Len(new)
    BY <1>2, <2>1
  <2> QED
    BY <1>1, <2>1, <2>2 DEF Placed
<1>7. t = [i \in DOMAIN s |-> IF i - Len(before) \in 1 .. Len(new)
                              THEN new[i - Len(before)] ELSE s[i]]
  BY <1>5, <1>6
<1> QED
  BY <1>4, <1>7 DEF s, t

\* A piece is among its occurrences; if there is one, it is this.
LEMMA FoundOnce ==
    ASSUME NEW before \in Seq(Int), NEW bytes \in Seq(Int), NEW after \in Seq(Int),
           Len(bytes) > 0,
           Len(FindAllOccurrences(before ++ (bytes ++ after), bytes)) = 1
    PROVE  FindAllOccurrences(before ++ (bytes ++ after), bytes) = << Len(before) >>
<1> DEFINE s == before ++ (bytes ++ after)
           found == Occurrences(s, bytes)
           at(k) == CHOOSE offset \in found :
                      Cardinality({ other \in found : other < offset }) = k - 1
<1>1. Placed(s, before, bytes, after)
  BY PlacedBytes
<1>2. Len(before) \in Nat /\ Len(bytes) \in Nat /\ Len(after) \in Nat
  OBVIOUS
<1>3. bytes # << >>
  BY EmptySequence DEF Empty
<1>4. FindAllOccurrences(s, bytes) = [k \in 1 .. Cardinality(found) |-> at(k)]
  BY <1>3, Zenon DEF FindAllOccurrences
<1> HIDE DEF s
<1>5. SubSeq(s, Len(before) + 1, Len(before) + Len(bytes)) = bytes
  BY <1>1, PieceOf
<1>6. Len(before) \in found
  BY <1>1, <1>2, <1>5 DEF Occurrences, Placed
<1>7. IsFiniteSet(found) /\ \A offset \in found : offset \in Int
  <2>1. found \subseteq 0 .. Len(s) - Len(bytes)
    BY DEF Occurrences
  <2>2. Len(s) - Len(bytes) \in Int
    BY <1>1, <1>2 DEF Placed
  <2> QED
    <3>1. IsFiniteSet(0 .. Len(s) - Len(bytes))
      BY <2>2, FS_Interval
    <3> HIDE DEF found
    <3>2. IsFiniteSet(found)
      BY <2>1, <3>1, FS_Subset
    <3>3. \A offset \in found : offset \in 0 .. Len(s) - Len(bytes)
      BY <2>1
    <3> QED
      BY <2>2, <3>2, <3>3
<1> HIDE DEF found
<1>8. Cardinality(found) = 1
  <2>1. Cardinality(found) \in Nat
    BY <1>7, FS_CardinalityType
  <2>2. Len([k \in 1 .. Cardinality(found) |-> at(k)]) = Cardinality(found)
    BY <2>1
  <2> QED
    BY <1>4, <2>2 DEF s
<1>9. found = {Len(before)}
  BY <1>6, <1>7, <1>8, FS_Singleton
<1>10. at(1) = Len(before)
  <2>1. { other \in found : other < Len(before) } = {}
    BY <1>2, <1>9
  <2>2. Cardinality({}) = 0
    BY FS_EmptySet
  <2> QED
    <3>1. \A offset \in found : offset = Len(before)
      BY <1>9
    <3>2. Cardinality({ other \in found : other < Len(before) }) = 1 - 1
      <4>1. Cardinality({ other \in found : other < Len(before) }) = 0
        BY <2>1, <2>2, Zenon
      <4>2. 0 = 1 - 1
        OBVIOUS
      <4> QED
        BY <4>1, <4>2, Zenon
    <3>3. at(1) \in found
      BY <1>6, <3>2
    <3> HIDE DEF at
    <3> QED
      BY <3>1, <3>3
<1> HIDE DEF at
<1>11. [k \in 1 .. 1 |-> at(k)] = << Len(before) >>
  <2>1. [k \in 1 .. 1 |-> at(k)] = << at(1) >>
    OBVIOUS
  <2> QED
    BY <1>10, <2>1
<1> QED
  BY <1>4, <1>8, <1>11 DEF s

-----------------------------------------------------------------------------
(* The folds: one position of a parameter, three parameters.               *)

Written(acc, offset, old, new) ==
    IF acc = Failed THEN Failed ELSE Overwrite(acc, offset, old, new)

LEMMA MaxOfOne == \A x \in Int : Max({x}) = x
  BY DEF Max

\* The only occurrence of a placeholder is replaced, or the patcher throws.
Replaced(acc, offset, old, new) ==
    IF new = Failed THEN Failed
    ELSE IF Len(new) # Len(old) THEN Failed
    ELSE Written(acc, offset, old, new)

\* The placeholder of a patch occurs once, and the arguments ask for bytes.
Asks(patch, newArgs, offset, was, asked) ==
    /\ patch.positions = << offset >> /\ patch.placeholderBytes = was
    /\ asked = ArgToBytes(patch.name, newArgs[patch.name])

\* A parameter that occurs once is written once.
LEMMA ParamWritten ==
    ASSUME NEW bytes, NEW patch, NEW newArgs, NEW offset, NEW was, NEW asked,
           Asks(patch, newArgs, offset, was, asked)
    PROVE  ApplyParam(bytes, patch, newArgs) = Replaced(bytes, offset, was, asked)
<1> DEFINE old == patch.placeholderBytes
           new == ArgToBytes(patch.name, newArgs[patch.name])
           pos == patch.positions
           Iterates(iter) ==
              iter = [s \in SUBSET (DOMAIN pos) |->
                        IF s = {} THEN bytes
                        ELSE IF iter[s \ {Max(s)}] = Failed THEN Failed
                             ELSE Overwrite(iter[s \ {Max(s)}], pos[Max(s)], old, new)]
           fold == CHOOSE iter : Iterates(iter)
           G == [s \in SUBSET {1} |-> IF s = {} THEN bytes ELSE Written(bytes, offset, old, new)]
<1>1. ApplyParam(bytes, patch, newArgs) =
        IF new = Failed THEN Failed
        ELSE IF Len(new) # Len(old) THEN Failed
        ELSE fold[DOMAIN pos]
  BY Zenon DEF ApplyParam, FoldLeft, MapThenFoldSet
<1>2. DOMAIN pos = {1} /\ pos[1] = offset
  BY DEF Asks
<1>3. Max({1}) = 1
  BY MaxOfOne
<1> HIDE DEF old, new, pos
<1>4. ASSUME NEW g, Iterates(g)
      PROVE  g[{1}] = Written(bytes, offset, old, new)
  <2>1. {} \in SUBSET (DOMAIN pos) /\ {1} \in SUBSET (DOMAIN pos) /\ {1} \ {1} = {}
    BY <1>2
  <2>2. g[{}] = bytes
    BY <1>4, <2>1
  <2>3. g[{1}] = IF g[{}] = Failed THEN Failed ELSE Overwrite(g[{}], pos[1], old, new)
    BY <1>3, <1>4, <2>1
  <2> QED
    BY <1>2, <2>2, <2>3 DEF Written
<1>5. Iterates(G)
  <2>1. ASSUME NEW s \in SUBSET {1}, s # {}
        PROVE  s = {1} /\ s \ {Max(s)} = {}
    BY <1>3, <2>1
  <2>2. G[{}] = bytes
    OBVIOUS
  <2>3. ASSUME NEW s \in SUBSET {1}
        PROVE  G[s] = IF s = {} THEN bytes
                      ELSE IF G[s \ {Max(s)}] = Failed THEN Failed
                           ELSE Overwrite(G[s \ {Max(s)}], pos[Max(s)], old, new)
    <3>1. CASE s = {}
      BY <2>2, <3>1
    <3>2. CASE s # {}
      <4>1. s = {1} /\ s \ {Max(s)} = {} /\ Max(s) = 1
        BY <1>3, <2>1, <3>2
      <4>2. G[s] = Written(bytes, offset, old, new)
        BY <3>2
      <4> HIDE DEF G
      <4> QED
        BY <1>2, <2>2, <3>2, <4>1, <4>2 DEF Written
    <3> QED
      BY <3>1, <3>2
  <2>4. G = [s \in SUBSET {1} |-> G[s]]
    OBVIOUS
  <2> HIDE DEF G
  <2> QED
    BY <1>2, <2>3, <2>4
<1>6. Iterates(fold)
  <2> HIDE DEF Iterates, G
  <2>1. \E g : Iterates(g)
    BY <1>5
  <2> QED
    BY <2>1
<1>7. fold[{1}] = Written(bytes, offset, old, new)
  <2> HIDE DEF Iterates, fold
  <2> QED
    BY <1>4, <1>6
<1>8. old = was /\ new = asked
  BY DEF old, new, Asks
<1> HIDE DEF fold
<1> QED
  BY <1>1, <1>2, <1>7, <1>8 DEF Replaced

Stepped(acc, patch, newArgs) ==
    IF acc = Failed THEN Failed ELSE ApplyParam(acc, patch, newArgs)

\* What is left of three parameters when the last is taken.
Rest(s) == s \ {Max(s)}

LEMMA MaxOfThree ==
    /\ \A s \in SUBSET (1 .. 3) : s # {} => Max(s) \in s
    /\ Max({1}) = 1 /\ Max({1, 2}) = 2 /\ Max({1, 2, 3}) = 3
<1>1. ASSUME NEW s \in SUBSET (1 .. 3), s # {}
      PROVE  Max(s) \in s /\ \A y \in s : Max(s) >= y
  <2>1. \E x \in s : \A y \in s : x >= y
    <3>1. CASE 3 \in s
      BY <3>1
    <3>2. CASE 3 \notin s /\ 2 \in s
      BY <3>2
    <3>3. CASE 3 \notin s /\ 2 \notin s
      <4>1. \A y \in s : y = 1
        BY <3>3
      <4>2. 1 \in s
        BY <1>1, <4>1
      <4> QED
        BY <4>1, <4>2
    <3> QED
      BY <3>1, <3>2, <3>3
  <2> QED
    BY <2>1 DEF Max
<1>2. Max({1}) \in {1}
  BY <1>1
<1>3. Max({1, 2}) \in {1, 2} /\ Max({1, 2}) >= 2
  BY <1>1
<1>4. Max({1, 2, 3}) \in {1, 2, 3} /\ Max({1, 2, 3}) >= 3
  BY <1>1
<1> QED
  BY <1>1, <1>2, <1>3, <1>4

LEMMA ThreeLeaveNone ==
    ASSUME NEW s \in SUBSET (1 .. 3), s # {}, Rest(s) # {}, Rest(Rest(s)) # {}
    PROVE  Rest(Rest(Rest(s))) = {}
<1> DEFINE m1 == Max(s)
           m2 == Max(Rest(s))
           m3 == Max(Rest(Rest(s)))
<1>1. Rest(s) \in SUBSET (1 .. 3) /\ Rest(Rest(s)) \in SUBSET (1 .. 3)
  BY DEF Rest
<1>2. m1 \in s /\ m2 \in Rest(s) /\ m3 \in Rest(Rest(s))
  BY <1>1, MaxOfThree
<1> HIDE DEF m1, m2, m3
<1>3. /\ Rest(s) = s \ {m1} /\ Rest(Rest(s)) = Rest(s) \ {m2}
      /\ Rest(Rest(Rest(s))) = Rest(Rest(s)) \ {m3}
  BY DEF Rest, m1, m2, m3
<1>4. m1 \in 1 .. 3 /\ m2 \in 1 .. 3 /\ m3 \in 1 .. 3 /\ m1 # m2 /\ m1 # m3 /\ m2 # m3
  BY <1>2, <1>3
<1>5. ASSUME NEW x \in Rest(Rest(Rest(s)))
      PROVE  FALSE
  <2>1. x \in 1 .. 3 /\ x # m1 /\ x # m2 /\ x # m3
    BY <1>3
  <2> QED
    BY <1>4, <2>1
<1> QED
  BY <1>5

LEMMA PatchSteps ==
    ASSUME NEW compiled, NEW patches, DOMAIN patches = 1 .. 3, NEW newArgs
    PROVE  ApplyPatch(compiled, patches, newArgs) =
             Stepped(Stepped(Stepped(compiled, patches[1], newArgs),
                             patches[2], newArgs), patches[3], newArgs)
<1> DEFINE D == DOMAIN patches
           St(acc, k) == Stepped(acc, patches[k], newArgs)
           Iterates(iter) ==
              iter = [s \in SUBSET D |->
                        IF s = {} THEN compiled
                        ELSE IF iter[s \ {Max(s)}] = Failed THEN Failed
                             ELSE ApplyParam(iter[s \ {Max(s)}], patches[Max(s)], newArgs)]
           fold == CHOOSE iter : Iterates(iter)
           Next1(f) == [s \in SUBSET D |-> IF s = {} THEN compiled ELSE St(f[Rest(s)], Max(s))]
           f0 == [s \in SUBSET D |-> compiled]
           f1 == Next1(f0)
           f2 == Next1(f1)
           f3 == Next1(f2)
<1>1. ApplyPatch(compiled, patches, newArgs) = fold[D]
  BY Zenon DEF ApplyPatch, FoldLeft, MapThenFoldSet
<1>2. ASSUME NEW g
      PROVE  Iterates(g) <=> g = Next1(g)
  BY Zenon DEF Stepped, Rest
<1>3. ASSUME NEW s \in SUBSET D
      PROVE  Rest(s) \in SUBSET D /\ s \in SUBSET (1 .. 3)
  BY DEF Rest
<1>4. ASSUME NEW f, NEW s \in SUBSET D
      PROVE  Next1(f)[s] = IF s = {} THEN compiled ELSE St(f[Rest(s)], Max(s))
  OBVIOUS
<1> HIDE DEF D, Iterates, Next1, St
<1>5. f3 = Next1(f3)
  <2>1. \A s \in SUBSET D : f1[s] = IF s = {} THEN compiled ELSE St(f0[Rest(s)], Max(s))
    BY <1>4
  <2>2. \A s \in SUBSET D : f2[s] = IF s = {} THEN compiled ELSE St(f1[Rest(s)], Max(s))
    BY <1>4
  <2>3. \A s \in SUBSET D : f3[s] = IF s = {} THEN compiled ELSE St(f2[Rest(s)], Max(s))
    BY <1>4
  <2>4. \A s \in SUBSET D : f0[s] = compiled
    OBVIOUS
  <2> HIDE DEF f0, f1, f2, f3
  <2>5. ASSUME NEW s \in SUBSET D, s # {}
        PROVE  f3[Rest(s)] = f2[Rest(s)]
    <3> DEFINE t == Rest(s)
               u == Rest(t)
               v == Rest(u)
    <3>1. t \in SUBSET D /\ u \in SUBSET D /\ v \in SUBSET D
      BY <1>3
    <3>2. t = {} \/ u = {} \/ v = {}
      BY <1>3, <2>5, ThreeLeaveNone
    <3> HIDE DEF t, u, v
    <3>3. CASE t = {}
      BY <2>2, <2>3, <3>1, <3>3 DEF t
    <3>4. CASE t # {} /\ u = {}
      <4>1. f2[u] = f1[u]
        BY <2>1, <2>2, <3>1, <3>4
      <4> QED
        BY <2>2, <2>3, <3>1, <3>4, <4>1 DEF t, u
    <3>5. CASE t # {} /\ u # {} /\ v = {}
      <4>1. f1[v] = f0[v]
        BY <2>1, <2>4, <3>1, <3>5
      <4>2. f2[u] = f1[u]
        <5>1. f2[u] = St(f1[v], Max(u)) /\ f1[u] = St(f0[v], Max(u))
          BY <2>1, <2>2, <3>1, <3>5 DEF v
        <5> QED
          BY <4>1, <5>1
      <4>3. f3[t] = St(f2[u], Max(t)) /\ f2[t] = St(f1[u], Max(t))
        BY <2>2, <2>3, <3>1, <3>5 DEF u
      <4> QED
        BY <4>2, <4>3 DEF t
    <3> QED
      BY <3>2, <3>3, <3>4, <3>5
  <2>6. \A s \in SUBSET D : f3[s] = IF s = {} THEN compiled ELSE St(f3[Rest(s)], Max(s))
    BY <2>3, <2>5
  <2>7. f3 = [s \in SUBSET D |-> f3[s]]
    BY DEF f3, Next1
  <2> QED
    BY <2>6, <2>7 DEF Next1
<1>6. fold = Next1(fold)
  <2>1. Iterates(f3)
    BY <1>2, <1>5
  <2> HIDE DEF f3
  <2>2. Iterates(fold)
    BY <2>1
  <2> HIDE DEF fold
  <2> QED
    BY <1>2, <2>2
<1> HIDE DEF fold, f3
<1>7. ASSUME NEW s \in SUBSET D
      PROVE  fold[s] = IF s = {} THEN compiled ELSE St(fold[Rest(s)], Max(s))
  BY <1>4, <1>6
<1>8. /\ {} \in SUBSET D /\ {1} \in SUBSET D /\ {1, 2} \in SUBSET D
      /\ {1, 2, 3} \in SUBSET D /\ D = {1, 2, 3}
  BY DEF D
<1>9. Rest({1}) = {} /\ Rest({1, 2}) = {1} /\ Rest({1, 2, 3}) = {1, 2}
  BY MaxOfThree DEF Rest
<1>10. fold[{}] = compiled
  BY <1>7, <1>8
<1>11. fold[{1}] = St(compiled, 1)
  BY <1>7, <1>8, <1>9, <1>10, MaxOfThree
<1>12. fold[{1, 2}] = St(St(compiled, 1), 2)
  BY <1>7, <1>8, <1>9, <1>11, MaxOfThree
<1>13. fold[{1, 2, 3}] = St(St(St(compiled, 1), 2), 3)
  BY <1>7, <1>8, <1>9, <1>12, MaxOfThree
<1> QED
  BY <1>1, <1>8, <1>13 DEF St

-----------------------------------------------------------------------------
(* The descriptor of a template.                                           *)

\* What a channel asks for parameter p can be written over its placeholder.
Writable(p, as) ==
    /\ Bytes(p, as) \in Seq(Int)
    /\ Len(Bytes(p, as)) = Len(Bytes(p, placeholders))

\* What patching comes to when every placeholder occurs once.
Outcome(as) == IF \A p \in Names : Writable(p, as) THEN Compile(as) ELSE Failed

\* A template, its descriptor, and the last channel patched.
PatcherInv ==
    /\ fields \subseteq IntParams /\ body \in Bodies /\ placeholders \in Templates
    /\ template = Compile(placeholders)
    /\ descriptor = ExtractPatchDescriptor(template, placeholders)
    /\ descriptor # Failed
    /\ \/ args = placeholders /\ script = template
       \/ args \in CtorArgs /\ (Unambiguous => script = Outcome(args))

LEMMA RecordsAre ==
    /\ Templates \subseteq Records /\ CtorArgs \subseteq Records
    /\ \A key \in Keys, t \in Templates : Len(key) = Len(t.client)
    /\ Bodies \subseteq Seq(Int)
  BY PatcherAssumption DEF Records, CtorArgs

LEMMA ParamsAre ==
    /\ DOMAIN Params = 1 .. 3
    /\ Params[1] = "client" /\ Params[2] = "initTimeout" /\ Params[3] = "initNonce"
    /\ \A i \in 1 .. 3 : Params[i] \in Names
  BY DEF Params, Names

LEMMA DescriptorIs ==
    ASSUME PatcherInv
    PROVE  /\ DOMAIN descriptor = 1 .. 3
           /\ \A i \in 1 .. 3 :
                LET bytes == Bytes(Params[i], placeholders)
                IN  /\ bytes # << >>
                    /\ descriptor[i] = [name |-> Params[i], placeholderBytes |-> bytes,
                                        positions |-> FindAllOccurrences(template, bytes)]
<1> DEFINE entry(i) ==
             [name |-> Params[i], placeholderBytes |-> Bytes(Params[i], placeholders),
              positions |-> FindAllOccurrences(template, Bytes(Params[i], placeholders))]
<1>1. descriptor = IF \E i \in DOMAIN Params : entry(i).positions = << >>
                   THEN Failed ELSE [i \in DOMAIN Params |-> entry(i)]
  BY Zenon DEF PatcherInv, ExtractPatchDescriptor, Bytes
<1>2. descriptor # Failed
  BY DEF PatcherInv
<1> HIDE DEF entry
<1>3. /\ descriptor = [i \in 1 .. 3 |-> entry(i)]
      /\ \A i \in 1 .. 3 : entry(i).positions # << >>
  BY <1>1, <1>2, ParamsAre
<1>4. \A i \in 1 .. 3 : Bytes(Params[i], placeholders) # << >>
  <2> SUFFICES ASSUME NEW i \in 1 .. 3, Bytes(Params[i], placeholders) = << >>
               PROVE  entry(i).positions = << >>
    BY <1>3
  <2>1. \A needle : needle = << >> => FindAllOccurrences(template, needle) = << >>
    BY DEF FindAllOccurrences
  <2>2. entry(i).positions = FindAllOccurrences(template, Bytes(Params[i], placeholders))
    BY DEF entry
  <2> QED
    BY <2>1, <2>2
<1> QED
  BY <1>3, <1>4 DEF entry

LEMMA PlaceholdersPatchable ==
    ASSUME PatcherInv
    PROVE  Patchable(placeholders) /\ body \in Seq(Int) /\ fields \subseteq IntParams
<1>1. placeholders \in Records /\ body \in Seq(Int) /\ fields \subseteq IntParams
  BY RecordsAre DEF PatcherInv
<1>2. ASSUME NEW p \in Names
      PROVE  Bytes(p, placeholders) # << >> /\ Bytes(p, placeholders) \in Seq(Int)
  <2>1. Bytes(p, placeholders) # << >>
    <3>1. \E i \in 1 .. 3 : p = Params[i]
      BY ParamsAre DEF Names
    <3> QED
      BY <3>1, DescriptorIs
  <2>2. CASE p = "client"
    BY <1>1, <2>1, <2>2, BytesOf DEF Records
  <2>3. CASE p \in IntParams
    <3>1. placeholders[p] \in Int
      BY <1>1, <2>3 DEF Records, IntParams
    <3>2. AbsValue(placeholders[p]) < Power[Width]
      BY <2>3, TemplatesFit DEF PatcherInv
    <3>3. /\ EncodeScriptInt(placeholders[p]) \in Seq(Int)
          /\ EncodeFixedInt(placeholders[p], Width) \in Seq(Int)
      <4>1. ~ (AbsValue(placeholders[p]) >= Power[Width])
        BY <3>1, <3>2, AbsTyped, FixedIntTyped
      <4> QED
        BY <3>1, <4>1, ScriptIntTyped, FixedIntTyped
    <3> QED
      BY <1>1, <2>1, <2>3, <3>3, BytesOf
  <2> QED
    BY <2>2, <2>3 DEF Names, IntParams
<1>3. \A s \in Seq(Int) : s # << >> => Len(s) > 0
  OBVIOUS
<1> QED
  BY <1>1, <1>2, <1>3 DEF Patchable

-----------------------------------------------------------------------------
(* One parameter after the other is replaced.                              *)

\* The outcome of a step of applyPatch for the channel's arguments so far.
Replaces(i, result, bs) ==
    IF Writable(Params[i], bs)
    THEN result = Compile(bs) /\ Patchable(bs) /\ SameSizes(bs, placeholders)
    ELSE result = Failed

LEMMA BytesOrFailed ==
    ASSUME fields \subseteq IntParams, NEW as \in Records, NEW p \in Names
    PROVE  Bytes(p, as) = Failed \/ Bytes(p, as) \in Seq(Int)
<1>1. CASE p = "client"
  BY <1>1, BytesOf DEF Records
<1>2. CASE p \in IntParams
  <2>1. as[p] \in Int
    BY <1>2 DEF Records, IntParams
  <2>2. EncodeScriptInt(as[p]) \in Seq(Int)
    BY <2>1, ScriptIntTyped
  <2>3. \/ EncodeFixedInt(as[p], Width) \in Seq(Int)
        \/ EncodeFixedInt(as[p], Width) = Failed
    BY <2>1, FixedIntTyped
  <2> QED
    BY <1>2, <2>2, <2>3, BytesOf
<1> QED
  BY <1>1, <1>2 DEF Names, IntParams

\* A step of applyPatch turns the script compiled with some arguments into the
\* one compiled with the channel's value for the parameter, or throws.
LEMMA ParamReplaced ==
    ASSUME PatcherInv, Unambiguous, NEW i \in 1 .. 3,
           NEW as, Patchable(as), SameSizes(as, placeholders),
           as[Params[i]] = placeholders[Params[i]],
           NEW bs \in Records, NEW cs, bs[Params[i]] = cs[Params[i]],
           \A q \in Names : q # Params[i] => as[q] = bs[q]
    PROVE  Replaces(i, Stepped(Compile(as), descriptor[i], cs), bs)
<1> DEFINE p == Params[i]
           old == Bytes(p, placeholders)
           new == Bytes(p, bs)
           before == Before(p, as)
           after == After(p, as)
<1>1. p \in Names /\ fields \subseteq IntParams /\ body \in Seq(Int) /\ Patchable(placeholders)
  BY ParamsAre, PlaceholdersPatchable
<1>2. /\ Bytes(p, as) = old /\ new = ArgToBytes(p, cs[p])
      /\ old \in Seq(Int) /\ Len(old) > 0
  BY <1>1 DEF Bytes, Patchable
<1>3. Compile(as) = before ++ (old ++ after) /\ before \in Seq(Int) /\ after \in Seq(Int)
  BY <1>1, <1>2, Splits
<1>4. Compile(as) \in Seq(Int)
  BY <1>2, <1>3, Joins
<1>5. Compile(as) # Failed
  BY <1>4, PatcherAssumption
<1>6. /\ descriptor[i].name = p /\ descriptor[i].placeholderBytes = old
      /\ descriptor[i].positions = << Len(before) >>
  <2>1. /\ descriptor[i].name = p /\ descriptor[i].placeholderBytes = old
        /\ descriptor[i].positions = FindAllOccurrences(template, old)
    BY DescriptorIs
  <2>2. Len(FindAllOccurrences(template, old)) = 1
    BY <2>1, DescriptorIs DEF Unambiguous
  <2>3. /\ template = Before(p, placeholders) ++ (old ++ After(p, placeholders))
        /\ Before(p, placeholders) \in Seq(Int) /\ After(p, placeholders) \in Seq(Int)
    BY <1>1, Splits DEF PatcherInv
  <2>4. FindAllOccurrences(template, old) = << Len(Before(p, placeholders)) >>
    BY <1>2, <2>2, <2>3, FoundOnce
  <2>5. Len(Before(p, placeholders)) = Len(before)
    BY <1>1, SameStart
  <2> QED
    BY <2>1, <2>4, <2>5
<1>7. Stepped(Compile(as), descriptor[i], cs) =
        IF new = Failed \/ Len(new) # Len(old) THEN Failed
        ELSE Overwrite(Compile(as), Len(before), old, new)
  <2>1. ApplyParam(Compile(as), descriptor[i], cs)
          = Replaced(Compile(as), Len(before), old, new)
    <3> HIDE DEF before, old, new
    <3>1. new = ArgToBytes(descriptor[i].name, cs[descriptor[i].name])
      BY <1>2, <1>6
    <3> DEFINE d == descriptor[i]
               c == Compile(as)
               at == Len(before)
    <3>2. Asks(d, cs, at, old, new)
      BY <1>6, <3>1 DEF Asks
    <3> HIDE DEF d, c, at
    <3>3. ApplyParam(c, d, cs) = Replaced(c, at, old, new)
      BY <3>2, ParamWritten
    <3> QED
      BY <3>3 DEF d, c, at
  <2> QED
    BY <1>5, <2>1 DEF Stepped, Replaced, Written
<1>8. new = Failed \/ new \in Seq(Int)
  BY <1>1, BytesOrFailed
<1>9. CASE Writable(p, bs)
  <2>1. new \in Seq(Int) /\ Len(new) = Len(old) /\ new # Failed
    BY <1>9, PatcherAssumption DEF Writable
  <2>2. \A q \in Names : q # p => Bytes(q, bs) = Bytes(q, as)
    BY DEF Bytes
  <2>3. Patchable(bs) /\ SameSizes(bs, placeholders)
    BY <1>2, <2>1, <2>2 DEF Patchable, SameSizes
  <2>4. Before(p, bs) = before /\ After(p, bs) = after
    BY <1>1, <1>2, <2>1, <2>3, SurroundingsKept
  <2>5. Compile(bs) = before ++ (new ++ after)
    BY <1>1, <2>3, <2>4, Splits
  <2> HIDE DEF before, after, old, new
  <2>6. Overwrite(Compile(as), Len(before), old, new) = before ++ (new ++ after)
    BY <1>2, <1>3, <2>1, Overwrites
  <2>7. Stepped(Compile(as), descriptor[i], cs) = Compile(bs)
    BY <1>7, <2>1, <2>5, <2>6
  <2> QED
    BY <1>9, <2>3, <2>7 DEF Replaces
<1>10. CASE ~ Writable(p, bs)
  <2>1. new = Failed \/ Len(new) # Len(old)
    BY <1>8, <1>10 DEF Writable
  <2> HIDE DEF before, after, old, new
  <2> QED
    BY <1>7, <1>10, <2>1 DEF Replaces
<1> QED
  BY <1>9, <1>10

LEMMA CompiledTyped ==
    ASSUME NEW as, Patchable(as), fields \subseteq IntParams, body \in Seq(Int)
    PROVE  Compile(as) \in Seq(Int)
<1>1. "client" \in Names
  BY DEF Names
<1>2. /\ Compile(as) = Before("client", as) ++ (Bytes("client", as) ++ After("client", as))
      /\ Before("client", as) \in Seq(Int) /\ After("client", as) \in Seq(Int)
      /\ Bytes("client", as) \in Seq(Int)
  BY <1>1, Splits DEF Patchable
<1> QED
  BY <1>2, Joins

\* applyPatch compiles the template with the channel's arguments if all of them
\* can be written, and throws otherwise.
LEMMA PatchCompiles ==
    ASSUME PatcherInv, Unambiguous, NEW as \in Records
    PROVE  IF \A p \in Names : Writable(p, as)
           THEN /\ ApplyPatch(template, descriptor, as) = Compile(as)
                /\ Patchable(as) /\ Compile(as) \in Seq(Int)
           ELSE ApplyPatch(template, descriptor, as) = Failed
<1> DEFINE a0 == placeholders
           a1 == [client |-> as.client, initTimeout |-> a0.initTimeout,
                  initNonce |-> a0.initNonce]
           a2 == [client |-> as.client, initTimeout |-> as.initTimeout,
                  initNonce |-> a0.initNonce]
           s1 == Stepped(Compile(a0), descriptor[1], as)
           s2 == Stepped(s1, descriptor[2], as)
           s3 == Stepped(s2, descriptor[3], as)
<1>1. ApplyPatch(template, descriptor, as) = s3
  <2>1. DOMAIN descriptor = 1 .. 3
    BY DescriptorIs
  <2>2. template = Compile(a0)
    BY DEF PatcherInv
  <2> QED
    BY <2>1, <2>2, PatchSteps
<1>2. /\ Patchable(a0) /\ SameSizes(a0, placeholders) /\ template = Compile(a0)
      /\ a0 \in Records
  BY PlaceholdersPatchable DEF SameSizes, PatcherInv, Patchable
<1>3. a1 \in Records /\ a2 \in Records
  BY <1>2 DEF Records
<1>4. /\ a1["client"] = as["client"] /\ a2["client"] = as["client"]
      /\ a1["initTimeout"] = a0["initTimeout"] /\ a2["initTimeout"] = as["initTimeout"]
      /\ a1["initNonce"] = a0["initNonce"] /\ a2["initNonce"] = a0["initNonce"]
  OBVIOUS
<1> HIDE DEF a0, a1, a2
<1>5. /\ a1[Params[1]] = as[Params[1]] /\ a2[Params[2]] = as[Params[2]]
      /\ a1[Params[2]] = a0[Params[2]] /\ a2[Params[3]] = a0[Params[3]]
  BY <1>4, ParamsAre
<1>6. /\ \A q \in Names : q # Params[1] => a0[q] = a1[q]
      /\ \A q \in Names : q # Params[2] => a1[q] = a2[q]
      /\ \A q \in Names : q # Params[3] => a2[q] = as[q]
  BY <1>4, ParamsAre DEF Names
<1>7. /\ Writable(Params[1], a1) <=> Writable("client", as)
      /\ Writable(Params[2], a2) <=> Writable("initTimeout", as)
      /\ Writable(Params[3], as) <=> Writable("initNonce", as)
  BY <1>5, ParamsAre DEF Writable, Bytes
<1>8. \A i \in 1 .. 3 : a0[Params[i]] = placeholders[Params[i]]
  BY DEF a0
<1>9. Replaces(1, s1, a1)
  <2>1. 1 \in 1 .. 3
    OBVIOUS
  <2> QED
    BY <1>2, <1>3, <1>5, <1>6, <1>8, <2>1, ParamReplaced
<1>10. ASSUME Writable("client", as)
       PROVE  Replaces(2, s2, a2)
  <2>1. s1 = Compile(a1) /\ Patchable(a1) /\ SameSizes(a1, placeholders)
    BY <1>7, <1>9, <1>10 DEF Replaces
  <2>2. 2 \in 1 .. 3 /\ a1[Params[2]] = placeholders[Params[2]]
    BY <1>5, <1>8
  <2>3. s2 = Stepped(Compile(a1), descriptor[2], as)
    BY <2>1
  <2> HIDE DEF s1, s2
  <2> QED
    BY <1>3, <1>5, <1>6, <2>1, <2>2, <2>3, ParamReplaced
<1>11. ASSUME Writable("client", as), Writable("initTimeout", as)
       PROVE  Replaces(3, s3, as)
  <2>1. s2 = Compile(a2) /\ Patchable(a2) /\ SameSizes(a2, placeholders)
    BY <1>7, <1>10, <1>11 DEF Replaces
  <2>2. 3 \in 1 .. 3 /\ a2[Params[3]] = placeholders[Params[3]]
    BY <1>5, <1>8
  <2>3. s3 = Stepped(Compile(a2), descriptor[3], as)
    BY <2>1
  <2> HIDE DEF s2, s3
  <2> QED
    BY <1>3, <1>6, <2>1, <2>2, <2>3, ParamReplaced
<1>12. /\ s1 = Failed => s2 = Failed
       /\ s2 = Failed => s3 = Failed
  BY DEF Stepped
<1> HIDE DEF s1, s2, s3
<1>13. Patchable(as) => Compile(as) \in Seq(Int)
  BY PlaceholdersPatchable, CompiledTyped
<1>14. (\A p \in Names : Writable(p, as)) <=>
          Writable("client", as) /\ Writable("initTimeout", as) /\ Writable("initNonce", as)
  BY DEF Names
<1>15. CASE \A p \in Names : Writable(p, as)
  BY <1>1, <1>7, <1>11, <1>13, <1>14, <1>15 DEF Replaces
<1>16. CASE ~ Writable("client", as)
  BY <1>1, <1>7, <1>9, <1>12, <1>14, <1>16 DEF Replaces
<1>17. CASE Writable("client", as) /\ ~ Writable("initTimeout", as)
  BY <1>1, <1>7, <1>10, <1>12, <1>14, <1>17 DEF Replaces
<1>18. CASE Writable("client", as) /\ Writable("initTimeout", as) /\ ~ Writable("initNonce", as)
  BY <1>1, <1>7, <1>11, <1>14, <1>18 DEF Replaces
<1> QED
  BY <1>14, <1>15, <1>16, <1>17, <1>18

-----------------------------------------------------------------------------
(* The properties.                                                         *)

LEMMA PatcherInvHolds == Spec => []PatcherInv
<1>1. Init => PatcherInv
  BY DEF Init, PatcherInv
<1>2. PatcherInv /\ [Next]_vars => PatcherInv'
  <2> SUFFICES ASSUME PatcherInv, [Next]_vars
               PROVE  PatcherInv'
    OBVIOUS
  <2>1. CASE PatchChannelContract
    <3>1. UNCHANGED << fields, body, placeholders, template, descriptor >>
      BY <2>1 DEF PatchChannelContract
    <3>2. Compile(placeholders)' = Compile(placeholders)
      BY <3>1 DEF Compile, FieldCode, InlineCode
    <3>3. ExtractPatchDescriptor(template, placeholders)'
            = ExtractPatchDescriptor(template, placeholders)
      BY <3>1 DEF ExtractPatchDescriptor, ArgToBytes
    <3>4. CtorArgs' = CtorArgs /\ (Unambiguous' <=> Unambiguous)
      BY <3>1 DEF CtorArgs, Unambiguous
    <3>5. args' \in CtorArgs /\ script' = ApplyPatch(template, descriptor, args')
      BY <2>1 DEF PatchChannelContract
    <3>6. Unambiguous => script' = Outcome(args')
      <4>1. args' \in Records
        BY <3>5, RecordsAre
      <4> QED
        BY <3>5, <4>1, PatchCompiles DEF Outcome
    <3>7. Outcome(args)' = Outcome(args')
      BY <3>1 DEF Outcome, Writable, Bytes, ArgToBytes, Compile, FieldCode, InlineCode
    <3> QED
      BY <3>1, <3>2, <3>3, <3>4, <3>5, <3>6, <3>7 DEF PatcherInv
  <2>2. CASE UNCHANGED vars
    <3>1. UNCHANGED << fields, body, placeholders, template, descriptor, args, script >>
      BY <2>2 DEF vars
    <3>2. /\ Compile(placeholders)' = Compile(placeholders)
          /\ Outcome(args)' = Outcome(args)
      BY <3>1 DEF Outcome, Writable, Bytes, ArgToBytes, Compile, FieldCode, InlineCode
    <3>3. ExtractPatchDescriptor(template, placeholders)'
            = ExtractPatchDescriptor(template, placeholders)
      BY <3>1 DEF ExtractPatchDescriptor, ArgToBytes
    <3>4. CtorArgs' = CtorArgs /\ (Unambiguous' <=> Unambiguous)
      BY <3>1 DEF CtorArgs, Unambiguous
    <3> QED
      BY <3>1, <3>2, <3>3, <3>4 DEF PatcherInv
  <2> QED
    BY <2>1, <2>2 DEF Next
<1> QED
  BY <1>1, <1>2, PTL DEF Spec

\* Whatever the sizes of bytes and fields, the template and the channel: a
\* script that the patcher returns is the one the compiler would produce.
THEOREM PatchedIsCompiledCorrect == Spec => []PatchedIsCompiled
<1>1. PatcherInv => PatchedIsCompiled
  <2> SUFFICES ASSUME PatcherInv, Unambiguous, script # Failed
               PROVE  script = Compile(args)
    BY DEF PatchedIsCompiled
  <2>1. CASE args = placeholders /\ script = template
    BY <2>1 DEF PatcherInv
  <2>2. CASE args \in CtorArgs /\ script = Outcome(args)
    BY <2>2 DEF Outcome
  <2> QED
    BY <2>1, <2>2 DEF PatcherInv
<1> QED
  BY <1>1, PatcherInvHolds, PTL

LEMMA FittingIsWritable ==
    ASSUME PatcherInv, args \in CtorArgs, NEW p \in Names,
           p \in IntParams => IF p \in fields THEN AbsValue(args[p]) < Power[Width]
                             ELSE Len(EncodeScriptInt(args[p]))
                                    = Len(EncodeScriptInt(placeholders[p]))
    PROVE  Writable(p, args)
<1>1. args \in Records /\ placeholders \in Records /\ fields \subseteq IntParams
  BY RecordsAre, PlaceholdersPatchable DEF Patchable
<1>2. CASE p = "client"
  <2>1. args.client \in Keys /\ placeholders \in Templates
    BY DEF CtorArgs, PatcherInv
  <2>2. Len(args.client) = Len(placeholders.client) /\ args.client \in Seq(Int)
    BY <1>1, <2>1, RecordsAre DEF Records
  <2>3. /\ Bytes("client", args) = args["client"]
        /\ Bytes("client", placeholders) = placeholders["client"]
    BY <1>1, BytesOf
  <2> QED
    BY <1>2, <2>2, <2>3 DEF Writable
<1>3. CASE p \in IntParams
  <2>1. args[p] \in Int /\ placeholders[p] \in Int
    BY <1>1, <1>3 DEF Records, IntParams
  <2>2. /\ Bytes(p, args) = IF p \in fields THEN EncodeFixedInt(args[p], Width)
                            ELSE EncodeScriptInt(args[p])
        /\ Bytes(p, placeholders) = IF p \in fields THEN EncodeFixedInt(placeholders[p], Width)
                                    ELSE EncodeScriptInt(placeholders[p])
    BY <1>1, <1>3, BytesOf
  <2>3. CASE p \in fields
    <3>1. AbsValue(placeholders[p]) < Power[Width] /\ AbsValue(args[p]) < Power[Width]
      BY <1>3, <2>3, TemplatesFit DEF PatcherInv
    <3>2. ASSUME NEW v \in Int, AbsValue(v) < Power[Width]
          PROVE  /\ EncodeFixedInt(v, Width) \in Seq(Int)
                 /\ Len(EncodeFixedInt(v, Width)) = Width
      <4>1. ~ (AbsValue(v) >= Power[Width])
        BY <3>2, AbsTyped, FixedIntTyped
      <4> QED
        BY <4>1, FixedIntTyped
    <3> QED
      BY <2>1, <2>2, <2>3, <3>1, <3>2 DEF Writable
  <2>4. CASE p \notin fields
    BY <1>3, <2>1, <2>2, <2>4, ScriptIntTyped DEF Writable
  <2> QED
    BY <2>3, <2>4
<1> QED
  BY <1>2, <1>3 DEF Names, IntParams

\* Whatever the sizes, the template and the channel: the patcher throws for no
\* channel whose arguments are as wide as the template's.
THEOREM PatchesWhatFitsCorrect == Spec => []PatchesWhatFits
<1>1. PatcherInv => PatchesWhatFits
  <2> SUFFICES ASSUME PatcherInv, Unambiguous,
                      \A p \in IntParams :
                        IF p \in fields THEN AbsValue(args[p]) < Power[Width]
                        ELSE Len(EncodeScriptInt(args[p]))
                               = Len(EncodeScriptInt(placeholders[p]))
               PROVE  script # Failed
    BY DEF PatchesWhatFits
  <2>1. CASE args = placeholders /\ script = template
    <3>1. Compile(placeholders) \in Seq(Int)
      BY PlaceholdersPatchable, CompiledTyped
    <3> QED
      BY <2>1, <3>1, PatcherAssumption DEF PatcherInv
  <2>2. CASE args \in CtorArgs /\ script = Outcome(args)
    <3>1. args \in Records
      BY <2>2, RecordsAre
    <3>2. \A p \in Names : Writable(p, args)
      BY <2>2, FittingIsWritable
    <3>3. script \in Seq(Int)
      BY <2>2, <3>1, <3>2, PatchCompiles DEF Outcome
    <3> QED
      BY <3>3, PatcherAssumption
  <2> QED
    BY <2>1, <2>2 DEF PatcherInv
<1> QED
  BY <1>1, PatcherInvHolds, PTL

-----------------------------------------------------------------------------
(* A field is read back.                                                   *)

LEMMA Distributes ==
    \A a, b, c \in Int : /\ a * b \in Int /\ a * b = b * a
                         /\ (a + b) * c = a * c + b * c
                         /\ (a * b) * c = a * (b * c)
                         /\ a >= 0 /\ b >= 0 => a * b >= 0
  OBVIOUS

LEMMA Quotients ==
    ASSUME NEW a \in Nat, NEW d \in Nat \ {0}
    PROVE  /\ a \div d \in Nat /\ a % d \in 0 .. d - 1
           /\ a = (a \div d) * d + (a % d)
<1>1. a \div d \in Int /\ a % d \in 0 .. d - 1
  OBVIOUS
<1>2. a \div d >= 0
  OBVIOUS
<1>3. a = d * (a \div d) + (a % d)
  OBVIOUS
<1> QED
  BY <1>1, <1>2, <1>3, Distributes

\* There is one way to divide.
LEMMA OneQuotient ==
    ASSUME NEW d \in Nat \ {0}, NEW q \in Int, NEW r \in 0 .. d - 1,
           NEW u \in Int, NEW v \in 0 .. d - 1, q * d + r = u * d + v
    PROVE  q = u /\ r = v
<1>1. ASSUME NEW x \in Int, NEW y \in Int, x > y
      PROVE  x * d >= y * d + d
  <2>1. (x - y - 1) * d >= 0
    BY <1>1, Distributes
  <2>2. x * d = (x - y - 1) * d + (y + 1) * d /\ (y + 1) * d = y * d + 1 * d
    BY Distributes
  <2> QED
    BY <2>1, <2>2, Distributes
<1>2. ~ (q > u)
  BY <1>1, Distributes
<1>3. ~ (u > q)
  BY <1>1, Distributes
<1> QED
  BY <1>2, <1>3, Distributes

\* The lowest digits of an integer, and the digit above them.
LEMMA DigitAbove ==
    ASSUME NEW a \in Nat, NEW p \in Nat \ {0}, NEW b \in Nat \ {0}
    PROVE  /\ b * p \in Nat \ {0}
           /\ a % (b * p) = (a % p) + ((a \div p) % b) * p
<1> DEFINE q == a \div p
           r == a % p
           h == q \div b
           d == q % b
           m == b * p
<1>1. q \in Nat /\ r \in 0 .. p - 1 /\ a = q * p + r
  BY Quotients
<1>2. h \in Nat /\ d \in 0 .. b - 1 /\ q = h * b + d
  BY <1>1, Quotients
<1> HIDE DEF q, r, h, d
<1>3. m \in Nat \ {0}
  <2>1. m = (b - 1) * p + 1 * p /\ (b - 1) * p >= 0 /\ 1 * p = p
    BY Distributes
  <2> QED
    BY <2>1, Distributes
<1>4. a = h * m + (d * p + r)
  <2>1. q * p = (h * b) * p + d * p /\ (h * b) * p = h * m
    BY <1>2, Distributes
  <2> QED
    BY <1>1, <1>2, <1>3, <2>1, Distributes
<1>5. d * p + r \in 0 .. m - 1
  <2>1. m = (d + 1) * p + (b - d - 1) * p /\ (b - d - 1) * p >= 0
    BY <1>2, Distributes
  <2>2. (d + 1) * p = d * p + 1 * p /\ 1 * p = p /\ d * p >= 0 /\ d * p \in Int
    BY <1>2, Distributes
  <2>3. (d + 1) * p \in Int /\ (b - d - 1) * p \in Int
    BY <1>2, Distributes
  <2> QED
    BY <1>1, <1>3, <2>1, <2>2, <2>3
<1> HIDE DEF m
<1>6. a \div m \in Nat /\ a % m \in 0 .. m - 1 /\ a = (a \div m) * m + (a % m)
  BY <1>3, Quotients
<1>7. a % m = d * p + r
  <2> DEFINE u == a \div m
             v == a % m
             w == d * p + r
  <2>1. u \in Int /\ v \in 0 .. m - 1 /\ u * m + v = a
    BY <1>6
  <2>2. w \in 0 .. m - 1 /\ h * m + w = a
    BY <1>4, <1>5
  <2> HIDE DEF u, v, w
  <2>3. v = w
    <3>1. u * m + v = h * m + w
      BY <2>1, <2>2
    <3>2. h \in Int
      BY <1>2
    <3> QED
      BY <1>3, <2>1, <2>2, <3>1, <3>2, OneQuotient, Zenon
  <2> QED
    BY <2>3 DEF v, w
<1>8. d * p + r = r + d * p
  BY <1>1, <1>2, Distributes
<1> QED
  BY <1>3, <1>7, <1>8 DEF m, q, r, d

\* The partial sums of a field's bytes.
IsReading(g, bytes) ==
    g = [n \in 0 .. Width |-> IF n = 0 THEN 0 ELSE g[n - 1] + bytes[n] * Power[n - 1]]

LEMMA OneReading ==
    ASSUME NEW bytes, NEW g, IsReading(g, bytes), NEW h, IsReading(h, bytes)
    PROVE  \A n \in 0 .. Width : g[n] = h[n]
<1> DEFINE Bad == { n \in 0 .. Width : g[n] # h[n] }
<1>1. CASE Bad # {}
  <2>1. PICK n \in Bad : \A m \in Nat : m < n => m \notin Bad
    <3>1. Bad \in SUBSET Nat
      OBVIOUS
    <3> HIDE DEF Bad
    <3> QED
      BY <1>1, <3>1, LeastNatural
  <2>2. /\ g[n] = IF n = 0 THEN 0 ELSE g[n - 1] + bytes[n] * Power[n - 1]
        /\ h[n] = IF n = 0 THEN 0 ELSE h[n - 1] + bytes[n] * Power[n - 1]
    BY DEF IsReading
  <2>3. n # 0
    BY <2>2
  <2>4. g[n - 1] = h[n - 1]
    BY <2>1, <2>3, PatcherAssumption
  <2> QED
    BY <2>2, <2>4
<1> QED
  BY <1>1

\* A reading is what any function with the same sums is at the full width.
LEMMA ReadAs ==
    ASSUME NEW bytes, NEW h, IsReading(h, bytes)
    PROVE  ReadFixed(bytes) =
             IF h[Width] >= SignBit * Power[Width - 1]
             THEN -(h[Width] - SignBit * Power[Width - 1]) ELSE h[Width]
<1> DEFINE lowest == CHOOSE g : IsReading(g, bytes)
<1>1. ReadFixed(bytes) =
        IF lowest[Width] >= SignBit * Power[Width - 1]
        THEN -(lowest[Width] - SignBit * Power[Width - 1]) ELSE lowest[Width]
  BY DEF ReadFixed, IsReading
<1>2. IsReading(lowest, bytes)
  BY DEF lowest
<1> HIDE DEF lowest
<1>3. Width \in 0 .. Width
  BY PatcherAssumption
<1>4. lowest[Width] = h[Width]
  BY <1>2, <1>3, OneReading
<1> QED
  BY <1>1, <1>4

\* An integer that leaves the sign bit free is read back.
LEMMA FieldReadBack ==
    ASSUME NEW value \in Int, AbsValue(value) < SignBit * Power[Width - 1]
    PROVE  ReadFixed(EncodeFixedInt(value, Width)) = value
<1> DEFINE a == AbsValue(value)
           p == Power[Width - 1]
           top == SignBit * p
           digits == Digits(a, Width)
           signed == WithSign(digits)
           reading == [n \in 0 .. Width |-> a % Power[n]]
           shifted == [n \in 0 .. Width |-> IF n = Width THEN a + top ELSE a % Power[n]]
<1>1. /\ Width \in Nat \ {0} /\ Width - 1 \in Nat /\ a \in Nat
      /\ p \in Nat \ {0} /\ top \in Nat
  <2>1. Width \in Nat \ {0} /\ Width - 1 \in Nat
    BY PatcherAssumption
  <2>2. a \in Nat
    BY AbsTyped
  <2>3. p \in Nat \ {0}
    BY <2>1, PowerTyped
  <2> HIDE DEF p, a
  <2>4. top \in Nat
    BY <2>3, BaseFacts, Distributes
  <2> QED
    BY <2>1, <2>2, <2>3, <2>4
<1>2. Power[Width] = Base * p /\ Power[0] = 1
  BY <1>1, PowerTyped
<1>3. Base * p = top + top /\ Base * p \in Nat \ {0}
  <2>1. (SignBit + SignBit) * p = SignBit * p + SignBit * p
    BY <1>1, BaseFacts, Distributes
  <2>2. top > 0
    <3>1. SignBit * p = (SignBit - 1) * p + 1 * p /\ (SignBit - 1) * p >= 0 /\ 1 * p = p
      BY <1>1, BaseFacts, Distributes
    <3> QED
      BY <1>1, <3>1, BaseFacts, Distributes
  <2> QED
    BY <1>1, <2>1, <2>2, BaseFacts
<1>4. \A n \in 1 .. Width : digits[n] = (a \div Power[n - 1]) % Base
  BY DEF Digits
<1>5. digits \in Seq(Byte) /\ Len(digits) = Width
  BY <1>1, DigitsTyped
<1>6. ASSUME NEW n \in 1 .. Width
      PROVE  a % Power[n] = (a % Power[n - 1]) + digits[n] * Power[n - 1]
  <2>1. n - 1 \in Nat /\ Power[n - 1] \in Nat \ {0} /\ Power[n] = Base * Power[n - 1]
    BY <1>1, PowerTyped
  <2>2. Base \in Nat \ {0}
    BY BaseFacts
  <2> HIDE DEF a, digits
  <2>3. a % (Base * Power[n - 1])
          = (a % Power[n - 1]) + ((a \div Power[n - 1]) % Base) * Power[n - 1]
    BY <1>1, <2>1, <2>2, DigitAbove
  <2> QED
    BY <1>4, <2>1, <2>3
<1>7. a % Power[0] = 0
  BY <1>1, <1>2
<1>8. a % Power[Width] = a
  BY <1>1, <1>2, <1>3
<1>9. digits[Width] \in Int /\ a % p \in Nat
  <2> HIDE DEF a, p, digits
  <2>1. digits[Width] \in Byte
    BY <1>1, <1>5
  <2>2. a % p \in 0 .. p - 1
    BY <1>1, Quotients
  <2> QED
    BY <1>1, <2>1, <2>2, BaseFacts DEF Byte
<1>10. digits[Width] < SignBit /\ a = (a % p) + digits[Width] * p
  <2>1. a = (a % p) + digits[Width] * p
    BY <1>1, <1>6, <1>8
  <2>2. ASSUME digits[Width] >= SignBit
        PROVE  FALSE
    <3>1. (digits[Width] - SignBit) * p >= 0
      BY <1>1, <1>9, <2>2, BaseFacts, Distributes
    <3>2. digits[Width] * p = (digits[Width] - SignBit) * p + top
      BY <1>1, <1>9, BaseFacts, Distributes
    <3>3. digits[Width] * p \in Int /\ (digits[Width] - SignBit) * p \in Int
      BY <1>1, <1>9, BaseFacts, Distributes
    <3> QED
      BY <1>1, <1>9, <2>1, <3>1, <3>2, <3>3
  <2> QED
    BY <1>9, <2>1, <2>2, BaseFacts
<1> HIDE DEF a, p, top, digits
<1>11. CASE value >= 0
  <2>1. a = value /\ EncodeFixedInt(value, Width) = digits
    BY <1>1, <1>2, <1>3, <1>11 DEF EncodeFixedInt, AbsValue, a, digits, top, p
  <2>2. IsReading(reading, digits)
    BY <1>1, <1>6, <1>7 DEF IsReading
  <2>3. reading[Width] = a
    BY <1>1, <1>8
  <2> HIDE DEF reading
  <2>4. ReadFixed(digits) = a
    BY <1>1, <2>2, <2>3, ReadAs DEF a, top, p
  <2> QED
    BY <2>1, <2>4
<1>12. CASE value < 0
  <2>1. a = -value /\ EncodeFixedInt(value, Width) = signed
    BY <1>1, <1>2, <1>3, <1>12 DEF EncodeFixedInt, AbsValue, a, digits, top, p
  <2>2. /\ \A n \in 1 .. Width - 1 : signed[n] = digits[n]
        /\ signed[Width] = digits[Width] + SignBit
    BY <1>1, <1>5, <1>10 DEF WithSign
  <2>3. a + top = (a % p) + signed[Width] * p
    <3>1. (digits[Width] + SignBit) * p = digits[Width] * p + top
      BY <1>1, <1>9, BaseFacts, Distributes DEF top
    <3>2. digits[Width] * p \in Int
      BY <1>1, <1>9, Distributes
    <3> HIDE DEF signed
    <3> QED
      BY <1>1, <1>9, <1>10, <2>2, <3>1, <3>2
  <2>4. IsReading(shifted, signed)
    <3> HIDE DEF signed
    <3>1. ASSUME NEW n \in 0 .. Width
          PROVE  shifted[n] = IF n = 0 THEN 0
                              ELSE shifted[n - 1] + signed[n] * Power[n - 1]
      <4>1. CASE n = 0
        BY <1>1, <1>7, <4>1
      <4>2. CASE n \in 1 .. Width - 1
        BY <1>1, <1>6, <2>2, <4>2
      <4>3. CASE n = Width
        BY <1>1, <2>3, <4>3 DEF p
      <4> QED
        BY <1>1, <4>1, <4>2, <4>3
    <3>2. shifted = [n \in 0 .. Width |-> shifted[n]]
      OBVIOUS
    <3> HIDE DEF shifted
    <3> QED
      BY <3>1, <3>2 DEF IsReading
  <2>5. shifted[Width] = a + top
    BY <1>1
  <2> HIDE DEF shifted, signed
  <2>6. ReadFixed(signed) = -a
    BY <1>1, <2>4, <2>5, ReadAs DEF a, top, p
  <2> QED
    BY <2>1, <2>6
<1> QED
  BY <1>11, <1>12

\* The script that was patched, or compiled, holds a field at its offset.
LEMMA FieldAt ==
    ASSUME NEW as, Patchable(as), fields \subseteq IntParams, body \in Seq(Int),
           NEW p \in IntParams \cap fields
    PROVE  SubSeq(Compile(as), FieldOffset(p) + 1 + 1, FieldOffset(p) + 1 + Width)
             = EncodeFixedInt(as[p], Width)
<1> DEFINE before == Before(p, as)
           after == After(p, as)
           bytes == Bytes(p, as)
           t == "initTimeout"
<1>1. p \in Names /\ t \in IntParams /\ t \in Names /\ p \in {t, "initNonce"}
  BY DEF IntParams, Names
<1>2. ASSUME NEW q \in IntParams \cap fields
      PROVE  /\ Bytes(q, as) = EncodeFixedInt(as[q], Width)
             /\ Bytes(q, as) \in Seq(Int) /\ Len(Bytes(q, as)) = Width
  <2>1. Bytes(q, as) = EncodeFixedInt(as[q], Width)
    BY BytesOf
  <2>2. Bytes(q, as) \in Seq(Int) /\ as[q] \in Int
    BY DEF Patchable, Names, IntParams, Records
  <2>3. EncodeFixedInt(as[q], Width) # Failed
    BY <2>1, <2>2, PatcherAssumption
  <2>4. Len(EncodeFixedInt(as[q], Width)) = Width
    BY <2>2, <2>3, FixedIntTyped
  <2> QED
    BY <2>1, <2>2, <2>4
<1>3. /\ Compile(as) = before ++ (bytes ++ after)
      /\ before \in Seq(Int) /\ after \in Seq(Int) /\ bytes \in Seq(Int)
  BY <1>1, <1>2, Splits
<1>4. Len(before) = FieldOffset(p) + 1
  <2> DEFINE size == << Len(bytes) >>
  <2>1. size \in Seq(Int) /\ Len(size) = 1
    BY <1>2, PushTyped
  <2>2. CASE p = t
    <3>1. before = size
      BY <2>2 DEF Before
    <3>2. FieldOffset(p) = 0
      BY <2>2 DEF FieldOffset
    <3> HIDE DEF before, size
    <3> QED
      BY <2>1, <3>1, <3>2
  <2>3. CASE p = "initNonce"
    <3>1. before = FieldCode(t, as) ++ size
      BY <2>3 DEF Before
    <3>2. FieldCode(t, as) = IF t \in fields THEN Push(Bytes(t, as)) ELSE Empty
      BY <1>1, CodeOf
    <3>3. /\ FieldCode(t, as) \in Seq(Int)
          /\ Len(FieldCode(t, as)) = FieldOffset(p)
      <4>1. CASE t \in fields
        <5>1. Len(Push(Bytes(t, as))) = Width + 1 /\ Push(Bytes(t, as)) \in Seq(Int)
          BY <1>1, <1>2, <4>1, PushTyped
        <5>2. FieldOffset(p) = Width + 1
          BY <2>3, <4>1 DEF FieldOffset
        <5> QED
          BY <3>2, <4>1, <5>1, <5>2
      <4>2. CASE t \notin fields
        <5>1. FieldOffset(p) = 0
          BY <4>2 DEF FieldOffset
        <5> QED
          BY <3>2, <4>2, <5>1, EmptySequence
      <4> QED
        BY <4>1, <4>2
    <3> HIDE DEF before, size
    <3> QED
      BY <2>1, <3>1, <3>3, Joins
  <2> QED
    BY <1>1, <2>2, <2>3
<1>5. bytes = EncodeFixedInt(as[p], Width) /\ Len(bytes) = Width
  BY <1>2
<1> HIDE DEF before, after, bytes
<1>6. Placed(Compile(as), before, bytes, after)
  BY <1>3, PlacedBytes
<1>7. SubSeq(Compile(as), Len(before) + 1, Len(before) + Len(bytes)) = bytes
  BY <1>3, <1>6, PieceOf
<1> QED
  BY <1>4, <1>5, <1>7

\* Whatever the sizes, the template and the channel: the contract reads the
\* timeout and the nonce of the channel back from the script, if they leave the
\* sign bit free.
THEOREM ParametersReadBackCorrect == Spec => []ParametersReadBack
<1>1. PatcherInv => ParametersReadBack
  <2> SUFFICES ASSUME PatcherInv, Unambiguous, script # Failed,
                      NEW p \in IntParams \cap fields,
                      AbsValue(args[p]) < SignBit * Power[Width - 1]
               PROVE  ReadFixed(SubSeq(script, FieldOffset(p) + 1 + 1,
                                       FieldOffset(p) + 1 + Width)) = args[p]
    BY Zenon DEF ParametersReadBack
  <2>1. Patchable(args) /\ script = Compile(args)
    <3>1. CASE args = placeholders /\ script = template
      BY <3>1, PlaceholdersPatchable DEF PatcherInv
    <3>2. CASE args \in CtorArgs /\ script = Outcome(args)
      <4>1. args \in Records
        BY <3>2, RecordsAre
      <4>2. \A q \in Names : Writable(q, args)
        BY <3>2 DEF Outcome
      <4> QED
        BY <3>2, <4>1, <4>2, PatchCompiles DEF Outcome
    <3> QED
      BY <3>1, <3>2 DEF PatcherInv
  <2>2. SubSeq(script, FieldOffset(p) + 1 + 1, FieldOffset(p) + 1 + Width)
          = EncodeFixedInt(args[p], Width)
    BY <2>1, PlaceholdersPatchable, FieldAt
  <2>3. args[p] \in Int
    BY <2>1 DEF Patchable, Records, IntParams
  <2> QED
    BY <2>2, <2>3, FieldReadBack
<1> QED
  BY <1>1, PatcherInvHolds, PTL

=============================================================================
