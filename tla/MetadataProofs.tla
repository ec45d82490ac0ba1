--------------------------- MODULE MetadataProofs ---------------------------
(***************************************************************************)
(* The readers of Metadata stay inside the block, for every word width,    *)
(* structure size and content of the block.                                *)
(***************************************************************************)
EXTENDS Metadata, TLAPS

(* Word addition, exact without overflow.                                  *)
LEMMA PlusIsWord ==
  ASSUME NEW a \in Word, NEW b \in Word
  PROVE  Plus(a, b) \in Word /\ (a + b < W => Plus(a, b) = a + b)
  BY ConstantsAssumption DEF Word, Plus

(* Word subtraction, exact without underflow.                              *)
LEMMA MinusIsWord ==
  ASSUME NEW a \in Word, NEW b \in Word
  PROVE  Minus(a, b) \in Word /\ (b <= a => Minus(a, b) = a - b)
  BY ConstantsAssumption DEF Word, Minus

(* Remainders by four.                                                     *)
LEMMA ModFour ==
  ASSUME NEW x \in Nat
  PROVE  x % 4 \in 0 .. 3 /\ x % 4 <= x
  OBVIOUS

(* A rounded size is a word, it may have wrapped to zero.                  *)
LEMMA AlignedIsWord ==
  ASSUME NEW s \in Word
  PROVE  alignedMetadataSize(s) \in Word
<1>1. 3 \in Word
  BY ConstantsAssumption DEF Word
<1>2. Plus(s, 3) \in Word
  BY <1>1, PlusIsWord
<1>3. Plus(s, 3) \in Nat /\ Plus(s, 3) < W
  BY <1>2, ConstantsAssumption DEF Word
<1>4. Plus(s, 3) % 4 \in 0 .. 3 /\ Plus(s, 3) % 4 <= Plus(s, 3)
  BY <1>3, ModFour
<1> QED BY <1>3, <1>4, ConstantsAssumption DEF alignedMetadataSize, Word

(* The offset of the next item is a word.                                  *)
LEMMA AfterIsWord ==
  ASSUME NEW o \in Word, NEW s \in Word
  PROVE  After(o, s) \in Word
<1>1. ItemSize \in Word
  BY ConstantsAssumption DEF Word
<1> QED BY <1>1, AlignedIsWord, PlusIsWord DEF After

(* What a walk reads at an offset is an item of that offset.               *)
LEMMA ItemsAtAreItems ==
  ASSUME seen \in Seq(Item), NEW o \in Word, NEW it \in ItemsAt(o)
  PROVE  it \in Item /\ it.off = o
<1> DEFINE known == {k \in DOMAIN seen : seen[k].off = o}
<1>1. CASE known = {}
  <2>1. it \in [off : {o}, type : Types, size : Word]
    BY <1>1 DEF ItemsAt
  <2> QED BY <2>1 DEF Item
<1>2. CASE known # {}
  <2>1. PICK k \in known : it = seen[k]
    BY <1>2 DEF ItemsAt
  <2>2. seen[k] \in Item
    OBVIOUS
  <2> QED BY <2>1, <2>2
<1> QED BY <1>1, <1>2

(* The initial state has the types.                                        *)
LEMMA InitTypeOK == Init => TypeOK
<1> SUFFICES ASSUME Init PROVE TypeOK
  OBVIOUS
<1>1. 0 \in Word
  BY ConstantsAssumption DEF Word
<1> QED BY <1>1 DEF Init, TypeOK, Phases, NoRead, NoImu, Imu

(* Every step keeps the types.                                             *)
LEMMA NextTypeOK == TypeOK /\ [Next]_vars => TypeOK'
<1> SUFFICES ASSUME TypeOK, [Next]_vars PROVE TypeOK'
  OBVIOUS
<1> USE ConstantsAssumption
<1>0. /\ 0 \in Word /\ HeaderSize \in Word /\ ItemSize \in Nat
      /\ \A o \in Word : o \in Nat
  BY DEF Word
<1>1. CASE UNCHANGED vars
  BY <1>1 DEF vars, TypeOK
<1>2. CASE ReadNothing
  BY <1>2 DEF ReadNothing, TypeOK, Phases
<1>3. CASE GetItems
  <2>1. PICK s \in Word, n \in Counts, tlv \in BOOLEAN, header \in BOOLEAN :
          ReadHeader(s, n, tlv, header)
    BY <1>3 DEF GetItems
  <2>2. read' \in [lo : Nat, hi : Nat] /\ phase' \in Phases
    BY <2>1 DEF ReadHeader, TypeOK, Phases
  <2> QED BY <1>0, <2>1, <2>2 DEF ReadHeader, TypeOK
<1>4. ASSUME NEW type \in Types, NEW sz \in Word, ValidateItem(type, sz)
      PROVE  TypeOK'
  <2>1. After(off, sz) \in Word
    BY AfterIsWord DEF TypeOK
  <2>2. read' \in [lo : Nat, hi : Nat]
    BY <1>0, <1>4 DEF ValidateItem, TypeOK
  <2>3. [off |-> off, type |-> type, size |-> sz] \in Item
    BY DEF TypeOK, Item
  <2>4. off' \in Word /\ i' \in Nat /\ seen' \in Seq(Item) /\ phase' \in Phases
    <3>1. Append(seen, [off |-> off, type |-> type, size |-> sz]) \in Seq(Item)
      BY <2>3 DEF TypeOK
    <3> DEFINE good == type # UnknownType /\ DataFits(Plus(off, ItemSize), sz, size)
    <3>2. CASE good
      <4>1. /\ off' = After(off, sz) /\ i' = i + 1 /\ phase' = phase
            /\ seen' = Append(seen, [off |-> off, type |-> type, size |-> sz])
        BY <1>4, <3>2 DEF ValidateItem
      <4> QED BY <2>1, <3>1, <4>1 DEF TypeOK
    <3>3. CASE ~good
      <4>1. off' = off /\ i' = i /\ seen' = seen /\ phase' = "error"
        BY <1>4, <3>3 DEF ValidateItem
      <4> QED BY <4>1 DEF TypeOK, Phases
    <3> QED BY <3>2, <3>3
  <2> QED BY <1>4, <2>2, <2>4 DEF ValidateItem, TypeOK
<1>5. CASE NoRoomForItem
  BY <1>5 DEF NoRoomForItem, TypeOK, Phases
<1>6. CASE EndValidation
  BY <1>0, <1>6 DEF EndValidation, TypeOK, Phases
<1>7. CASE ExtractItem
  <2>1. PICK it \in ItemsAt(off) :
          /\ read' = [lo |-> off, hi |-> off + ItemSize + it.size]
          /\ out' = Append(out, it)
          /\ off' = After(off, it.size)
    BY <1>7 DEF ExtractItem
  <2>2. it \in Item
    BY ItemsAtAreItems DEF TypeOK
  <2>3. After(off, it.size) \in Word
    BY <2>2, AfterIsWord DEF TypeOK, Item
  <2>4. read' \in [lo : Nat, hi : Nat]
    <3>1. it.size \in Nat /\ off \in Nat
      BY <1>0, <2>2 DEF TypeOK, Item
    <3> QED BY <1>0, <2>1, <3>1
  <2> QED BY <1>7, <2>1, <2>2, <2>3, <2>4 DEF ExtractItem, TypeOK
<1>8. CASE EndExtraction
  BY <1>8 DEF EndExtraction, TypeOK, Phases
<1>9. CASE GetImu
  <2>1. PICK s \in ImuWords, total \in ImuWords, hs \in ImuWords, go \in ImuWords,
             gc \in ImuWords, ao \in ImuWords, ac \in ImuWords :
          imuMetadataToPy(s, total, [headerSize |-> hs, gyroOffset |-> go,
                          gyroCount |-> gc, accOffset |-> ao, accCount |-> ac])
    BY <1>9 DEF GetImu
  <2>2. [headerSize |-> hs, gyroOffset |-> go, gyroCount |-> gc, accOffset |-> ao,
         accCount |-> ac] \in Imu
    BY DEF Imu
  <2>3. read' \in [lo : Nat, hi : Nat] /\ phase' \in Phases
    BY <2>1 DEF imuMetadataToPy, TypeOK, Phases
  <2> QED BY <2>1, <2>2, <2>3 DEF imuMetadataToPy, TypeOK
<1>10. ASSUME NEW section \in {"gyro", "acc"}, NEW offset \in Nat, NEW n \in Nat,
              ReadSample(section, offset, n)
       PROVE  TypeOK'
  <2>1. i * SampleSize \in Nat /\ (i + 1) * SampleSize \in Nat
    BY DEF TypeOK
  <2>2. read' \in [lo : Nat, hi : Nat]
    BY <1>10, <2>1 DEF ReadSample, TypeOK
  <2> QED BY <1>10, <2>2 DEF ReadSample, TypeOK
<1>11. CASE ReadGyroSample \/ ReadAccSample
  BY <1>0, <1>10, <1>11 DEF ReadGyroSample, ReadAccSample, TypeOK, Imu
<1>12. CASE EndGyro \/ EndAcc
  BY <1>12 DEF EndGyro, EndAcc, EndSection, TypeOK, Phases
<1>13. CASE Return
  BY <1>0, <1>13 DEF Return, TypeOK, Phases, NoRead, NoImu, Imu
<1> QED
  BY <1>1, <1>2, <1>3, <1>4, <1>5, <1>6, <1>7, <1>8, <1>9, <1>11, <1>12, <1>13 DEF Next

(* Offsets, sizes and counts keep their types: no sum leaves the words.    *)
THEOREM TypeCorrect == Spec => []TypeOK
  BY InitTypeOK, NextTypeOK, PTL DEF Spec

-----------------------------------------------------------------------------
(* An accepted item ends inside the block: neither the sums of its offset  *)
(* and sizes nor the rounding of its size wraps.                           *)
LEMMA AcceptedItem ==
  ASSUME NEW o \in Word, NEW sz \in Word, NEW s \in Word, HeaderSize <= o,
         ItemFits(o, s), DataFits(Plus(o, ItemSize), sz, s)
  PROVE  /\ After(o, sz) = o + ItemSize + alignedMetadataSize(sz)
         /\ After(o, sz) <= s
         /\ o < After(o, sz)
         /\ o + ItemSize + sz <= s
<1> USE ConstantsAssumption
<1>1. /\ o \in Nat /\ sz \in Nat /\ s \in Nat /\ s < W
      /\ ItemSize \in Word /\ 3 \in Word /\ alignedMetadataSize(sz) \in Word
  BY AlignedIsWord DEF Word
<1>2. o + ItemSize <= s
  BY <1>1, MinusIsWord DEF ItemFits
<1>3. Plus(o, ItemSize) = o + ItemSize /\ o + ItemSize \in Word
  BY <1>1, <1>2, PlusIsWord DEF Word
<1>4. /\ sz <= s - (o + ItemSize)
      /\ alignedMetadataSize(sz) <= s - (o + ItemSize)
  BY <1>1, <1>2, <1>3, MinusIsWord DEF DataFits
<1>5. o + ItemSize + alignedMetadataSize(sz) <= s
  BY <1>1, <1>4 DEF Word
<1>6. After(o, sz) = o + ItemSize + alignedMetadataSize(sz)
  <2>1. o + ItemSize + alignedMetadataSize(sz) < W
    BY <1>1, <1>5 DEF Word
  <2>2. Plus(o + ItemSize, alignedMetadataSize(sz)) = o + ItemSize + alignedMetadataSize(sz)
    BY <1>1, <1>3, <2>1, PlusIsWord
  <2> QED BY <1>3, <2>2 DEF After
<1> QED BY <1>1, <1>4, <1>5, <1>6 DEF Word

(* The fields of an item that was seen are words and numbers.              *)
LEMMA ItemTypes ==
  ASSUME seen \in Seq(Item), NEW k \in DOMAIN seen
  PROVE  /\ seen[k].off \in Word /\ seen[k].off \in Nat
         /\ seen[k].size \in Word /\ seen[k].size \in Nat
<1>1. seen[k] \in Item
  OBVIOUS
<1> QED BY <1>1, ConstantsAssumption DEF Item, Word

(* Where the j-th item starts: behind the last one is where the walk ends. *)
Start(j) ==
  IF j \in DOMAIN seen THEN seen[j].off
  ELSE IF phase = "validate" THEN off ELSE size

(* The items seen follow each other from the header to the end.            *)
Chain ==
  /\ Start(1) = HeaderSize
  /\ \A j \in DOMAIN seen :
       /\ After(seen[j].off, seen[j].size) = Start(j + 1)
       /\ seen[j].off + ItemSize + seen[j].size <= size
  /\ \A j, k \in DOMAIN seen : j < k => seen[j].off < seen[k].off

Validating ==
  phase = "validate" =>
    /\ Chain /\ i <= count
    /\ Len(seen) = i /\ HeaderSize <= off
    /\ \A j \in DOMAIN seen : seen[j].off < off

Extracting ==
  phase = "extract" =>
    /\ Chain /\ i <= count
    /\ Len(seen) = count /\ Len(out) = i
    /\ off = Start(i + 1)

NothingOut == phase \notin {"extract", "done"} => out = <<>>

ImuRange(offset, n) ==
  n = 0 \/ /\ imu.headerSize <= offset /\ offset <= size
           /\ n * SampleSize <= size - offset

ReadingSamples ==
  phase \in {"gyro", "acc"} =>
    /\ ImuRange(imu.gyroOffset, imu.gyroCount)
    /\ ImuRange(imu.accOffset, imu.accCount)
    /\ phase = "gyro" => i <= imu.gyroCount
    /\ phase = "acc" => i <= imu.accCount

Idle == phase = "idle" => i = 0 /\ seen = <<>> /\ read = NoRead

Inv ==
  /\ Idle /\ Validating /\ Extracting /\ NothingOut /\ ReadingSamples
  /\ ReadsInBounds /\ ExtractsValidatedItems /\ SamplesBehindHeader

(* Nothing has been read yet.                                              *)
LEMMA InitInv == Init => Inv
  BY DEF Init, Inv, Idle, Validating, Extracting, NothingOut, ReadingSamples, ReadsInBounds,
     ExtractsValidatedItems, SamplesBehindHeader, NoRead

(* The header is read only when the block can hold it.                     *)
LEMMA ReadHeaderInv ==
  ASSUME TypeOK, Inv, NEW s \in Word, NEW n \in Counts, NEW tlv \in BOOLEAN,
         NEW header \in BOOLEAN, phase = "idle", ReadHeader(s, n, tlv, header)
  PROVE  Inv'
<1> USE ConstantsAssumption DEF TypeOK, Inv
<1>1. /\ size' = s /\ count' = n /\ off' = HeaderSize /\ i' = 0
      /\ seen' = <<>> /\ out' = <<>> /\ s \in Nat
      /\ phase' \in {"validate", "error"}
      /\ \/ phase' = "error" /\ read' = NoRead
         \/ HeaderSize <= s /\ read' = [lo |-> 0, hi |-> HeaderSize]
  BY DEF ReadHeader, Idle, NothingOut, Word
<1>2. Idle' /\ Extracting' /\ NothingOut' /\ ReadingSamples' /\ SamplesBehindHeader'
  BY <1>1 DEF Idle, Extracting, NothingOut, ReadingSamples, SamplesBehindHeader
<1>3. Validating'
  BY <1>1 DEF Validating, Chain, Start
<1>4. ReadsInBounds' /\ ExtractsValidatedItems'
  BY <1>1 DEF ReadsInBounds, ExtractsValidatedItems, NoRead
<1> QED BY <1>2, <1>3, <1>4

(* Validation reads an item that fits, and the items it has seen form a    *)
(* chain.                                                                  *)
LEMMA ValidateItemInv ==
  ASSUME TypeOK, Inv, NEW type \in Types, NEW sz \in Word, ValidateItem(type, sz)
  PROVE  Inv'
<1> USE ConstantsAssumption DEF TypeOK, Inv
<1> DEFINE it == [off |-> off, type |-> type, size |-> sz]
           good == type # UnknownType /\ DataFits(Plus(off, ItemSize), sz, size)
<1>1. /\ phase = "validate" /\ i < count /\ ItemFits(off, size)
      /\ read' = [lo |-> off, hi |-> off + ItemSize]
      /\ UNCHANGED <<size, count, out, imu>> /\ out = <<>>
  BY DEF ValidateItem, NothingOut
<1>2. off \in Nat /\ size \in Nat /\ ItemSize \in Word /\ off + ItemSize <= size
  BY <1>1, MinusIsWord DEF ItemFits, Word
<1>3. ReadsInBounds'
  BY <1>1, <1>2 DEF ReadsInBounds
<1>4. CASE ~good
  <2>1. phase' = "error" /\ UNCHANGED <<off, i, seen>>
    BY <1>4 DEF ValidateItem
  <2> QED
    BY <1>1, <1>3, <2>1 DEF Idle, Validating, Extracting, NothingOut, ReadingSamples,
       ExtractsValidatedItems, SamplesBehindHeader
<1>5. CASE good
  <2>1. /\ off' = After(off, sz) /\ i' = i + 1 /\ phase' = "validate"
        /\ seen' = Append(seen, it)
    BY <1>1, <1>5 DEF ValidateItem
  <2>2. /\ Chain /\ Len(seen) = i /\ HeaderSize <= off
        /\ \A j \in DOMAIN seen : seen[j].off < off
    BY <1>1 DEF Validating
  <2>3. /\ off < After(off, sz) /\ After(off, sz) \in Nat
        /\ off + ItemSize + sz <= size
    <3>1. After(off, sz) \in Nat
      <4>1. After(off, sz) \in Word
        BY AfterIsWord
      <4> QED BY <4>1 DEF Word
    <3> QED BY <1>1, <1>5, <2>2, <3>1, AcceptedItem
  <2>4. /\ Len(seen') = i + 1 /\ DOMAIN seen' = 1 .. i + 1 /\ DOMAIN seen = 1 .. i
        /\ seen'[i + 1] = it /\ \A j \in 1 .. i : seen'[j] = seen[j]
    BY <2>1, <2>2
  <2>5. \A j \in 1 .. i + 1 : Start(j)' = Start(j)
    <3> SUFFICES ASSUME NEW j \in 1 .. i + 1 PROVE Start(j)' = Start(j)
      OBVIOUS
    <3>1. CASE j = i + 1
      BY <1>1, <2>4, <3>1 DEF Start
    <3>2. CASE j \in 1 .. i
      BY <2>4, <3>2 DEF Start
    <3> QED BY <3>1, <3>2
  <2>6. \A j : j = i + 2 => Start(j)' = After(off, sz)
    BY <2>1, <2>4 DEF Start
  <2>7. Chain'
    <3>1. Start(1)' = HeaderSize
      BY <2>2, <2>5 DEF Chain
    <3>2. ASSUME NEW j \in 1 .. i + 1
          PROVE  /\ After(seen'[j].off, seen'[j].size) = Start(j + 1)'
                 /\ seen'[j].off + ItemSize + seen'[j].size <= size
      <4>1. CASE j = i + 1
        <5>1. j + 1 = i + 2 /\ seen'[j] = it
          BY <2>4, <4>1
        <5>2. Start(j + 1)' = After(off, sz)
          BY <2>6, <5>1
        <5> QED BY <2>3, <5>1, <5>2
      <4>2. CASE j \in 1 .. i
        BY <2>2, <2>4, <2>5, <4>2 DEF Chain
      <4> QED BY <4>1, <4>2
    <3>3. ASSUME NEW j \in 1 .. i + 1, NEW k \in 1 .. i + 1, j < k
          PROVE  seen'[j].off < seen'[k].off
      <4>1. j \in 1 .. i
        BY <3>3
      <4>2. CASE k = i + 1
        BY <2>2, <2>4, <4>1, <4>2
      <4>3. CASE k \in 1 .. i
        BY <2>2, <2>4, <3>3, <4>1, <4>3 DEF Chain
      <4> QED BY <4>2, <4>3
    <3> QED BY <1>1, <2>4, <3>1, <3>2, <3>3 DEF Chain, After
  <2>8. \A j \in DOMAIN seen' : seen'[j].off < off'
    <3> SUFFICES ASSUME NEW j \in 1 .. i + 1 PROVE seen'[j].off < off'
      BY <2>4
    <3>1. CASE j = i + 1
      BY <2>1, <2>3, <2>4, <3>1
    <3>2. CASE j \in 1 .. i
      <4>1. seen[j].off < off /\ seen[j].off \in Nat
        BY <2>2, <2>4, <3>2, ItemTypes
      <4> QED BY <1>2, <2>1, <2>3, <2>4, <3>2, <4>1
    <3> QED BY <3>1, <3>2
  <2>9. Validating'
    BY <1>1, <1>2, <2>1, <2>2, <2>3, <2>4, <2>7, <2>8 DEF Validating
  <2>10. Idle' /\ Extracting' /\ NothingOut' /\ ReadingSamples' /\ SamplesBehindHeader'
    BY <1>1, <2>1 DEF Idle, Extracting, NothingOut, ReadingSamples, SamplesBehindHeader
  <2>11. ExtractsValidatedItems'
    BY <1>1, <2>4 DEF ExtractsValidatedItems
  <2> QED BY <1>3, <2>9, <2>10, <2>11
<1> QED BY <1>4, <1>5

(* The extraction starts where the validation did.                         *)
LEMMA EndValidationInv ==
  ASSUME TypeOK, Inv, EndValidation
  PROVE  Inv'
<1> USE ConstantsAssumption DEF TypeOK, Inv
<1>1. /\ phase = "validate" /\ i = count /\ Len(seen) = i /\ Chain
      /\ UNCHANGED <<size, count, seen, out, read, imu>> /\ out = <<>>
  BY DEF EndValidation, NothingOut, Validating
<1>2. CASE off # size
  <2>1. phase' = "error" /\ UNCHANGED <<off, i>>
    BY <1>2 DEF EndValidation, Covers
  <2> QED
    BY <1>1, <2>1 DEF Idle, Validating, Extracting, NothingOut, ReadingSamples, ReadsInBounds,
       ExtractsValidatedItems, SamplesBehindHeader
<1>3. CASE off = size
  <2>1. phase' = "extract" /\ off' = HeaderSize /\ i' = 0
    BY <1>3 DEF EndValidation, Covers
  <2>2. \A j : Start(j)' = Start(j)
    BY <1>1, <1>3, <2>1 DEF Start
  <2>3. Chain' /\ Start(1)' = HeaderSize
    BY <1>1, <2>2 DEF Chain, After
  <2>4. Extracting'
    BY <1>1, <2>1, <2>3 DEF Extracting
  <2> QED
    BY <1>1, <2>1, <2>4 DEF Idle, Validating, NothingOut, ReadingSamples, ReadsInBounds,
       ExtractsValidatedItems, SamplesBehindHeader
<1> QED BY <1>2, <1>3

(* The unchecked walk is at the next item of the chain.                    *)
LEMMA ExtractItemInv ==
  ASSUME TypeOK, Inv, ExtractItem
  PROVE  Inv'
<1> USE ConstantsAssumption DEF TypeOK, Inv
<1>1. PICK it \in ItemsAt(off) :
        /\ phase = "extract" /\ i < count
        /\ read' = [lo |-> off, hi |-> off + ItemSize + it.size]
        /\ out' = Append(out, it)
        /\ off' = After(off, it.size)
        /\ i' = i + 1
        /\ UNCHANGED <<phase, size, count, seen, imu>>
  BY DEF ExtractItem
<1>2. /\ Chain /\ Len(seen) = count /\ Len(out) = i /\ off = Start(i + 1)
      /\ DOMAIN seen = 1 .. count /\ i + 1 \in 1 .. count
  BY <1>1 DEF Extracting
<1>3. off = seen[i + 1].off
  BY <1>2 DEF Start
<1>4. it = seen[i + 1]
  <2> DEFINE known == {k \in DOMAIN seen : seen[k].off = off}
  <2>1. known = {i + 1}
    <3>1. \A k \in DOMAIN seen : seen[k].off \in Nat
      BY ItemTypes
    <3>2. ASSUME NEW k \in DOMAIN seen, seen[k].off = off PROVE k = i + 1
      <4>1. ~(k < i + 1) /\ ~(i + 1 < k)
        BY <1>2, <1>3, <3>1, <3>2 DEF Chain
      <4>2. k \in Nat
        BY <1>2
      <4> QED BY <4>1, <4>2
    <3> QED BY <1>2, <1>3, <3>2
  <2> QED BY <2>1 DEF ItemsAt
<1>5. /\ After(seen[i + 1].off, seen[i + 1].size) = Start(i + 2)
      /\ seen[i + 1].off + ItemSize + seen[i + 1].size <= size
  BY <1>2 DEF Chain
<1>6. \A j : Start(j)' = Start(j)
  BY <1>1 DEF Start
<1>7. Chain'
  BY <1>1, <1>2, <1>6 DEF Chain, After
<1>8. Extracting'
  BY <1>1, <1>2, <1>3, <1>4, <1>5, <1>6, <1>7 DEF Extracting
<1>9. ReadsInBounds'
  <2>1. off \in Nat /\ it.size \in Nat
    BY <1>2, <1>3, <1>4, ItemTypes
  <2>2. off + ItemSize + it.size <= size
    BY <1>3, <1>4, <1>5
  <2>3. off <= off + ItemSize + it.size
    BY <2>1
  <2> QED BY <1>1, <2>2, <2>3 DEF ReadsInBounds
<1>10. ExtractsValidatedItems'
  <2>1. /\ Len(out') = i + 1 /\ out'[i + 1] = it
        /\ \A k \in 1 .. i : out'[k] = out[k]
    BY <1>1, <1>2
  <2> QED BY <1>1, <1>2, <1>4, <2>1 DEF ExtractsValidatedItems
<1>11. Idle' /\ Validating' /\ NothingOut' /\ ReadingSamples' /\ SamplesBehindHeader'
  BY <1>1 DEF Idle, Validating, NothingOut, ReadingSamples, SamplesBehindHeader
<1> QED BY <1>8, <1>9, <1>10, <1>11

(* The range checks of both sections precede every sample read.            *)
LEMMA ImuInv ==
  ASSUME TypeOK, Inv, phase = "idle",
         NEW s \in Word, NEW total \in Word, NEW h \in Imu, imuMetadataToPy(s, total, h)
  PROVE  Inv'
<1> USE ConstantsAssumption DEF TypeOK, Inv
<1>1. /\ size' = s /\ imu' = h /\ s \in Nat /\ i' = 0
      /\ UNCHANGED <<count, off, i, seen, out>> /\ out = <<>>
      /\ phase' \in {"error", "gyro"}
      /\ \/ phase' = "error" /\ read' = NoRead
         \/ ImuHeaderSize <= s /\ read' = [lo |-> 0, hi |-> ImuHeaderSize]
  BY DEF imuMetadataToPy, Idle, NothingOut, Word
<1>2. ReadsInBounds'
  BY <1>1 DEF ReadsInBounds, NoRead
<1>3. ReadingSamples'
  <2> SUFFICES ASSUME phase' = "gyro" PROVE ReadingSamples'
    BY <1>1 DEF ReadingSamples
  <2>1. /\ total = s
        /\ validateImuSampleRange(h.headerSize, total, h.gyroOffset, h.gyroCount)
        /\ validateImuSampleRange(h.headerSize, total, h.accOffset, h.accCount)
    BY DEF imuMetadataToPy
  <2>2. h.gyroOffset \in Word /\ h.accOffset \in Word
    BY DEF Imu
  <2>3. ImuRange(imu.gyroOffset, imu.gyroCount)' /\ ImuRange(imu.accOffset, imu.accCount)'
    BY <1>1, <2>1, <2>2, MinusIsWord DEF validateImuSampleRange, SampleBytes, ImuRange
  <2>4. h.gyroCount \in Nat
    BY DEF Imu, Word
  <2> QED BY <1>1, <2>3, <2>4 DEF ReadingSamples
<1> QED
  BY <1>1, <1>2, <1>3 DEF Idle, Validating, Extracting, NothingOut, ExtractsValidatedItems,
     SamplesBehindHeader

(* Multiplication by a sample size is monotone.                            *)
LEMMA Monotone ==
  ASSUME NEW a \in Nat, NEW b \in Nat, NEW s \in Nat, a <= b
  PROVE  a * s <= b * s
<1>1. PICK d \in Nat : b = a + d
  <2>1. b - a \in Nat /\ b = a + (b - a)
    OBVIOUS
  <2> QED BY <2>1
<1>2. d * s \in Nat /\ a * s \in Nat
  OBVIOUS
<1>3. (a + d) * s = a * s + d * s
  OBVIOUS
<1> QED BY <1>1, <1>2, <1>3

(* A sample of a checked section lies in the block behind the header.      *)
LEMMA ReadSampleInv ==
  ASSUME TypeOK, Inv, NEW section \in {"gyro", "acc"}, NEW offset \in Nat, NEW n \in Nat,
         ImuRange(offset, n), ReadSample(section, offset, n),
         section = "gyro" => n = imu.gyroCount,
         section = "acc" => n = imu.accCount
  PROVE  Inv'
<1> USE ConstantsAssumption DEF TypeOK, Inv
<1>1. /\ phase = section /\ i < n
      /\ read' = [lo |-> offset + i * SampleSize, hi |-> offset + (i + 1) * SampleSize]
      /\ i' = i + 1
      /\ UNCHANGED <<phase, size, count, off, seen, out, imu>>
  BY DEF ReadSample
<1>2. /\ imu.headerSize <= offset /\ offset <= size
      /\ n * SampleSize <= size - offset
  BY <1>1 DEF ImuRange
<1>3. /\ i * SampleSize \in Nat /\ (i + 1) * SampleSize \in Nat /\ n * SampleSize \in Nat
      /\ i * SampleSize <= (i + 1) * SampleSize
      /\ (i + 1) * SampleSize <= n * SampleSize
  BY <1>1, Monotone
<1>4. size \in Nat /\ imu.headerSize \in Nat
  BY DEF Imu, Word
<1>5. ReadsInBounds'
  <2> DEFINE a == i * SampleSize
             b == (i + 1) * SampleSize
             c == n * SampleSize
  <2>1. a \in Nat /\ b \in Nat /\ c \in Nat /\ a <= b /\ b <= c /\ c <= size - offset
    BY <1>2, <1>3
  <2>2. read' = [lo |-> offset + a, hi |-> offset + b] /\ size' = size
    BY <1>1
  <2> HIDE DEF a, b, c
  <2>3. offset + a <= offset + b /\ offset + b <= size
    BY <1>4, <2>1
  <2> QED BY <2>2, <2>3 DEF ReadsInBounds
<1>6. SamplesBehindHeader'
  BY <1>1, <1>2, <1>3, <1>4 DEF SamplesBehindHeader
<1>7. ReadingSamples'
  BY <1>1 DEF ReadingSamples, ImuRange
<1>8. Idle' /\ Validating' /\ Extracting' /\ NothingOut' /\ ExtractsValidatedItems'
  BY <1>1 DEF Idle, Validating, Extracting, NothingOut, ExtractsValidatedItems
<1> QED BY <1>5, <1>6, <1>7, <1>8

(* Every step keeps the invariant.                                         *)
LEMMA NextInv == TypeOK /\ Inv /\ [Next]_vars => Inv'
<1> SUFFICES ASSUME TypeOK, Inv, [Next]_vars PROVE Inv'
  OBVIOUS
<1> USE ConstantsAssumption
<1>1. CASE UNCHANGED vars
  BY <1>1 DEF vars, Inv, Idle, Validating, Extracting, NothingOut, ReadingSamples, ImuRange,
     ReadsInBounds, ExtractsValidatedItems, SamplesBehindHeader, Chain, Start
<1>2. CASE ReadNothing
  BY <1>2 DEF ReadNothing, Inv, Idle, Validating, Extracting, NothingOut, ReadingSamples,
     ReadsInBounds, ExtractsValidatedItems, SamplesBehindHeader
<1>3. CASE GetItems
  BY <1>3, ReadHeaderInv DEF GetItems
<1>4. ASSUME NEW type \in Types, NEW sz \in Word, ValidateItem(type, sz)
      PROVE  Inv'
  BY <1>4, ValidateItemInv
<1>5. CASE NoRoomForItem
  BY <1>5 DEF NoRoomForItem, Inv, Idle, Validating, Extracting, NothingOut, ReadingSamples,
     ReadsInBounds, ExtractsValidatedItems, SamplesBehindHeader
<1>6. CASE EndValidation
  BY <1>6, EndValidationInv
<1>7. CASE ExtractItem
  BY <1>7, ExtractItemInv
<1>8. CASE EndExtraction
  BY <1>8 DEF EndExtraction, Inv, Idle, Validating, Extracting, NothingOut, ReadingSamples,
     ReadsInBounds, ExtractsValidatedItems, SamplesBehindHeader
<1>9. CASE GetImu
  <2>1. PICK s \in ImuWords, total \in ImuWords, hs \in ImuWords, go \in ImuWords,
             gc \in ImuWords, ao \in ImuWords, ac \in ImuWords :
          imuMetadataToPy(s, total, [headerSize |-> hs, gyroOffset |-> go,
                          gyroCount |-> gc, accOffset |-> ao, accCount |-> ac])
    BY <1>9 DEF GetImu
  <2>2. [headerSize |-> hs, gyroOffset |-> go, gyroCount |-> gc, accOffset |-> ao,
         accCount |-> ac] \in Imu
    BY DEF Imu
  <2>3. phase = "idle" /\ s \in Word /\ total \in Word
    BY <1>9 DEF GetImu
  <2> QED BY <2>1, <2>2, <2>3, ImuInv
<1>10. CASE ReadGyroSample \/ ReadAccSample
  <2>1. /\ imu.gyroOffset \in Nat /\ imu.gyroCount \in Nat
        /\ imu.accOffset \in Nat /\ imu.accCount \in Nat
    BY DEF TypeOK, Imu, Word
  <2>2. CASE ReadGyroSample
    <3>1. ImuRange(imu.gyroOffset, imu.gyroCount)
      BY <2>2 DEF ReadGyroSample, ReadSample, Inv, ReadingSamples
    <3> QED BY <2>1, <2>2, <3>1, ReadSampleInv DEF ReadGyroSample
  <2>3. CASE ReadAccSample
    <3>1. ImuRange(imu.accOffset, imu.accCount)
      BY <2>3 DEF ReadAccSample, ReadSample, Inv, ReadingSamples
    <3> QED BY <2>1, <2>3, <3>1, ReadSampleInv DEF ReadAccSample
  <2> QED BY <1>10, <2>2, <2>3
<1>11. CASE EndGyro \/ EndAcc
  <2>1. /\ phase \in {"gyro", "acc"} /\ phase' \in {"acc", "done"} /\ i' = 0
        /\ phase = "acc" => phase' = "done"
        /\ UNCHANGED <<size, count, off, seen, out, read, imu>>
    BY <1>11 DEF EndGyro, EndAcc, EndSection
  <2>2. imu.accCount \in Nat
    BY DEF TypeOK, Imu, Word
  <2> QED
    BY <2>1, <2>2 DEF Inv, Idle, Validating, Extracting, NothingOut, ReadingSamples, ImuRange,
       ReadsInBounds, ExtractsValidatedItems, SamplesBehindHeader
<1>12. CASE Return
  BY <1>12 DEF Return, Inv, Idle, Validating, Extracting, NothingOut, ReadingSamples,
     ReadsInBounds, ExtractsValidatedItems, SamplesBehindHeader, NoRead
<1> QED
  BY <1>1, <1>2, <1>3, <1>4, <1>5, <1>6, <1>7, <1>8, <1>9, <1>10, <1>11, <1>12 DEF Next

(* The inductive invariant of the readers.                                 *)
LEMMA InvariantHolds == Spec => [](TypeOK /\ Inv)
<1>1. TypeOK /\ Inv /\ [Next]_vars => (TypeOK /\ Inv)'
  BY NextTypeOK, NextInv
<1> QED BY <1>1, InitTypeOK, InitInv, PTL DEF Spec

(* Nothing outside the block is read, although the second walk and the     *)
(* sample loops check nothing.                                             *)
THEOREM NoReadOutsideBlock == Spec => []ReadsInBounds
<1>1. TypeOK /\ Inv => ReadsInBounds
  BY DEF Inv
<1> QED BY <1>1, InvariantHolds, PTL

(* What the second walk returns is what the first one accepted.            *)
THEOREM WalksAgree == Spec => []ExtractsValidatedItems
<1>1. TypeOK /\ Inv => ExtractsValidatedItems
  BY DEF Inv
<1> QED BY <1>1, InvariantHolds, PTL

(* The items of an accepted block cover it exactly.                        *)
THEOREM AcceptedBlocksAreCovered == Spec => []WalkEndsAtBlockEnd
<1>1. TypeOK /\ Inv => WalkEndsAtBlockEnd
  <2> SUFFICES ASSUME TypeOK, Inv, phase = "extract", i = count
               PROVE  off = size
    BY DEF WalkEndsAtBlockEnd
  <2>1. off = Start(i + 1) /\ Len(seen) = i
    BY DEF Inv, Extracting
  <2>2. i + 1 \notin DOMAIN seen
    BY <2>1 DEF TypeOK
  <2> QED BY <2>1, <2>2 DEF Start
<1> QED BY <1>1, InvariantHolds, PTL

(* No IMU sample overlaps the header that announces it.                    *)
THEOREM SamplesFollowHeader == Spec => []SamplesBehindHeader
<1>1. TypeOK /\ Inv => SamplesBehindHeader
  BY DEF Inv
<1> QED BY <1>1, InvariantHolds, PTL
=============================================================================
