------------------------------ MODULE Metadata ------------------------------
(***************************************************************************)
(* The metadata readers of a media buffer                                  *)
(* (src/src/MediaFrameBindings.cpp): metadata_items / metadata_dict, which *)
(* validate a block of TLV items and then walk it again without checks,    *)
(* and get_imu_metadata, which checks two sample ranges and reads them.    *)
(*                                                                         *)
(* The block is what a producer wrote.  Its content is chosen when it is   *)
(* read first: a later read of the same item finds the same item, a read   *)
(* where nothing was read before finds anything.  Offsets and sizes are    *)
(* uint32_t, words modulo W here.                                          *)
(***************************************************************************)
EXTENDS Naturals, Sequences

CONSTANTS
  W,             \* 2^32 in the code
  HeaderSize,    \* sizeof(MetadataTlvHeader), 12
  ItemSize,      \* sizeof(MetadataTlvItem), 8
  ImuHeaderSize, \* sizeof(ImuFrameMetaHeader)
  SampleSize,    \* sizeof(ImuSample)
  Types,         \* item types
  UnknownType,   \* mediaBufferMetaUnknown
  Counts,        \* the item counts of the headers enumerated
  ImuWords       \* the header words of the IMU blocks enumerated

Word == 0 .. W - 1

ASSUME ConstantsAssumption ==
  /\ W \in Nat /\ W > 8 /\ W % 4 = 0
  /\ HeaderSize \in Nat /\ HeaderSize > 2 /\ HeaderSize < W
  /\ ItemSize \in Nat /\ ItemSize > 0 /\ ItemSize < W
  /\ ImuHeaderSize \in Nat /\ ImuHeaderSize < W
  /\ SampleSize \in Nat /\ SampleSize > 0
  /\ Counts \subseteq Nat
  /\ ImuWords \subseteq Word

Item == [off : Word, type : Types, size : Word]

VARIABLES
  phase, \* where the reader is
  size,  \* meta.size
  count, \* header->count
  off,   \* the running offset
  i,     \* the loop index
  seen,  \* the items that validation read, in order
  out,   \* the items returned
  read,  \* the bytes read last, [lo, hi)
  imu    \* the words of an IMU header

vars == <<phase, size, count, off, i, seen, out, read, imu>>

Phases == {"idle", "validate", "extract", "gyro", "acc", "done", "error"}

NoRead == [lo |-> 0, hi |-> 0]
Imu == [headerSize : Word, gyroOffset : Word, gyroCount : Word,
        accOffset : Word, accCount : Word]
NoImu == [headerSize |-> 0, gyroOffset |-> 0, gyroCount |-> 0, accOffset |-> 0,
          accCount |-> 0]

(* uint32_t addition and subtraction of two words.                         *)
Plus(a, b)  == IF a + b < W THEN a + b ELSE (a + b) - W
Minus(a, b) == IF b <= a THEN a - b ELSE (a + W) - b

(* (size + 3u) & ~3u                                                       *)
alignedMetadataSize(s) == Plus(s, 3) - (Plus(s, 3) % 4)

After(o, s) == Plus(Plus(o, ItemSize), alignedMetadataSize(s))

Init ==
  /\ phase = "idle" /\ size = 0 /\ count = 0 /\ off = 0 /\ i = 0
  /\ seen = <<>> /\ out = <<>> /\ read = NoRead /\ imu = NoImu

-----------------------------------------------------------------------------
(* metadata_items and metadata_dict.                                       *)

(* An empty block gives an empty result.                                   *)
ReadNothing ==
  /\ phase = "idle"
  /\ phase' = "done"
  /\ UNCHANGED <<size, count, off, i, seen, out, read, imu>>

(* header is whether magic, version and the size in the header match.      *)
ReadHeader(s, n, tlv, header) ==
  /\ s > 0
  /\ size' = s
  /\ IF tlv /\ s >= HeaderSize
     THEN /\ read' = [lo |-> 0, hi |-> HeaderSize]
          /\ phase' = IF header THEN "validate" ELSE "error"
     ELSE /\ phase' = "error"
          /\ UNCHANGED read
  /\ count' = n
  /\ off' = HeaderSize
  /\ UNCHANGED <<i, seen, out, imu>>

GetItems ==
  /\ phase = "idle"
  /\ \E s \in Word, n \in Counts, tlv, header \in BOOLEAN :
       ReadHeader(s, n, tlv, header)

ItemFits(o, s) == o <= s /\ ItemSize <= Minus(s, o)

DataFits(o, sz, s) ==
  /\ sz <= Minus(s, o)
  /\ alignedMetadataSize(sz) <= Minus(s, o)

(* One turn of validateMetadataTlv's loop, on the item that lies at off.   *)
ValidateItem(type, sz) ==
  /\ phase = "validate"
  /\ i < count
  /\ ItemFits(off, size)
  /\ read' = [lo |-> off, hi |-> off + ItemSize]
  /\ IF type # UnknownType /\ DataFits(Plus(off, ItemSize), sz, size)
     THEN /\ off' = After(off, sz)
          /\ i' = i + 1
          /\ seen' = Append(seen, [off |-> off, type |-> type, size |-> sz])
          /\ UNCHANGED phase
     ELSE /\ phase' = "error"
          /\ UNCHANGED <<off, i, seen>>
  /\ UNCHANGED <<size, count, out, imu>>

NoRoomForItem ==
  /\ phase = "validate"
  /\ i < count
  /\ ~ItemFits(off, size)
  /\ phase' = "error"
  /\ UNCHANGED <<size, count, off, i, seen, out, read, imu>>

CoversAtMost(o, s) == o <= s

Covers(o, s) == o = s

EndValidation ==
  /\ phase = "validate"
  /\ i = count
  /\ IF Covers(off, size)
     THEN /\ phase' = "extract"
          /\ off' = HeaderSize
          /\ i' = 0
     ELSE /\ phase' = "error"
          /\ UNCHANGED <<off, i>>
  /\ UNCHANGED <<size, count, seen, out, read, imu>>

(* What memory holds at offset o.                                          *)
ItemsAt(o) ==
  LET known == {k \in DOMAIN seen : seen[k].off = o}
  IN IF known = {} THEN [off : {o}, type : Types, size : Word]
                   ELSE {seen[k] : k \in known}

ExtractItemUnaligned ==
  /\ phase = "extract"
  /\ i < count
  /\ \E it \in ItemsAt(off) :
       /\ read' = [lo |-> off, hi |-> off + ItemSize + it.size]
       /\ out' = Append(out, it)
       /\ off' = Plus(Plus(off, ItemSize), it.size)
  /\ i' = i + 1
  /\ UNCHANGED <<phase, size, count, seen, imu>>

(* One turn of the second loop: no check is repeated.                      *)
ExtractItem ==
  /\ phase = "extract"
  /\ i < count
  /\ \E it \in ItemsAt(off) :
       /\ read' = [lo |-> off, hi |-> off + ItemSize + it.size]
       /\ out' = Append(out, it)
       /\ off' = After(off, it.size)
  /\ i' = i + 1
  /\ UNCHANGED <<phase, size, count, seen, imu>>

EndExtraction ==
  /\ phase = "extract"
  /\ i = count
  /\ phase' = "done"
  /\ UNCHANGED <<size, count, off, i, seen, out, read, imu>>

-----------------------------------------------------------------------------
(* get_imu_metadata.                                                       *)

SampleBytesWord(n) == (n * SampleSize) % W

(* static_cast<uint64_t>(count) * sizeof(ImuSample): no word is too large. *)
SampleBytes(n) == n * SampleSize

ImuRangeInBlock(headerSize, totalSize, offset, n) ==
  n = 0 \/ /\ offset <= totalSize
           /\ SampleBytes(n) <= Minus(totalSize, offset)

validateImuSampleRange(headerSize, totalSize, offset, n) ==
  n = 0 \/ /\ headerSize <= offset /\ offset <= totalSize
           /\ SampleBytes(n) <= Minus(totalSize, offset)

imuMetadataToPy(s, total, h) ==
  /\ size' = s
  /\ imu' = h
  /\ IF s < ImuHeaderSize
     THEN phase' = "error" /\ UNCHANGED read
     ELSE /\ read' = [lo |-> 0, hi |-> ImuHeaderSize]
          /\ phase' = IF /\ ImuHeaderSize <= h.headerSize
                         /\ h.headerSize <= total
                         /\ total = s
                         /\ validateImuSampleRange(h.headerSize, total,
                                                   h.gyroOffset, h.gyroCount)
                         /\ validateImuSampleRange(h.headerSize, total,
                                                   h.accOffset, h.accCount)
                      THEN "gyro" ELSE "error"
  /\ UNCHANGED <<count, off, i, seen, out>>

GetImu ==
  /\ phase = "idle"
  /\ \E s, total, hs, go, gc, ao, ac \in ImuWords :
       imuMetadataToPy(s, total, [headerSize |-> hs, gyroOffset |-> go,
                       gyroCount |-> gc, accOffset |-> ao, accCount |-> ac])

(* imuSamplesToPy, one sample a step: data + offset + i * sizeof(ImuSample)*)
ReadSample(section, offset, n) ==
  /\ phase = section
  /\ i < n
  /\ read' = [lo |-> offset + i * SampleSize, hi |-> offset + (i + 1) * SampleSize]
  /\ i' = i + 1
  /\ UNCHANGED <<phase, size, count, off, seen, out, imu>>

ReadGyroSample == ReadSample("gyro", imu.gyroOffset, imu.gyroCount)
ReadAccSample  == ReadSample("acc", imu.accOffset, imu.accCount)

EndSection(section, n, next) ==
  /\ phase = section
  /\ i = n
  /\ phase' = next
  /\ i' = 0
  /\ UNCHANGED <<size, count, off, seen, out, read, imu>>

EndGyro == EndSection("gyro", imu.gyroCount, "acc")
EndAcc  == EndSection("acc", imu.accCount, "done")

(* The call returns its result or raises value_error.                      *)
Return ==
  /\ phase \in {"done", "error"}
  /\ phase' = "idle" /\ size' = 0 /\ count' = 0 /\ off' = 0 /\ i' = 0
  /\ seen' = <<>> /\ out' = <<>> /\ read' = NoRead /\ imu' = NoImu

-----------------------------------------------------------------------------

Next ==
  \/ ReadNothing
  \/ GetItems
  \/ \E type \in Types, sz \in Word : ValidateItem(type, sz)
  \/ NoRoomForItem \/ EndValidation \/ ExtractItem \/ EndExtraction
  \/ GetImu
  \/ ReadGyroSample \/ ReadAccSample \/ EndGyro \/ EndAcc
  \/ Return

Spec == Init /\ [][Next]_vars

-----------------------------------------------------------------------------

(* The types of the state: offsets and sizes are words.                    *)
TypeOK ==
  /\ phase \in Phases
  /\ size \in Word
  /\ count \in Nat
  /\ off \in Word
  /\ i \in Nat
  /\ seen \in Seq(Item)
  /\ out \in Seq(Item)
  /\ read \in [lo : Nat, hi : Nat]
  /\ imu \in Imu

(* No read of the header, an item, an item's bytes or a sample leaves the  *)
(* block, although the second walk and the sample loops check nothing.     *)
ReadsInBounds == read.lo <= read.hi /\ read.hi <= size

(* The second walk returns the items that validation accepted, in order:   *)
(* it never lands between two items.                                       *)
ExtractsValidatedItems ==
  /\ Len(out) <= Len(seen)
  /\ \A k \in DOMAIN out : out[k] = seen[k]

(* A block is accepted only if its items cover it exactly.                 *)
WalkEndsAtBlockEnd ==
  (phase = "extract" /\ i = count) => off = size

(* The samples of an IMU block lie behind its header.                      *)
SamplesBehindHeader ==
  (phase \in {"gyro", "acc"} /\ i > 0) => read.lo >= imu.headerSize
=============================================================================
