------------------------ MODULE PlaneGeometryProofs ------------------------
(***************************************************************************)
(* Proofs about PlaneGeometry, for frames of every size and every padding: *)
(* the strides, addresses and shapes that VideoFramePlaneView derives are  *)
(* compared, format by format, with where the pixels are; the state machine*)
(* then adds one row at a time.                                            *)
(***************************************************************************)
EXTENDS PlaneGeometry, SequenceTheorems, TLAPS

(* What a producer can deliver: a stride is not reported, or has room for  *)
(* the row.                                                                *)
FrameOK(f) ==
  /\ f.format \in Formats
  /\ f.width \in Nat \ {0} /\ f.height \in Nat \ {0} /\ f.extra \in Nat
  /\ \A p \in 0 .. 2 : f.stride[p] \in Nat
  /\ \A p \in 0 .. 2 :
       f.stride[p] > 0 => f.stride[p] >= PixelRowBytes(f.format, f.width, p)

(* A row of any plane has at least one byte.                               *)
LEMMA RowHasBytes ==
  ASSUME NEW fmt \in Formats, NEW w \in Nat \ {0}, NEW p \in 0 .. 2
  PROVE  PixelRowBytes(fmt, w, p) \in Nat \ {0}
<1>1. CASE p > 0 /\ fmt \in HalfWide
  <2>1. divideRoundUp(w, 2) \in Nat \ {0}  BY DEF divideRoundUp
  <2>2. CASE fmt \in SemiPlanar
    <3>1. PixelRowBytes(fmt, w, p) = divideRoundUp(w, 2) * 2
      BY <1>1, <2>2 DEF PixelRowBytes
    <3> QED  BY <2>1, <3>1
  <2>3. CASE fmt \notin SemiPlanar
    <3>1. PixelRowBytes(fmt, w, p) = divideRoundUp(w, 2) * 1
      BY <1>1, <2>3 DEF PixelRowBytes
    <3> QED  BY <2>1, <3>1
  <2> QED  BY <2>2, <2>3
<1>2. CASE ~(p > 0 /\ fmt \in HalfWide)
  <2>1. PixelRowBytes(fmt, w, p) = w * PixelBytes(fmt)  BY <1>2 DEF PixelRowBytes
  <2>2. PixelBytes(fmt) \in {1, 2, 3, 4}  BY DEF PixelBytes
  <2> QED  BY <2>1, <2>2
<1> QED  BY <1>1, <1>2

(* The frames of one format and width.                                     *)
FramesOf(fmt, w) ==
  [format : {fmt}, width : {w}, height : Heights, extra : ExtraRows,
   given : SUBSET (Planes(fmt) \ {0}), stride : Strides(fmt, w)]

(* The frames of the model are such frames.                                *)
LEMMA FramesOK == ASSUME NEW f \in Frames PROVE FrameOK(f)
<1>1. PICK fmt \in Formats, w \in Widths : f \in FramesOf(fmt, w)
  <2>1. Frames = UNION {FramesOf(fmt, w) : fmt \in Formats, w \in Widths}
    BY DEF Frames, FramesOf
  <2>2. PICK S \in {FramesOf(fmt, w) : fmt \in Formats, w \in Widths} : f \in S
    BY <2>1
  <2>3. PICK fmt \in Formats, w \in Widths : S = FramesOf(fmt, w)  BY <2>2
  <2> QED  BY <2>2, <2>3
<1>2. /\ f.format = fmt /\ f.width = w /\ f.height \in Heights /\ f.extra \in ExtraRows
      /\ f.stride \in Strides(fmt, w)
  BY <1>1 DEF FramesOf
<1>3. w \in Nat \ {0} /\ f.height \in Nat \ {0} /\ f.extra \in Nat
  BY <1>2, ConstantsAssumption DEF ConstantsAssumption
<1>4. PICK reported \in SUBSET Planes(fmt), pads \in [0 .. 2 -> Pads] :
        f.stride = [p \in 0 .. 2 |-> IF p \in reported
                                    THEN PixelRowBytes(fmt, w, p) + pads[p] ELSE 0]
  <2> DEFINE st(reported, pads) ==
        [p \in 0 .. 2 |-> IF p \in reported THEN PixelRowBytes(fmt, w, p) + pads[p] ELSE 0]
  <2>1. f.stride \in {st(reported, pads) : reported \in SUBSET Planes(fmt),
                                         pads \in [0 .. 2 -> Pads]}
    BY <1>2 DEF Strides
  <2> HIDE DEF st
  <2>2. PICK reported \in SUBSET Planes(fmt), pads \in [0 .. 2 -> Pads] :
          f.stride = st(reported, pads)
    BY <2>1
  <2> QED  BY <2>2 DEF st
<1>5. ASSUME NEW p \in 0 .. 2
      PROVE  f.stride[p] \in Nat /\ (f.stride[p] > 0 => f.stride[p] >= PixelRowBytes(fmt, w, p))
  <2>1. f.stride[p] = IF p \in reported THEN PixelRowBytes(fmt, w, p) + pads[p] ELSE 0
    BY <1>4
  <2>2. PixelRowBytes(fmt, w, p) \in Nat \ {0}  BY <1>3, RowHasBytes
  <2>3. pads[p] \in Nat  BY ConstantsAssumption DEF ConstantsAssumption
  <2> QED  BY <2>1, <2>2, <2>3
<1> QED  BY <1>2, <1>3, <1>5 DEF FrameOK

(* Strides and addresses are numbers.                                      *)
LEMMA StoredNat ==
  ASSUME NEW f, FrameOK(f), NEW p \in 0 .. 2
  PROVE  StoredStride(f, p) \in Nat \ {0} /\ StoredAt(f, p) \in Nat
<1>1. \A q \in 0 .. 2 : StoredStride(f, q) \in Nat \ {0}
  <2> TAKE q \in 0 .. 2
  <2>1. PixelRowBytes(f.format, f.width, q) \in Nat \ {0}  BY RowHasBytes DEF FrameOK
  <2>2. f.stride[q] \in Nat /\ f.stride[0] \in Nat  BY DEF FrameOK
  <2> QED  BY <2>1, <2>2 DEF StoredStride
<1>2. \A q \in 0 .. 2 : PixelRows(f.format, f.height, q) + f.extra \in Nat
  BY DEF FrameOK, PixelRows, divideRoundUp
<1>3. \A q \in 0 .. 2 : PlaneBytes(f, q) \in Nat
  <2> TAKE q \in 0 .. 2
  <2>1. \A m, n \in Nat : m * n \in Nat  OBVIOUS
  <2> QED  BY <1>1, <1>2, <2>1 DEF PlaneBytes
<1> HIDE DEF PlaneBytes
<1>4. CASE p = 0  BY <1>1, <1>4 DEF StoredAt
<1>5. CASE p = 1  BY <1>1, <1>3, <1>5 DEF StoredAt
<1>6. CASE p = 2  BY <1>1, <1>3, <1>6 DEF StoredAt
<1> QED  BY <1>4, <1>5, <1>6

(* The stride of a plane is a number too.                                  *)
LEMMA StrideNat ==
  ASSUME NEW f, FrameOK(f), NEW p \in 0 .. 2
  PROVE  PlaneStride(f, p) \in Nat
<1>1. defaultPackedStride(f.format, f.width) \in Nat
  BY DEF FrameOK, defaultPackedStride
<1>2. CASE p = 0  BY <1>1, <1>2 DEF FrameOK, PlaneStride, defaultPlaneStride
<1>3. CASE p > 0 /\ f.format \in SemiPlanar
  <2>1. defaultPlaneStride(f, p) = IF f.stride[0] > 0 THEN f.stride[0] ELSE f.width
    BY <1>3
    DEF defaultPlaneStride, SemiPlanar, Planar420, Planar422, Planar444
  <2> QED  BY <2>1 DEF FrameOK, PlaneStride
<1>4. CASE p > 0 /\ f.format \notin SemiPlanar
  BY <1>4 DEF FrameOK, PlaneStride, defaultPlaneStride, SemiPlanar, Planar420,
    Planar422, Planar444
<1> QED  BY <1>2, <1>3, <1>4

(* Semi-planar luma has rows of the width, chroma of twice half of it.     *)
LEMMA SemiPlanarRows ==
  ASSUME NEW f, FrameOK(f), f.format \in SemiPlanar
  PROVE  /\ PixelRowBytes(f.format, f.width, 0) = f.width
         /\ PixelRowBytes(f.format, f.width, 1) = divideRoundUp(f.width, 2) * 2
         /\ f.width <= divideRoundUp(f.width, 2) * 2
         /\ divideRoundUp(f.width, 2) * 2 <= f.width + 1
         /\ f.width % 2 = 0 => divideRoundUp(f.width, 2) * 2 = f.width
         /\ f.width % 2 \in {0, 1}
<1>1. f.width \in Nat \ {0}  BY DEF FrameOK
<1>2. PixelRowBytes(f.format, f.width, 0) = f.width
  BY <1>1 DEF PixelRowBytes, PixelBytes, SemiPlanar
<1>3. PixelRowBytes(f.format, f.width, 1) = divideRoundUp(f.width, 2) * 2
  BY DEF PixelRowBytes, HalfWide
<1> QED  BY <1>1, <1>2, <1>3 DEF divideRoundUp

(* Unless its default is loose, a plane's stride is the producer's; a loose*)
(* default is smaller.                                                     *)
LEMMA StrideIsStored ==
  ASSUME NEW f, FrameOK(f), NEW p \in ViewPlanes(f.format)
  PROVE  /\ ~LooseDefault(f, p) => PlaneStride(f, p) = StoredStride(f, p)
         /\ PlaneStride(f, p) <= StoredStride(f, p)
<1> USE DEF FrameOK
<1> DEFINE bytes == PixelRowBytes(f.format, f.width, p)
<1>0. p \in 0 .. 2 /\ bytes \in Nat \ {0}  BY RowHasBytes DEF ViewPlanes
<1> HIDE DEF bytes
<1>1. CASE f.stride[p] > 0
  <2>1. PlaneStride(f, p) = f.stride[p]  BY <1>1 DEF PlaneStride
  <2>2. StoredStride(f, p) = f.stride[p]  BY <1>1 DEF StoredStride
  <2> QED  BY <1>0, <2>1, <2>2
<1>2. CASE f.stride[p] = 0
  <2>1. PlaneStride(f, p) = defaultPlaneStride(f, p)  BY <1>2 DEF PlaneStride
  <2>2. ~(p = 1 /\ f.format \in SemiPlanar) => StoredStride(f, p) = bytes
    BY <1>2 DEF StoredStride, bytes
  <2>4. CASE p = 0
    <3>1. PlaneStride(f, p) = defaultPackedStride(f.format, f.width)
      BY <2>1, <2>4 DEF defaultPlaneStride
    <3>2. bytes = f.width * PixelBytes(f.format)  BY <2>4 DEF bytes, PixelRowBytes
    <3>3. /\ f.format \notin {"C16", "RGB565"} =>
               defaultPackedStride(f.format, f.width) = f.width * PixelBytes(f.format)
          /\ defaultPackedStride(f.format, f.width) <= f.width * PixelBytes(f.format)
      BY DEF defaultPackedStride, PixelBytes, Formats, Packed, Fallback, Planar, SemiPlanar,
        Planar420, Planar422, Planar444
    <3> QED  BY <1>2, <2>2, <2>4, <3>1, <3>2, <3>3 DEF LooseDefault
  <2>5. CASE p = 1 /\ f.format \in SemiPlanar
    <3>1. PlaneStride(f, p) = IF f.stride[0] > 0 THEN f.stride[0] ELSE f.width
      BY <2>1, <2>5 DEF defaultPlaneStride, SemiPlanar, Planar420, Planar422, Planar444
    <3>2. StoredStride(f, p) = IF f.stride[0] > bytes THEN f.stride[0] ELSE bytes
      BY <1>2, <2>5 DEF StoredStride, bytes
    <3>3. /\ bytes = divideRoundUp(f.width, 2) * 2 /\ f.width <= bytes /\ bytes <= f.width + 1
          /\ f.width % 2 = 0 => bytes = f.width
          /\ f.width % 2 \in {0, 1}
          /\ f.stride[0] > 0 => f.stride[0] >= f.width
      BY <2>5, SemiPlanarRows DEF bytes
    <3>4. ~LooseDefault(f, p) => f.width % 2 # 1 \/ f.stride[0] > f.width
      BY <1>2, <2>5 DEF LooseDefault, HalfWide
    <3> QED  BY <1>0, <3>1, <3>2, <3>3, <3>4
  <2>6. CASE p > 0 /\ f.format \in Planar420 \cup Planar422
    <3>2. f.format \notin SemiPlanar  BY <2>6 DEF SemiPlanar, Planar420, Planar422
    <3>1. ~LooseDefault(f, p) => f.width % 2 # 1
      BY <1>2, <2>6, <3>2 DEF LooseDefault, HalfWide
    <3>3. PlaneStride(f, p) = f.width \div 2
      BY <1>0, <2>1, <2>6, <3>2
      DEF defaultPlaneStride, SemiPlanar, Planar420, Planar422, Planar444
    <3>4. bytes = divideRoundUp(f.width, 2) * 1
      BY <2>6, <3>2 DEF bytes, PixelRowBytes, HalfWide
    <3>5. /\ \A n \in Nat : n % 2 # 1 => n \div 2 = (n + 1) \div 2
          /\ \A n \in Nat : n \div 2 <= (n + 1) \div 2
      OBVIOUS
    <3>6. divideRoundUp(f.width, 2) = (f.width + 1) \div 2  BY DEF divideRoundUp
    <3> QED  BY <1>0, <2>2, <3>1, <3>2, <3>3, <3>4, <3>5, <3>6
  <2>7. CASE p > 0 /\ f.format \in Planar444
    <3>1. PlaneStride(f, p) = f.width
      BY <2>1, <2>7 DEF defaultPlaneStride, SemiPlanar, Planar420, Planar422, Planar444
    <3>2. f.format \notin SemiPlanar /\ bytes = f.width
      BY <2>7 DEF bytes, PixelRowBytes, PixelBytes, HalfWide, SemiPlanar,
        Planar420, Planar422, Planar444
    <3> QED  BY <2>2, <3>1, <3>2
  <2>8. p = 0 \/ (p = 1 /\ f.format \in SemiPlanar)
          \/ (p > 0 /\ f.format \in Planar420 \cup Planar422 \cup Planar444)
    BY <1>0 DEF ViewPlanes, Planar
  <2> QED  BY <2>4, <2>5, <2>6, <2>7, <2>8
<1>3. f.stride[p] \in Nat  BY <1>0
<1> QED  BY <1>1, <1>2, <1>3

(* Two numbers and their products.                                         *)
LEMMA Products ==
  ASSUME NEW m \in Nat, NEW a \in Nat, NEW b \in Nat
  PROVE  /\ a * m \in Nat /\ m * a \in Nat
         /\ a <= b => a * m <= b * m /\ m * a <= m * b
<1>1. a * m \in Nat /\ m * a \in Nat  OBVIOUS
<1>2. ASSUME a <= b PROVE a * m <= b * m /\ m * a <= m * b
  <2>1. PICK d \in Nat : b = a + d
    <3>1. b - a \in Nat /\ b = a + (b - a)  BY <1>2
    <3> QED  BY <3>1
  <2>2. b * m = a * m + d * m /\ m * b = m * a + m * d  BY <2>1
  <2>3. d * m \in Nat /\ m * d \in Nat /\ a * m \in Nat /\ m * a \in Nat  OBVIOUS
  <2> QED  BY <2>2, <2>3
<1> QED  BY <1>1, <1>2

(* The address of a plane that can be viewed is the producer's, unless it  *)
(* is loose; it is behind it only when chroma is looked for too far.       *)
LEMMA AddressIsStored ==
  ASSUME NEW f, FrameOK(f), NEW p \in 0 .. 2, Viewable(f, p)
  PROVE  /\ planeAddress(f, p) \in Nat
         /\ (p = 1 => ~LooseAddress(f)) => planeAddress(f, p) = StoredAt(f, p)
         /\ (p = 1 => ~ChromaTooFar(f)) => planeAddress(f, p) <= StoredAt(f, p)
<1>0. StoredAt(f, p) \in Nat  BY StoredNat
<1>1. CASE p \in f.given \cup {0}  BY <1>0, <1>1 DEF planeAddress
<1>2. CASE p \notin f.given \cup {0}
  <2> DEFINE h == f.height
             e == f.extra
             w == f.width
             s == StoredStride(f, 0)
             t == IF f.stride[0] > 0 THEN f.stride[0] ELSE PlaneStride(f, 1)
  <2>1. p = 1 /\ f.format \in SemiPlanar /\ 1 \notin f.given
    BY <1>2 DEF Viewable, HasAddress
  <2>2. StoredAt(f, p) = s * (h + e)
    BY <2>1 DEF StoredAt, PlaneBytes, PixelRows
  <2>3. planeAddress(f, p) = t * h  BY <1>2, <2>1 DEF planeAddress
  <2>4. h \in Nat /\ e \in Nat /\ w \in Nat /\ s \in Nat /\ t \in Nat
    BY StoredNat, StrideNat DEF FrameOK
  <2>5. t = s \/ (t > s /\ ChromaTooFar(f))
    <3>1. CASE f.stride[0] > 0  BY <3>1 DEF StoredStride
    <3>2. CASE f.stride[0] = 0
      <4>1. s = w
        BY <2>1, <3>2, SemiPlanarRows DEF StoredStride
      <4>2. CASE f.stride[1] = 0
        <5>1. defaultPlaneStride(f, 1) = w
          BY <2>1, <3>2 DEF defaultPlaneStride, SemiPlanar, Planar420, Planar422, Planar444
        <5> QED  BY <3>2, <4>1, <4>2, <5>1 DEF PlaneStride
      <4>3. CASE f.stride[1] > 0
        <5>1. t = f.stride[1]  BY <3>2, <4>3 DEF PlaneStride
        <5>2. f.stride[1] >= w
          <6>1. f.stride[1] >= PixelRowBytes(f.format, f.width, 1)  BY <4>3 DEF FrameOK
          <6>2. PixelRowBytes(f.format, f.width, 1) = divideRoundUp(w, 2) * 2
                /\ w <= divideRoundUp(w, 2) * 2 /\ divideRoundUp(w, 2) * 2 <= w + 1
            BY <2>1, SemiPlanarRows
          <6>3. divideRoundUp(w, 2) \in Nat  BY <2>4 DEF divideRoundUp
          <6>4. f.stride[1] \in Nat  BY DEF FrameOK
          <6> QED  BY <2>4, <6>1, <6>2, <6>3, <6>4
        <5>3. f.stride[1] > w => ChromaTooFar(f)  BY <2>1, <3>2 DEF ChromaTooFar
        <5>4. f.stride[1] \in Nat  BY DEF FrameOK
        <5> QED  BY <2>4, <4>1, <5>1, <5>2, <5>3, <5>4
      <4> QED  BY <4>2, <4>3 DEF FrameOK
    <3> QED  BY <3>1, <3>2 DEF FrameOK
  <2>6. ~ChromaTooNear(f) => e = 0  BY <2>1, <2>4 DEF ChromaTooNear
  <2> HIDE DEF h, e, w, s, t
  <2>7. t * h \in Nat /\ s * (h + 0) = s * h  BY <2>4, Products
  <2>8. s * h <= s * (h + e)
    <3>1. h + e \in Nat /\ h <= h + e  BY <2>4
    <3> QED  BY <2>4, <3>1, Products
  <2>9. ~ChromaTooFar(f) => planeAddress(f, p) <= StoredAt(f, p)
    BY <2>2, <2>3, <2>5, <2>8
  <2>10. ~LooseAddress(f) => planeAddress(f, p) = StoredAt(f, p)
    BY <2>2, <2>3, <2>5, <2>6, <2>7 DEF LooseAddress
  <2> QED  BY <2>1, <2>3, <2>7, <2>9, <2>10
<1> QED  BY <1>1, <1>2

(* What a row of a view with three, or two, dimensions is.                 *)
RowsOf(f, p, n, bytes) ==
  LET v == NewView(f, p)
  IN /\ v.at = planeAddress(f, p) /\ v.strides[1] = PlaneStride(f, p)
     /\ v.shape[1] = n /\ v.item \in {1, 2} /\ v # NoView
     /\ rowBytes(v) = bytes
     /\ \A r \in Nat : LastElement(v, r) = r * PlaneStride(f, p) + bytes - v.item

(* A view of pixels with several bytes.                                    *)
LEMMA DeepRows ==
  ASSUME NEW f, FrameOK(f), NEW p \in 0 .. 2, ItemSize(f) = 1,
         NEW n \in Nat, NEW m \in Nat, NEW c \in {2, 3, 4}, Shape(f, p) = <<n, m, c>>
  PROVE  RowsOf(f, p, n, m * c)
<1> DEFINE v == NewView(f, p)
           s == PlaneStride(f, p)
<1>1. v = [item |-> 1, shape |-> <<n, m, c>>, at |-> planeAddress(f, p),
           strides |-> <<s, c, 1>>]
  BY DEF NewView
<1>2. s \in Nat  BY StrideNat
<1> HIDE DEF v, s
<1>3. Len(v.shape) = 3 /\ v.shape[2] = m /\ v.shape[3] = c /\ v.item = 1
  BY <1>1
<1>4. rowBytes(v) = m * c
  <2>1. rowBytes(v) = m * c * 1  BY <1>3 DEF rowBytes
  <2>2. CASE c = 2  BY <2>1, <2>2
  <2>3. CASE c = 3  BY <2>1, <2>3
  <2>4. CASE c = 4  BY <2>1, <2>4
  <2> QED  BY <2>2, <2>3, <2>4
<1>5. ASSUME NEW r \in Nat PROVE LastElement(v, r) = r * s + m * c - v.item
  <2>1. LastElement(v, r) = r * s + (m - 1) * c + (c - 1) * 1
    BY <1>1, <1>3 DEF LastElement
  <2>2. r * s \in Nat  BY <1>2
  <2>3. CASE c = 2  BY <1>3, <2>1, <2>2, <2>3
  <2>4. CASE c = 3  BY <1>3, <2>1, <2>2, <2>4
  <2>5. CASE c = 4  BY <1>3, <2>1, <2>2, <2>5
  <2> QED  BY <2>3, <2>4, <2>5
<1>6. v # NoView  BY <1>1 DEF NoView
<1> QED  BY <1>1, <1>4, <1>5, <1>6 DEF RowsOf, v, s

(* A view of items of one or two bytes.                                    *)
LEMMA FlatRows ==
  ASSUME NEW f, FrameOK(f), NEW p \in 0 .. 2,
         NEW n \in Nat, NEW m \in Nat, Shape(f, p) = <<n, m>>
  PROVE  RowsOf(f, p, n, m * ItemSize(f))
<1> DEFINE v == NewView(f, p)
           s == PlaneStride(f, p)
           i == ItemSize(f)
<1>1. v = [item |-> i, shape |-> <<n, m>>, at |-> planeAddress(f, p),
           strides |-> <<s, i>>]
  BY DEF NewView
<1>2. s \in Nat  BY StrideNat
<1>3. i \in {1, 2}  BY DEF ItemSize
<1> HIDE DEF v, s, i
<1>4. Len(v.shape) = 2 /\ v.shape[2] = m /\ v.item = i  BY <1>1
<1>5. rowBytes(v) = m * i  BY <1>4 DEF rowBytes
<1>6. ASSUME NEW r \in Nat PROVE LastElement(v, r) = r * s + m * i - v.item
  <2>1. LastElement(v, r) = r * s + (m - 1) * i  BY <1>1, <1>4 DEF LastElement
  <2>2. r * s \in Nat  BY <1>2
  <2>3. CASE i = 1  BY <1>4, <2>1, <2>2, <2>3
  <2>4. CASE i = 2  BY <1>4, <2>1, <2>2, <2>4
  <2> QED  BY <1>3, <2>3, <2>4
<1>7. v # NoView  BY <1>1, <1>3 DEF NoView
<1>8. v.at = planeAddress(f, p) /\ v.strides[1] = s /\ v.shape[1] = n /\ v.item \in {1, 2}
  BY <1>1, <1>3
<1> QED  BY <1>5, <1>6, <1>7, <1>8 DEF RowsOf, v, s, i

(* A view has no more rows than the plane, and no more bytes in a row than *)
(* its pixels; where it has less the dump, which wants all, gives up.      *)
Fits(f, p) ==
  \E n, bytes \in Nat :
    /\ RowsOf(f, p, n, bytes)
    /\ bytes <= PixelRowBytes(f.format, f.width, p)
    /\ n <= PixelRows(f.format, f.height, p)
    /\ ~(f.format = "NV12" /\ f.width % 2 = 1) /\ bytes >= DumpRowBytes(f, p) =>
            DumpRowBytes(f, p) = PixelRowBytes(f.format, f.width, p)

(* The row views of every format fit.                                      *)
LEMMA ViewsFit ==
  ASSUME NEW f, FrameOK(f), NEW p \in ViewPlanes(f.format)
  PROVE  Fits(f, p)
<1> DEFINE h == f.height
           w == f.width
           fmt == f.format
<1>0. /\ p \in 0 .. 2 /\ fmt \in Formats /\ w \in Nat \ {0} /\ h \in Nat \ {0}
      /\ divideRoundUp(h, 2) \in Nat /\ divideRoundUp(w, 2) \in Nat /\ w \div 2 \in Nat
      /\ divideRoundUp(w, 2) = (w + 1) \div 2
  BY DEF FrameOK, ViewPlanes, divideRoundUp
<1>20. PixelRows(fmt, h, p) =
         IF p > 0 /\ fmt \in {"NV12", "YUV420P"} THEN divideRoundUp(h, 2) ELSE h
  BY DEF PixelRows, HalfHigh
<1> USE DEF SemiPlanar, Planar420, Planar422, Planar444
<1>1. CASE fmt = "RGB888"
  <2>1. Shape(f, p) = <<h, w, 3>> /\ ItemSize(f) = 1  BY <1>1 DEF Shape, ItemSize
  <2>2. RowsOf(f, p, h, w * 3)  BY <1>0, <2>1, DeepRows
  <2>3. PixelRowBytes(fmt, w, p) = w * 3 /\ DumpRowBytes(f, p) = w * 3
    BY <1>1 DEF PixelRowBytes, HalfWide, PixelBytes, DumpRowBytes
  <2> QED  BY <1>0, <1>20, <1>1, <2>2, <2>3 DEF Fits
<1>2. CASE fmt = "RGBA8888"
  <2>1. Shape(f, p) = <<h, w, 4>> /\ ItemSize(f) = 1  BY <1>2 DEF Shape, ItemSize
  <2>2. RowsOf(f, p, h, w * 4)  BY <1>0, <2>1, DeepRows
  <2>3. PixelRowBytes(fmt, w, p) = w * 4 /\ DumpRowBytes(f, p) = w * 4
    BY <1>2 DEF PixelRowBytes, HalfWide, PixelBytes, DumpRowBytes
  <2> QED  BY <1>0, <1>20, <1>2, <2>2, <2>3 DEF Fits
<1>3. CASE fmt = "YUYV422"
  <2>1. Shape(f, p) = <<h, w, 2>> /\ ItemSize(f) = 1  BY <1>3 DEF Shape, ItemSize
  <2>2. RowsOf(f, p, h, w * 2)  BY <1>0, <2>1, DeepRows
  <2>3. PixelRowBytes(fmt, w, p) = w * 2 /\ DumpRowBytes(f, p) = w * 2
    BY <1>3 DEF PixelRowBytes, HalfWide, PixelBytes, DumpRowBytes
  <2> QED  BY <1>0, <1>20, <1>3, <2>2, <2>3 DEF Fits
<1>4. CASE fmt = "NV12" /\ p = 1
  <2>1. Shape(f, p) = <<divideRoundUp(h, 2), divideRoundUp(w, 2), 2>> /\ ItemSize(f) = 1
    BY <1>4 DEF Shape, ItemSize
  <2>2. RowsOf(f, p, divideRoundUp(h, 2), divideRoundUp(w, 2) * 2)
    BY <1>0, <2>1, DeepRows
  <2>3. PixelRowBytes(fmt, w, p) = divideRoundUp(w, 2) * 2 /\ DumpRowBytes(f, p) = w
    BY <1>4 DEF PixelRowBytes, HalfWide, DumpRowBytes
  <2>4. w % 2 # 1 => divideRoundUp(w, 2) * 2 = w
    <3>1. \A n \in Nat : n % 2 # 1 => ((n + 1) \div 2) * 2 = n  OBVIOUS
    <3> QED  BY <1>0, <3>1
  <2> QED  BY <1>0, <1>20, <1>4, <2>2, <2>3, <2>4 DEF Fits
<1>5. CASE fmt = "NV16" /\ p = 1
  <2>1. Shape(f, p) = <<h, w \div 2, 2>> /\ ItemSize(f) = 1
    BY <1>5 DEF Shape, ItemSize
  <2>2. RowsOf(f, p, h, (w \div 2) * 2)  BY <1>0, <2>1, DeepRows
  <2>3. PixelRowBytes(fmt, w, p) = divideRoundUp(w, 2) * 2 /\ DumpRowBytes(f, p) = w
    BY <1>5 DEF PixelRowBytes, HalfWide, DumpRowBytes
  <2>4. /\ (w \div 2) * 2 \in Nat /\ (w \div 2) * 2 <= divideRoundUp(w, 2) * 2
        /\ (w \div 2) * 2 >= w => divideRoundUp(w, 2) * 2 = w
    BY <1>0
  <2> QED  BY <1>0, <1>20, <1>5, <2>2, <2>3, <2>4 DEF Fits
<1>6. CASE fmt = "YUV420P" /\ p > 0
  <2>1. Shape(f, p) = <<divideRoundUp(h, 2), divideRoundUp(w, 2)>> /\ ItemSize(f) = 1
    BY <1>6 DEF Shape, ItemSize
  <2>2. RowsOf(f, p, divideRoundUp(h, 2), divideRoundUp(w, 2))
    BY <1>0, <2>1, FlatRows
  <2>3. /\ PixelRowBytes(fmt, w, p) = divideRoundUp(w, 2)
        /\ DumpRowBytes(f, p) = (w + 1) \div 2
    BY <1>0, <1>6 DEF PixelRowBytes, HalfWide, DumpRowBytes
  <2> QED  BY <1>0, <1>20, <1>6, <2>2, <2>3 DEF Fits
<1>7. CASE fmt = "YUV422P" /\ p > 0
  <2>1. Shape(f, p) = <<h, divideRoundUp(w, 2)>> /\ ItemSize(f) = 1
    BY <1>7 DEF Shape, ItemSize
  <2>2. RowsOf(f, p, h, divideRoundUp(w, 2))  BY <1>0, <2>1, FlatRows
  <2>3. /\ PixelRowBytes(fmt, w, p) = divideRoundUp(w, 2)
        /\ DumpRowBytes(f, p) = (w + 1) \div 2
    BY <1>0, <1>7 DEF PixelRowBytes, HalfWide, DumpRowBytes
  <2> QED  BY <1>0, <1>20, <1>7, <2>2, <2>3 DEF Fits
<1>8. CASE \/ fmt \in HalfWide /\ p = 0
           \/ fmt \in {"YUV444P", "YUV400", "C16", "RGB565", "RGBPlanar", "other"}
  <2>1. Shape(f, p) = <<h, w>>  BY <1>8 DEF Shape, HalfWide
  <2>2. RowsOf(f, p, h, w * ItemSize(f))  BY <1>0, <2>1, FlatRows
  <2>3. PixelRowBytes(fmt, w, p) = w * PixelBytes(fmt)
    BY <1>8 DEF PixelRowBytes, HalfWide
  <2>4. CASE fmt = "C16"
    <3>1. ItemSize(f) = 2 /\ PixelBytes(fmt) = 2 /\ DumpRowBytes(f, p) = w * 2
      BY <2>4 DEF ItemSize, PixelBytes, DumpRowBytes
    <3> QED  BY <1>0, <1>20, <1>8, <2>2, <2>3, <3>1 DEF Fits, HalfWide
  <2>5. CASE fmt = "RGB565"
    <3>1. ItemSize(f) = 1 /\ PixelBytes(fmt) = 2 /\ DumpRowBytes(f, p) = w * 2
      BY <2>5 DEF ItemSize, PixelBytes, DumpRowBytes
    <3> QED  BY <1>0, <1>20, <1>8, <2>2, <2>3, <3>1 DEF Fits, HalfWide
  <2>6. CASE fmt \notin {"C16", "RGB565"}
    <3>1. ItemSize(f) = 1 /\ PixelBytes(fmt) = 1 /\ DumpRowBytes(f, p) = w
      BY <1>8, <2>6 DEF ItemSize, PixelBytes, DumpRowBytes, HalfWide
    <3> QED  BY <1>0, <1>20, <1>8, <2>2, <2>3, <3>1 DEF Fits, HalfWide
  <2> QED  BY <2>4, <2>5, <2>6
<1> QED
  BY <1>0, <1>1, <1>2, <1>3, <1>4, <1>5, <1>6, <1>7, <1>8
  DEF Formats, Packed, Fallback, Planar, HalfWide, ViewPlanes

-----------------------------------------------------------------------------
(* The rows of the planes before plane p.                                  *)
RowsBefore(f, p) ==
  CASE p = 0 -> 0
    [] p = 1 -> RowCount(f, 0)
    [] p = 2 -> RowCount(f, 0) + RowCount(f, 1)
    [] p = 3 -> RowCount(f, 0) + RowCount(f, 1) + RowCount(f, 2)

(* The view in use is the one of the frame's plane.                        *)
ViewInv ==
  /\ frame \in Frames
  /\ use \in {"none", "rows", "dump", "saved", "failed", "raised"}
  /\ use = "none" => plane = 0 /\ view = NoView /\ row = 0 /\ read = NoRead
  /\ use \in {"rows", "dump"} => plane \in 0 .. 3 /\ row \in Nat
  /\ use = "rows" => /\ Viewable(frame, plane) /\ view = NewView(frame, plane)
                     /\ read # NoRead => /\ read = rowView(view, row)
                                         /\ row < view.shape[1]
  /\ use = "dump" => IF view = NoView THEN row = 0
                     ELSE Viewable(frame, plane) /\ view = NewView(frame, plane)

(* There is no file before a dump, nor after one that failed.              *)
FileInv ==
  /\ file => use \in {"dump", "saved", "raised"}
  /\ use = "raised" => ~Known(frame.format)

(* The dump has written the rows of the planes before its plane, and those *)
(* before its row.                                                         *)
WrittenInv ==
  /\ use \in {"none", "rows"} => written = <<>>
  /\ use = "dump" => Known(frame.format) /\ plane <= DumpPlanes(frame.format)
  /\ use = "dump" => row <= RowCount(frame, plane)
  /\ use = "dump" /\ Clean(frame) =>
       /\ written \in Seq([lo : Nat, hi : Nat])
       /\ Len(written) = RowsBefore(frame, plane) + row
       /\ \A k \in 1 .. Len(written) : written[k] = AllPixels(frame)[k]

(* The view in use stays the one of the frame's plane.                     *)
LEMMA ViewStep == ASSUME ViewInv, [Next]_vars PROVE ViewInv'
<1> USE DEF ViewInv
<1>0. FrameOK(frame)  BY FramesOK
<1>1. ASSUME NEW p \in 0 .. 2, PlaneView(p) PROVE ViewInv'
  BY <1>1 DEF PlaneView
<1>2. ASSUME NEW r \in 0 .. frame.height, RowView(r) PROVE ViewInv'
  BY <1>0, <1>2 DEF RowView, FrameOK
<1>3. CASE DropView  BY <1>3 DEF DropView
<1>4. CASE DumpBytes  BY <1>4 DEF DumpBytes
<1>5. CASE BeginDump  BY <1>5 DEF BeginDump
<1>6. CASE DumpPlane  BY <1>6 DEF DumpPlane, FailDump
<1>7. CASE DumpRow
  <2>1. CASE FailDump  BY <1>7, <2>1 DEF DumpRow, FailDump
  <2>2. CASE ~FailDump  BY <1>7, <2>2 DEF DumpRow
  <2> QED  BY <2>1, <2>2
<1>8. CASE EndPlane
  <2>1. plane \in 0 .. 2  BY <1>8 DEF EndPlane, Viewable, ViewPlanes
  <2> QED  BY <1>8, <2>1 DEF EndPlane
<1>9. CASE EndDump  BY <1>9 DEF EndDump
<1>10. CASE UNCHANGED vars  BY <1>10 DEF vars
<1>11. CASE DumpRaises  BY <1>11 DEF DumpRaises, FailDump
<1> QED
  BY <1>1, <1>2, <1>3, <1>4, <1>5, <1>6, <1>7, <1>8, <1>9, <1>10, <1>11 DEF Next

(* It is so from the start.                                                *)
THEOREM ViewIsOfFrame == Spec => []ViewInv
<1>1. Init => ViewInv  BY DEF Init, ViewInv
<1> QED  BY <1>1, ViewStep, PTL DEF Spec

(* Where the rows of a view are.                                           *)
LEMMA ViewRows ==
  ASSUME NEW f \in Frames, NEW p, Viewable(f, p), NEW r \in Nat
  PROVE  LET v == NewView(f, p)
             x == rowView(v, r)
         IN /\ x = [lo |-> x.lo, hi |-> x.hi] /\ x.lo \in Nat /\ x.hi \in Nat
            /\ v # NoView
            /\ ~LooseDefault(f, p) /\ (p = 1 => ~LooseAddress(f)) =>
                 x.lo = Pixels(f, p, r).lo /\ x.hi <= Pixels(f, p, r).hi
            /\ p \in Planes(f.format)
            /\ (p = 1 => ~ChromaTooFar(f)) /\ r < v.shape[1] => x.hi <= EndOfPlane(f, p)
            /\ \A q \in 0 .. v.shape[1] - 1 :
                 rowView(v, q) = [lo |-> v.at + q * v.strides[1],
                                  hi |-> v.at + LastElement(v, q) + v.item]
            /\ Clean(f) /\ x.hi - x.lo >= DumpRowBytes(f, p) =>
                 DumpRowBytes(f, p) = PixelRowBytes(f.format, f.width, p)
<1> DEFINE v == NewView(f, p)
           x == rowView(v, r)
           s == PlaneStride(f, p)
<1>1. FrameOK(f) /\ p \in ViewPlanes(f.format) /\ p \in 0 .. 2
  BY FramesOK DEF Viewable, ViewPlanes
<1>2. PICK n, b \in Nat :
        /\ RowsOf(f, p, n, b)
        /\ b <= PixelRowBytes(f.format, f.width, p)
        /\ n <= PixelRows(f.format, f.height, p)
        /\ Clean(f) /\ b >= DumpRowBytes(f, p) =>
             DumpRowBytes(f, p) = PixelRowBytes(f.format, f.width, p)
  BY <1>1, ViewsFit DEF Fits, Clean
<1>3. /\ v.at = planeAddress(f, p) /\ v.strides[1] = s /\ v.shape[1] = n
      /\ v.item \in {1, 2} /\ v # NoView /\ rowBytes(v) = b
      /\ \A q \in Nat : LastElement(v, q) = q * s + b - v.item
  BY <1>2 DEF RowsOf
<1>4. v.at = planeAddress(f, p) /\ v.at \in Nat /\ s \in Nat
  BY <1>1, <1>3, AddressIsStored, StrideNat
<1>5. PixelRowBytes(f.format, f.width, p) \in Nat  BY <1>1, RowHasBytes DEF FrameOK
<1> HIDE DEF v, s
<1>6. \A q \in Nat : /\ rowView(v, q) = [lo |-> v.at + q * s, hi |-> v.at + q * s + b]
                     /\ q * s \in Nat
  BY <1>3, <1>4 DEF rowView
<1>7. x = [lo |-> v.at + r * s, hi |-> v.at + r * s + b] /\ r * s \in Nat
  BY <1>6
<1> HIDE DEF x
<1>8. x = [lo |-> x.lo, hi |-> x.hi] /\ x.lo \in Nat /\ x.hi \in Nat /\ x.hi - x.lo = b
  BY <1>4, <1>7
<1>9. ASSUME ~LooseDefault(f, p), p = 1 => ~LooseAddress(f)
      PROVE  x.lo = Pixels(f, p, r).lo /\ x.hi <= Pixels(f, p, r).hi
  <2>0. v.at = StoredAt(f, p)  BY <1>1, <1>4, <1>9, AddressIsStored
  <2>1. s = StoredStride(f, p)  BY <1>1, <1>9, StrideIsStored DEF s
  <2>2. /\ Pixels(f, p, r).lo = v.at + r * s
        /\ Pixels(f, p, r).hi = v.at + r * s + PixelRowBytes(f.format, f.width, p)
    BY <2>0, <2>1 DEF Pixels
  <2> QED  BY <1>2, <1>4, <1>5, <1>7, <2>2
<1>10. ASSUME NEW q \in 0 .. v.shape[1] - 1
       PROVE  rowView(v, q) = [lo |-> v.at + q * v.strides[1],
                               hi |-> v.at + LastElement(v, q) + v.item]
  <2>1. q \in Nat  BY <1>2, <1>3
  <2>2. LastElement(v, q) = q * s + b - v.item /\ q * s \in Nat  BY <1>3, <1>6, <2>1
  <2>3. v.at + LastElement(v, q) + v.item = v.at + q * s + b
    BY <1>2, <1>3, <1>4, <2>2
  <2> QED  BY <1>3, <1>6, <2>1, <2>3
<1>11. p \in Planes(f.format)
  BY <1>1 DEF ViewPlanes, Planes
<1>12. ASSUME p = 1 => ~ChromaTooFar(f), r < n
       PROVE  x.hi <= EndOfPlane(f, p)
  <2> DEFINE S == StoredStride(f, p)
             at == StoredAt(f, p)
             B == PixelRowBytes(f.format, f.width, p)
             R == PixelRows(f.format, f.height, p)
             e == f.extra
  <2>1. S \in Nat /\ at \in Nat /\ v.at <= at  BY <1>1, <1>4, <1>12, StoredNat, AddressIsStored
  <2>2. s <= S  BY <1>1, StrideIsStored DEF s
  <2>3. B \in Nat /\ B <= S
    BY <1>1, <1>5 DEF StoredStride, FrameOK
  <2>4. R \in Nat /\ e \in Nat /\ n <= R
    BY <1>1, <1>2 DEF FrameOK, PixelRows, divideRoundUp
  <2>5. EndOfPlane(f, p) = at + S * (R + e)  BY DEF EndOfPlane, PlaneBytes
  <2> HIDE DEF S, at, B, R, e
  <2>6. r * s <= r * S /\ r * S \in Nat /\ S * r \in Nat  BY <1>4, <2>1, <2>2, Products
  <2>7. S * (r + 1) <= S * (R + e)
    <3>1. r + 1 \in Nat /\ R + e \in Nat /\ r + 1 <= R + e  BY <1>2, <1>12, <2>4
    <3> QED  BY <2>1, <3>1, Products
  <2>8. S * (r + 1) = r * S + S  BY <2>1
  <2>9. S * (R + e) \in Nat
    <3>1. R + e \in Nat  BY <2>4
    <3> QED  BY <2>1, <3>1, Products
  <2>10. b <= S  BY <1>2, <2>1, <2>3 DEF B
  <2>11. x.hi = v.at + r * s + b  BY <1>7
  <2>12. v.at + r * s + b <= at + r * S + S
    BY <1>2, <1>4, <1>7, <2>1, <2>6, <2>10
  <2> QED  BY <1>2, <1>4, <1>7, <2>1, <2>5, <2>6, <2>7, <2>8, <2>9, <2>11, <2>12
<1> QED  BY <1>2, <1>3, <1>8, <1>9, <1>10, <1>11, <1>12 DEF v, x

(* A row view begins at its row of pixels and shows no byte of another row.*)
THEOREM RowsStayInTheirRow == Spec => []RowsArePixelRows
<1>1. ViewInv => RowsArePixelRows
  BY ViewRows DEF ViewInv, RowsArePixelRows
<1> QED  BY <1>1, ViewIsOfFrame, PTL

(* row_view(r) and memoryview(plane)[r] show the same bytes.               *)
THEOREM TwoWaysToRead == Spec => []RowViewIsPlaneRow
<1>1. ViewInv => RowViewIsPlaneRow
  <2> SUFFICES ASSUME ViewInv, use = "rows" PROVE RowViewIsPlaneRow
    BY DEF RowViewIsPlaneRow
  <2>1. Viewable(frame, plane) /\ view = NewView(frame, plane) /\ frame \in Frames
    BY DEF ViewInv
  <2>2. 0 \in Nat  OBVIOUS
  <2> QED  BY <2>1, <2>2, ViewRows DEF RowViewIsPlaneRow
<1> QED  BY <1>1, ViewIsOfFrame, PTL

(* A row view shows no byte behind the frame's memory, for every size,     *)
(* padding and choice of what is reported but the one excluded address.    *)
THEOREM RowsAreInTheFrame == Spec => []RowsStayInFrame
<1>1. ViewInv => RowsStayInFrame
  <2> SUFFICES ASSUME ViewInv, use = "rows", read # NoRead, plane = 1 => ~ChromaTooFar(frame)
               PROVE  \E p \in Planes(frame.format) : read.hi <= EndOfPlane(frame, p)
    BY DEF RowsStayInFrame
  <2>1. /\ Viewable(frame, plane) /\ view = NewView(frame, plane) /\ frame \in Frames
        /\ row \in Nat /\ read = rowView(view, row) /\ row < view.shape[1]
    BY DEF ViewInv
  <2>2. plane \in Planes(frame.format) /\ read.hi <= EndOfPlane(frame, plane)
    BY <2>1, ViewRows
  <2> QED  BY <2>2
<1> QED  BY <1>1, ViewIsOfFrame, PTL

-----------------------------------------------------------------------------
(* What the dump takes for the number of rows of a plane is that number.   *)
LEMMA DumpCountsRows ==
  ASSUME NEW f \in Frames, Known(f.format), NEW p \in 0 .. 2,
         p < DumpPlanes(f.format)
  PROVE  DumpRows(f, p) = RowCount(f, p)
<1>1. f.format \in Formats /\ f.height \in Nat  BY FramesOK DEF FrameOK
<1>2. p \in Planes(f.format)
  BY <1>1 DEF Planes, DumpPlanes, SemiPlanar, Planar, Planar420, Planar422, Planar444
<1> QED
  BY <1>1, <1>2 DEF RowCount, PixelRows, DumpRows, HalfHigh, Planar420, divideRoundUp

(* Planes that the dump does not visit have no rows.                       *)
LEMMA NoOtherRows ==
  ASSUME NEW f \in Frames, Known(f.format)
  PROVE  /\ DumpPlanes(f.format) \in 1 .. 3
         /\ \A p \in 0 .. 2 : p >= DumpPlanes(f.format) => RowCount(f, p) = 0
         /\ \A p \in 0 .. 2 : RowCount(f, p) \in Nat
<1>1. f.format \in Formats /\ f.height \in Nat  BY FramesOK DEF FrameOK
<1>2. DumpPlanes(f.format) \in 1 .. 3  BY DEF DumpPlanes
<1>3. ASSUME NEW p \in 0 .. 2, p >= DumpPlanes(f.format) PROVE RowCount(f, p) = 0
  <2>1. p \notin Planes(f.format)
    BY <1>1, <1>3 DEF Planes, DumpPlanes
  <2> QED  BY <2>1 DEF RowCount
<1>4. ASSUME NEW p \in 0 .. 2 PROVE RowCount(f, p) \in Nat
  BY <1>1 DEF RowCount, PixelRows, divideRoundUp
<1> QED  BY <1>2, <1>3, <1>4

(* The row of a plane is at its place among all rows.                      *)
LEMMA RowAtItsPlace ==
  ASSUME NEW f \in Frames, Known(f.format), NEW p \in 0 .. 2,
         NEW r \in Nat, r < RowCount(f, p)
  PROVE  AllPixels(f)[RowsBefore(f, p) + r + 1] = Pixels(f, p, r)
<1> DEFINE n(q) == RowCount(f, q)
           k == RowsBefore(f, p) + r + 1
<1>1. n(0) \in Nat /\ n(1) \in Nat /\ n(2) \in Nat  BY NoOtherRows
<1> HIDE DEF n
<1>2. AllPixels(f) = [j \in 1 .. n(0) + n(1) + n(2) |->
        CASE j <= n(0) -> Pixels(f, 0, j - 1)
          [] j > n(0) /\ j <= n(0) + n(1) -> Pixels(f, 1, j - 1 - n(0))
          [] OTHER -> Pixels(f, 2, j - 1 - n(0) - n(1))]
  BY DEF AllPixels, n
<1>3. CASE p = 0
  <2>1. k = r + 1 /\ r < n(0)  BY <1>3 DEF RowsBefore, n
  <2>2. k \in 1 .. n(0) + n(1) + n(2) /\ k <= n(0) /\ k - 1 = r  BY <1>1, <2>1
  <2> HIDE DEF k
  <2>3. AllPixels(f)[k] = Pixels(f, 0, k - 1)  BY <1>1, <1>2, <2>2
  <2>4. AllPixels(f)[k] = Pixels(f, p, r)  BY <1>3, <2>2, <2>3
  <2> QED  BY <2>4 DEF k
<1>4. CASE p = 1
  <2>1. k = n(0) + r + 1 /\ r < n(1)  BY <1>4 DEF RowsBefore, n
  <2>2. /\ k \in 1 .. n(0) + n(1) + n(2) /\ ~(k <= n(0)) /\ k > n(0) /\ k <= n(0) + n(1)
        /\ k - 1 - n(0) = r
    BY <1>1, <2>1
  <2> HIDE DEF k
  <2>3. AllPixels(f)[k] = Pixels(f, 1, k - 1 - n(0))  BY <1>1, <1>2, <2>2
  <2>4. AllPixels(f)[k] = Pixels(f, p, r)  BY <1>4, <2>2, <2>3
  <2> QED  BY <2>4 DEF k
<1>5. CASE p = 2
  <2>1. k = n(0) + n(1) + r + 1 /\ r < n(2)  BY <1>5 DEF RowsBefore, n
  <2>2. /\ k \in 1 .. n(0) + n(1) + n(2) /\ ~(k <= n(0)) /\ ~(k <= n(0) + n(1))
        /\ k - 1 - n(0) - n(1) = r
    BY <1>1, <2>1
  <2> HIDE DEF k
  <2>3. AllPixels(f)[k] = Pixels(f, 2, k - 1 - n(0) - n(1))  BY <1>1, <1>2, <2>2
  <2>4. AllPixels(f)[k] = Pixels(f, p, r)  BY <1>5, <2>2, <2>3
  <2> QED  BY <2>4 DEF k
<1> QED  BY <1>3, <1>4, <1>5

(* A step of the dump adds the next row, or ends a plane whose rows are all*)
(* written.                                                                *)
LEMMA WrittenStep == ASSUME ViewInv, WrittenInv, [Next]_vars PROVE WrittenInv'
<1> DEFINE Row == [lo : Nat, hi : Nat]
<1>0. frame \in Frames /\ FrameOK(frame)  BY FramesOK DEF ViewInv
<1>1. CASE BeginDump
  <2>1. /\ use = "none" /\ Known(frame.format) /\ plane = 0 /\ row = 0 /\ written = <<>>
        /\ use' = "dump" /\ UNCHANGED <<frame, plane, row, written>>
    BY <1>1 DEF BeginDump, ViewInv, WrittenInv
  <2>2. DumpPlanes(frame.format) \in 1 .. 3 /\ RowCount(frame, 0) \in Nat
    BY <1>0, <2>1, NoOtherRows
  <2>3. RowsBefore(frame, plane) = 0  BY <2>1 DEF RowsBefore
  <2>4. written \in Seq(Row) /\ Len(written) = 0  BY <2>1
  <2> QED  BY <2>1, <2>2, <2>3, <2>4 DEF WrittenInv
<1>2. CASE DumpPlane
  <2>1. CASE FailDump  BY <2>1 DEF FailDump, WrittenInv
  <2>2. CASE ~FailDump
    <3>1. use = "dump" /\ UNCHANGED <<frame, use, plane, row, written>>
      BY <1>2, <2>2 DEF DumpPlane
    <3> QED  BY <3>1 DEF WrittenInv
  <2> QED  BY <2>1, <2>2
<1>3. CASE DumpRow
  <2>1. CASE FailDump  BY <2>1 DEF FailDump, WrittenInv
  <2>2. CASE ~FailDump
    <3> DEFINE x == rowView(view, row)
               n == DumpRowBytes(frame, plane)
               y == [lo |-> x.lo, hi |-> x.lo + n]
    <3>1. /\ use = "dump" /\ view # NoView /\ row < DumpRows(frame, plane)
          /\ x.hi - x.lo >= n
          /\ written' = Append(written, y) /\ row' = row + 1
          /\ UNCHANGED <<frame, use, plane>>
      BY <1>3, <2>2 DEF DumpRow
    <3>2. /\ Viewable(frame, plane) /\ view = NewView(frame, plane) /\ row \in Nat
          /\ plane \in 0 .. 2 /\ plane < DumpPlanes(frame.format)
          /\ Known(frame.format)
      <4>1. Viewable(frame, plane) /\ view = NewView(frame, plane) /\ row \in Nat
        BY <3>1 DEF ViewInv
      <4>2. plane \in ViewPlanes(frame.format) /\ frame.format \in Formats
        BY <1>0, <4>1 DEF Viewable, FrameOK
      <4>3. ViewPlanes(frame.format) \subseteq 0 .. DumpPlanes(frame.format) - 1
        BY DEF ViewPlanes, DumpPlanes
      <4>4. DumpPlanes(frame.format) \in 1 .. 3  BY DEF DumpPlanes
      <4> QED  BY <3>1, <4>1, <4>2, <4>3, <4>4 DEF WrittenInv
    <3>3. row < RowCount(frame, plane) /\ RowCount(frame, plane) \in Nat
      BY <1>0, <3>1, <3>2, DumpCountsRows, NoOtherRows
    <3>4. row' <= RowCount(frame, plane)'  BY <3>1, <3>2, <3>3
    <3>5. ASSUME Clean(frame)
          PROVE  /\ written' \in Seq(Row)
                 /\ Len(written') = RowsBefore(frame, plane) + row'
                 /\ \A k \in 1 .. Len(written') : written'[k] = AllPixels(frame)[k]
      <4>1. /\ written \in Seq(Row) /\ Len(written) = RowsBefore(frame, plane) + row
            /\ \A k \in 1 .. Len(written) : written[k] = AllPixels(frame)[k]
        BY <3>1, <3>5 DEF WrittenInv
      <4>2. /\ x.lo = Pixels(frame, plane, row).lo /\ x.lo \in Nat
            /\ n = PixelRowBytes(frame.format, frame.width, plane)
        <5> HIDE DEF n
        <5>1. Viewable(frame, plane) /\ view = NewView(frame, plane)  BY <3>2
        <5>2. /\ Clean(frame) /\ ~LooseAddress(frame)
              /\ plane \in Planes(frame.format) => ~LooseDefault(frame, plane)
          BY <3>5 DEF Clean
        <5> QED  BY <1>0, <3>1, <3>2, <5>1, <5>2, ViewRows DEF n
      <4>3. n \in Nat \ {0}  BY <1>0, <3>2, <4>2, RowHasBytes DEF FrameOK
      <4>4. y = Pixels(frame, plane, row) /\ y \in Row
        <5>1. Pixels(frame, plane, row).hi
                = Pixels(frame, plane, row).lo
                    + PixelRowBytes(frame.format, frame.width, plane)
          BY DEF Pixels
        <5>2. Pixels(frame, plane, row)
                = [lo |-> Pixels(frame, plane, row).lo, hi |-> Pixels(frame, plane, row).hi]
          BY DEF Pixels
        <5> HIDE DEF n, x
        <5>3. y = Pixels(frame, plane, row)  BY <4>2, <5>1, <5>2
        <5>4. x.lo + n \in Nat  BY <4>2, <4>3
        <5> QED  BY <4>2, <5>3, <5>4
      <4>5. RowsBefore(frame, plane) \in Nat
        BY <1>0, <3>2, NoOtherRows DEF RowsBefore
      <4> HIDE DEF y, n, x
      <4>6. /\ written' \in Seq(Row) /\ Len(written') = Len(written) + 1
            /\ \A k \in 1 .. Len(written) : written'[k] = written[k]
            /\ written'[Len(written) + 1] = y
        BY <3>1, <4>1, <4>4, AppendProperties
      <4>7. AllPixels(frame)[RowsBefore(frame, plane) + row + 1] = y
        BY <1>0, <3>2, <3>3, <4>4, RowAtItsPlace
      <4>8. ASSUME NEW k \in 1 .. Len(written') PROVE written'[k] = AllPixels(frame)[k]
        <5>1. CASE k \in 1 .. Len(written)  BY <4>1, <4>6, <5>1
        <5>2. CASE k \notin 1 .. Len(written)
          <6>1. k = Len(written) + 1  BY <4>6, <4>1, <5>2
          <6> QED  BY <4>1, <4>6, <4>7, <6>1
        <5> QED  BY <5>1, <5>2
      <4>9. Len(written') = RowsBefore(frame, plane) + row'
        BY <3>1, <3>2, <4>1, <4>5, <4>6
      <4> QED  BY <4>6, <4>8, <4>9
    <3> QED  BY <3>1, <3>2, <3>4, <3>5 DEF WrittenInv
  <2> QED  BY <2>1, <2>2
<1>4. CASE EndPlane
  <2>1. /\ use = "dump" /\ row = DumpRows(frame, plane) /\ view # NoView
        /\ plane' = plane + 1 /\ row' = 0 /\ UNCHANGED <<frame, use, written>>
    BY <1>4 DEF EndPlane
  <2>2. /\ plane \in 0 .. 2 /\ plane < DumpPlanes(frame.format) /\ Known(frame.format)
        /\ DumpPlanes(frame.format) \in 1 .. 3
    <3>1. plane \in ViewPlanes(frame.format)
      BY <2>1 DEF ViewInv, Viewable
    <3>2. ViewPlanes(frame.format) \subseteq 0 .. DumpPlanes(frame.format) - 1
      BY DEF ViewPlanes, DumpPlanes
    <3>3. DumpPlanes(frame.format) \in 1 .. 3  BY DEF DumpPlanes
    <3> QED  BY <2>1, <3>1, <3>2, <3>3 DEF WrittenInv
  <2>3. row = RowCount(frame, plane)  BY <1>0, <2>1, <2>2, DumpCountsRows
  <2>4. \A p \in 0 .. 2 : RowCount(frame, p) \in Nat  BY <1>0, <2>2, NoOtherRows
  <2>5. RowsBefore(frame, plane + 1) = RowsBefore(frame, plane) + row
    <3>1. CASE plane = 0  BY <2>3, <2>4, <3>1 DEF RowsBefore
    <3>2. CASE plane = 1  BY <2>3, <2>4, <3>2 DEF RowsBefore
    <3>3. CASE plane = 2  BY <2>3, <2>4, <3>3 DEF RowsBefore
    <3> QED  BY <2>2, <3>1, <3>2, <3>3
  <2>6. RowsBefore(frame, plane + 1) \in Nat
    BY <2>2, <2>4 DEF RowsBefore
  <2>7. 0 <= RowCount(frame, plane + 1)
    <3>1. CASE plane + 1 \in 0 .. 2  BY <2>4, <3>1
    <3>2. CASE plane + 1 = 3
      BY <3>2 DEF RowCount, Planes
    <3> QED  BY <2>2, <3>1, <3>2
  <2>8. plane' <= DumpPlanes(frame.format)  BY <2>1, <2>2
  <2> QED  BY <2>1, <2>2, <2>5, <2>6, <2>7, <2>8 DEF WrittenInv
<1>5. CASE \/ \E p \in 0 .. 2 : PlaneView(p)
           \/ \E r \in 0 .. frame.height : RowView(r)
  BY <1>5 DEF PlaneView, RowView, WrittenInv
<1>6. CASE DropView
  BY <1>6 DEF DropView, WrittenInv
<1>7. CASE DumpBytes \/ EndDump \/ DumpRaises
  BY <1>7 DEF DumpBytes, EndDump, DumpRaises, FailDump, WrittenInv
<1>8. CASE UNCHANGED vars  BY <1>8 DEF vars, WrittenInv
<1> QED  BY <1>1, <1>2, <1>3, <1>4, <1>5, <1>6, <1>7, <1>8 DEF Next

(* When the dump ends it has written all rows.                             *)
LEMMA DumpIsComplete ==
  ASSUME ViewInv, WrittenInv, EndDump, Clean(frame) PROVE written = AllPixels(frame)
<1> DEFINE n(p) == RowCount(frame, p)
           total == n(0) + n(1) + n(2)
<1>0. use = "dump" /\ plane = DumpPlanes(frame.format) /\ frame \in Frames
  BY DEF EndDump, ViewInv
<1>1. /\ Known(frame.format) /\ Len(written) = RowsBefore(frame, plane) + row
      /\ written \in Seq([lo : Nat, hi : Nat])
      /\ \A k \in 1 .. Len(written) : written[k] = AllPixels(frame)[k]
  BY <1>0 DEF WrittenInv
<1>2. row = 0
  <2>1. ASSUME view # NoView PROVE FALSE
    <3>1. plane \in ViewPlanes(frame.format)  BY <1>0, <2>1 DEF ViewInv, Viewable
    <3>2. ViewPlanes(frame.format) \subseteq 0 .. DumpPlanes(frame.format) - 1
      BY DEF ViewPlanes, DumpPlanes
    <3>3. DumpPlanes(frame.format) \in 1 .. 3  BY DEF DumpPlanes
    <3> QED  BY <1>0, <3>1, <3>2, <3>3
  <2> QED  BY <1>0, <2>1 DEF ViewInv
<1>3. /\ plane \in 1 .. 3 /\ n(0) \in Nat /\ n(1) \in Nat /\ n(2) \in Nat
      /\ \A p \in 0 .. 2 : p >= plane => n(p) = 0
  BY <1>0, <1>1, NoOtherRows
<1>4. RowsBefore(frame, plane) = total
  <2>1. CASE plane = 1  BY <1>3, <2>1 DEF RowsBefore
  <2>2. CASE plane = 2  BY <1>3, <2>2 DEF RowsBefore
  <2>3. CASE plane = 3  BY <1>3, <2>3 DEF RowsBefore
  <2> QED  BY <1>3, <2>1, <2>2, <2>3
<1>5. total \in Nat  BY <1>3
<1> HIDE DEF n, total
<1>6. Len(written) = total  BY <1>1, <1>2, <1>4, <1>5
<1>7. DOMAIN AllPixels(frame) = 1 .. total  BY DEF AllPixels, n, total
<1>8. AllPixels(frame) = [k \in 1 .. total |-> AllPixels(frame)[k]]
  BY DEF AllPixels, n, total
<1>9. written = [k \in 1 .. Len(written) |-> written[k]]  BY <1>1
<1> HIDE DEF AllPixels
<1> QED  BY <1>1, <1>6, <1>8, <1>9

(* The file is there for a dump, or after one.                             *)
LEMMA FileStep == ASSUME FileInv, [Next]_vars PROVE FileInv'
<1> USE DEF FileInv
<1>1. CASE DumpBytes  BY <1>1 DEF DumpBytes
<1>2. CASE DumpPlane  BY <1>2 DEF DumpPlane, FailDump
<1>3. CASE DumpRow
  <2>1. CASE FailDump  BY <2>1 DEF FailDump
  <2>2. CASE ~FailDump  BY <1>3, <2>2 DEF DumpRow
  <2> QED  BY <2>1, <2>2
<1>4. CASE ~DumpBytes /\ ~DumpPlane /\ ~DumpRow
  BY <1>4 DEF Next, vars, PlaneView, RowView, DropView, BeginDump, EndPlane, EndDump,
    DumpRaises, FailDump
<1> QED  BY <1>1, <1>2, <1>3, <1>4

(* A file that a dump leaves is its frame's pixels, row by row; a dump that*)
(* is cut short leaves none.                                               *)
THEOREM SavedFrameIsItsPixels == Spec => []DumpKeepsPixels
<1>1. Init => ViewInv /\ WrittenInv /\ FileInv /\ DumpKeepsPixels
  BY DEF Init, ViewInv, WrittenInv, FileInv, DumpKeepsPixels
<1>2. ASSUME ViewInv, WrittenInv, FileInv, DumpKeepsPixels, [Next]_vars PROVE DumpKeepsPixels'
  <2>1. CASE EndDump
    <3>1. UNCHANGED <<frame, written>>  BY <2>1 DEF EndDump
    <3>2. Clean(frame) => written = AllPixels(frame)
      BY <1>2, <2>1, DumpIsComplete
    <3>3. CASE Clean(frame)  BY <3>1, <3>2, <3>3 DEF DumpKeepsPixels
    <3>4. CASE ~Clean(frame)  BY <3>1, <3>4 DEF DumpKeepsPixels
    <3> QED  BY <3>3, <3>4
  <2>2. CASE DumpBytes  BY <2>2 DEF DumpBytes, DumpKeepsPixels
  <2>3. CASE ~EndDump /\ ~DumpBytes
    <3>1. \/ use' = use /\ file' = file /\ UNCHANGED <<frame, written>>
          \/ ~file' \/ use' = "dump"
      <4>1. CASE DumpPlane  BY <1>2, <4>1 DEF DumpPlane, FailDump
      <4>2. CASE DumpRow
        <5>1. CASE FailDump  BY <5>1 DEF FailDump
        <5>2. CASE ~FailDump  BY <4>2, <5>2 DEF DumpRow
        <5> QED  BY <5>1, <5>2
      <4>3. CASE ~DumpPlane /\ ~DumpRow
        BY <1>2, <2>3, <4>3 DEF Next, vars, FileInv, PlaneView, RowView, DropView, BeginDump,
          EndPlane, DumpRaises, FailDump
      <4> QED  BY <4>1, <4>2, <4>3
    <3>2. CASE ~file' \/ use' = "dump"  BY <3>2 DEF DumpKeepsPixels
    <3>3. CASE use' = use /\ file' = file /\ UNCHANGED <<frame, written>>
      BY <1>2, <3>3 DEF DumpKeepsPixels
    <3> QED  BY <3>1, <3>2, <3>3
  <2> QED  BY <2>1, <2>2, <2>3
<1> QED  BY <1>1, <1>2, ViewStep, WrittenStep, FileStep, PTL DEF Spec
=============================================================================
