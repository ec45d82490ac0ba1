---------------------------- MODULE PlaneGeometry ----------------------------
(***************************************************************************)
(* The planes of a raw video frame: the shape, strides and address that    *)
(* VideoFramePlaneView derives from the frame's info                       *)
(* (src/src/MediaFrameBindings.cpp), the rows that row_view() gives, and   *)
(* the example that writes a frame row by row                              *)
(* (src/examples/example_media_frames.py).                                 *)
(*                                                                         *)
(* A producer stores the planes one behind the other, with padding between *)
(* rows and more rows than the frame has (stride_v, which the code does not*)
(* look at).  It fills the strides and addresses of any planes.  Addresses *)
(* are offsets from the first plane here.  Formats with the same layout    *)
(* are one format.                                                         *)
(***************************************************************************)
EXTENDS Naturals, Sequences

CONSTANTS
  Widths, Heights, \* sizes of frames
  Pads,            \* bytes between the rows of a plane
  ExtraRows        \* stored under the rows of a plane

ASSUME ConstantsAssumption ==
  /\ Widths \subseteq Nat \ {0}
  /\ Heights \subseteq Nat \ {0}
  /\ Pads \subseteq Nat
  /\ ExtraRows \subseteq Nat

SemiPlanar == {"NV12", "NV16"}
Planar420  == {"YUV420P"}
Planar422  == {"YUV422P"}
Planar444  == {"YUV444P"}
Planar     == Planar420 \cup Planar422 \cup Planar444
Packed     == {"YUV400", "C16", "RGB888", "RGBA8888", "YUYV422"}
Fallback   == {"RGB565", "RGBPlanar", "other"}  \* not named in init()'s switch
Formats    == SemiPlanar \cup Planar \cup Packed \cup Fallback

divideRoundUp(n, d) == (n + d - 1) \div d

-----------------------------------------------------------------------------
(* What the formats are, whatever the code does.                           *)

Planes(fmt) == CASE fmt \in SemiPlanar -> 0 .. 1
                 [] fmt \in Planar \cup {"RGBPlanar"} -> 0 .. 2
                 [] OTHER -> {0}

PixelBytes(fmt) == CASE fmt = "RGBA8888" -> 4
                     [] fmt = "RGB888" -> 3
                     [] fmt \in {"C16", "YUYV422", "RGB565"} -> 2
                     [] OTHER -> 1

HalfWide == SemiPlanar \cup Planar420 \cup Planar422
HalfHigh == {"NV12", "YUV420P"}

PixelRowBytes(fmt, w, p) ==
  IF p > 0 /\ fmt \in HalfWide
  THEN divideRoundUp(w, 2) * (IF fmt \in SemiPlanar THEN 2 ELSE 1)
  ELSE w * PixelBytes(fmt)

PixelRows(fmt, h, p) == IF p > 0 /\ fmt \in HalfHigh THEN divideRoundUp(h, 2) ELSE h

(* How the producer stored a frame: rows whose stride it does not report   *)
(* are tight, but those of semi-planar chroma are as far apart as those of *)
(* the luma plane if it reports that.                                      *)
StoredStride(f, p) ==
  LET bytes == PixelRowBytes(f.format, f.width, p)
  IN CASE f.stride[p] > 0 -> f.stride[p]
       [] f.stride[p] = 0 /\ p = 1 /\ f.format \in SemiPlanar /\ f.stride[0] > bytes ->
            f.stride[0]
       [] OTHER -> bytes

PlaneBytes(f, p) == StoredStride(f, p) * (PixelRows(f.format, f.height, p) + f.extra)

StoredAt(f, p) == CASE p = 0 -> 0
                    [] p = 1 -> PlaneBytes(f, 0)
                    [] p = 2 -> PlaneBytes(f, 0) + PlaneBytes(f, 1)

Pixels(f, p, r) ==
  LET at == StoredAt(f, p) + r * StoredStride(f, p)
  IN [lo |-> at, hi |-> at + PixelRowBytes(f.format, f.width, p)]

(* 0 stands for a stride that is not reported.                             *)
Strides(fmt, w) ==
  {[p \in 0 .. 2 |-> IF p \in reported THEN PixelRowBytes(fmt, w, p) + pads[p] ELSE 0] :
     reported \in SUBSET Planes(fmt), pads \in [0 .. 2 -> Pads]}

Frames ==
  UNION {[format : {fmt}, width : {w}, height : Heights, extra : ExtraRows,
          given : SUBSET (Planes(fmt) \ {0}), stride : Strides(fmt, w)] :
           fmt \in Formats, w \in Widths}

-----------------------------------------------------------------------------
(* VideoFramePlaneView.                                                    *)

defaultPackedStride(fmt, w) ==
  CASE fmt = "RGB888" -> w * 3
    [] fmt = "RGBA8888" -> w * 4
    [] fmt = "YUYV422" -> w * 2
    [] OTHER -> w

defaultPlaneStrideOfLuma(f, p) ==
  CASE p = 0 -> defaultPackedStride(f.format, f.width)
    [] p > 0 /\ f.format \in SemiPlanar \cup Planar ->
         IF f.stride[0] > 0 THEN f.stride[0] ELSE f.width
    [] OTHER -> 0

defaultPlaneStride(f, p) ==
  CASE p = 0 -> defaultPackedStride(f.format, f.width)
    [] p > 0 /\ f.format \in SemiPlanar ->
         IF f.stride[0] > 0 THEN f.stride[0] ELSE f.width
    [] p > 0 /\ f.format \in Planar420 \cup Planar422 -> f.width \div 2
    [] p > 0 /\ f.format \in Planar444 -> f.width
    [] OTHER -> 0

PlaneStride(f, p) == IF f.stride[p] > 0 THEN f.stride[p] ELSE defaultPlaneStride(f, p)

HasAddress(f, p) == p \in f.given \cup {0} \/ (f.format \in SemiPlanar /\ p = 1)

planeAddressOfOwnStride(f, p) ==
  IF p \in f.given \cup {0} THEN StoredAt(f, p) ELSE PlaneStride(f, p) * f.height

planeAddress(f, p) ==
  IF p \in f.given \cup {0} THEN StoredAt(f, p)
  ELSE (IF f.stride[0] > 0 THEN f.stride[0] ELSE PlaneStride(f, p)) * f.height

ViewPlanes(fmt) == CASE fmt \in SemiPlanar -> 0 .. 1
                     [] fmt \in Planar -> 0 .. 2
                     [] OTHER -> {0}

Shape(f, p) ==
  LET h == f.height
      w == f.width
  IN CASE f.format = "RGB888"   -> <<h, w, 3>>
       [] f.format = "RGBA8888" -> <<h, w, 4>>
       [] f.format = "YUYV422"  -> <<h, w, 2>>
       [] f.format = "NV12" /\ p = 1 -> <<divideRoundUp(h, 2), divideRoundUp(w, 2), 2>>
       [] f.format = "NV16" /\ p = 1 -> <<h, w \div 2, 2>>
       [] f.format \in Planar420 /\ p > 0 -> <<divideRoundUp(h, 2), divideRoundUp(w, 2)>>
       [] f.format \in Planar422 /\ p > 0 -> <<h, divideRoundUp(w, 2)>>
       [] OTHER -> <<h, w>>

ItemSize(f) == IF f.format = "C16" THEN 2 ELSE 1

(* init(): it throws when the stride, the address or the plane is missing. *)
Viewable(f, p) ==
  PlaneStride(f, p) > 0 /\ HasAddress(f, p) /\ p \in ViewPlanes(f.format)

NewView(f, p) ==
  LET shape  == Shape(f, p)
      stride == PlaneStride(f, p)
  IN [item |-> ItemSize(f), shape |-> shape, at |-> planeAddress(f, p),
      strides |-> IF Len(shape) = 3 THEN <<stride, shape[3], 1>>
                                    ELSE <<stride, ItemSize(f)>>]

rowBytesOfItems(v) == IF Len(v.shape) = 3 THEN v.shape[2] * v.shape[3] ELSE v.shape[2]

rowBytes(v) ==
  IF Len(v.shape) = 3 THEN v.shape[2] * v.shape[3] * v.item ELSE v.shape[2] * v.item

rowView(v, r) == LET at == v.at + r * v.strides[1]
                 IN [lo |-> at, hi |-> at + rowBytes(v)]

-----------------------------------------------------------------------------
VARIABLES
  frame,   \* the frame a callback got
  use,     \* what the program does with it
  plane,   \* the plane it has a view of
  view,    \* that view
  row,     \* the row read last, or written next
  read,    \* the bytes of the row view read last
  written, \* the rows that the dump has written
  file     \* the dump's file exists

vars == <<frame, use, plane, view, row, read, written, file>>

NoView == [item |-> 0, shape |-> <<>>, strides |-> <<>>, at |-> 0]
NoRead == [lo |-> 0, hi |-> 0]

Init ==
  /\ frame \in Frames
  /\ use = "none" /\ plane = 0 /\ view = NoView /\ row = 0 /\ read = NoRead
  /\ written = <<>> /\ file = FALSE

(* frame.plane_view(p), and any rows of it in any order.                   *)
PlaneView(p) ==
  /\ use = "none"
  /\ Viewable(frame, p)
  /\ use' = "rows" /\ plane' = p /\ view' = NewView(frame, p)
  /\ UNCHANGED <<frame, row, read, written, file>>

RowView(r) ==
  /\ use = "rows"
  /\ r < view.shape[1]
  /\ row' = r
  /\ read' = rowView(view, r)
  /\ UNCHANGED <<frame, use, plane, view, written, file>>

DropView ==
  /\ use = "rows"
  /\ use' = "none" /\ plane' = 0 /\ view' = NoView /\ row' = 0 /\ read' = NoRead
  /\ UNCHANGED <<frame, written, file>>

-----------------------------------------------------------------------------
(* _dump_video_frame_payload: which rows of which planes it writes.        *)

Known(fmt) == fmt # "other"

DumpPlanes(fmt) == CASE fmt \in SemiPlanar -> 2
                     [] fmt \in Planar \cup {"RGBPlanar"} -> 3
                     [] OTHER -> 1

DumpRowBytes(f, p) ==
  CASE f.format = "RGB888" -> f.width * 3
    [] f.format = "RGBA8888" -> f.width * 4
    [] f.format \in {"RGB565", "YUYV422", "C16"} -> f.width * 2
    [] f.format \in Planar420 \cup Planar422 /\ p > 0 -> (f.width + 1) \div 2
    [] OTHER -> f.width

DumpRowsRoundedDown(f, p) ==
  IF p > 0 /\ f.format \in {"NV12"} \cup Planar420 THEN f.height \div 2 ELSE f.height

DumpRows(f, p) ==
  IF p > 0 /\ f.format \in {"NV12"} \cup Planar420
  THEN (f.height + 1) \div 2 ELSE f.height

(* A format that the example does not know is saved as it lies, if there   *)
(* are bytes; an exception of the write leaves what it finds.              *)
DumpBytes ==
  /\ use = "none"
  /\ ~Known(frame.format)
  /\ \/ use' = "saved" /\ file' = TRUE
     \/ use' = "failed" /\ UNCHANGED file
     \/ use' = "raised" /\ file' \in BOOLEAN
  /\ UNCHANGED <<frame, plane, view, row, read, written>>

BeginDump ==
  /\ use = "none"
  /\ Known(frame.format)
  /\ use' = "dump" /\ file' = TRUE
  /\ UNCHANGED <<frame, plane, view, row, read, written>>

(* An exception or a short row: the file is removed.                       *)
FailDump ==
  /\ use' = "failed" /\ file' = FALSE
  /\ UNCHANGED <<frame, plane, view, row, read, written>>

(* An exception of the file, anywhere between its opening and its closing. *)
DumpRaises == use = "dump" /\ FailDump

(* _write_plane_rows takes the view of a plane before its first row.       *)
DumpPlane ==
  /\ use = "dump"
  /\ plane < DumpPlanes(frame.format)
  /\ view = NoView
  /\ IF Viewable(frame, plane)
     THEN /\ view' = NewView(frame, plane)
          /\ UNCHANGED <<frame, use, plane, row, read, written, file>>
     ELSE FailDump

DumpRow ==
  LET r == rowView(view, row)
      n == DumpRowBytes(frame, plane)
  IN /\ use = "dump"
     /\ view # NoView
     /\ row < DumpRows(frame, plane)
     /\ IF row < view.shape[1] /\ r.hi - r.lo >= n
        THEN /\ read' = r
             /\ written' = Append(written, [lo |-> r.lo, hi |-> r.lo + n])
             /\ row' = row + 1
             /\ UNCHANGED <<frame, use, plane, view, file>>
        ELSE FailDump

EndPlane ==
  /\ use = "dump"
  /\ view # NoView
  /\ row = DumpRows(frame, plane)
  /\ plane' = plane + 1 /\ row' = 0 /\ view' = NoView /\ read' = NoRead
  /\ UNCHANGED <<frame, use, written, file>>

EndDump ==
  /\ use = "dump"
  /\ plane = DumpPlanes(frame.format)
  /\ use' = "saved"
  /\ UNCHANGED <<frame, plane, view, row, read, written, file>>

Next ==
  \/ \E p \in 0 .. 2 : PlaneView(p)
  \/ \E r \in 0 .. frame.height : RowView(r)
  \/ DropView
  \/ DumpBytes \/ BeginDump \/ DumpPlane \/ DumpRow \/ EndPlane \/ EndDump
  \/ DumpRaises

Spec == Init /\ [][Next]_vars

-----------------------------------------------------------------------------

(* The planes whose default stride is not that of their rows: 16-bit pixels*)
(* outside YUYV, and chroma of an odd width.                               *)
LooseDefault(f, p) ==
  /\ f.stride[p] = 0
  /\ \/ f.format \in {"C16", "RGB565"}
     \/ /\ p > 0 /\ f.format \in HalfWide /\ f.width % 2 = 1
        /\ ~(f.format \in SemiPlanar /\ f.stride[0] > f.width)

(* Chroma without an address, looked for behind rows of the chroma's stride*)
(* because the luma's is not reported, or behind the rows of the frame     *)
(* although more are stored.                                               *)
ChromaTooFar(f) ==
  /\ f.format \in SemiPlanar /\ 1 \notin f.given
  /\ f.stride[0] = 0 /\ f.stride[1] > f.width

ChromaTooNear(f) ==
  f.format \in SemiPlanar /\ 1 \notin f.given /\ f.extra > 0

LooseAddress(f) == ChromaTooFar(f) \/ ChromaTooNear(f)

(* A row view begins at its row of the plane, whatever padding the producer*)
(* chose and whichever strides and addresses it reported, and shows no byte*)
(* of the padding or of another row.  Loose default strides and addresses  *)
(* are excluded: there the code is wrong.                                  *)
RowsArePixelRows ==
  (use = "rows" /\ read # NoRead /\ ~LooseDefault(frame, plane)
     /\ (plane = 1 => ~LooseAddress(frame))) =>
    /\ read.lo = Pixels(frame, plane, row).lo
    /\ read.hi <= Pixels(frame, plane, row).hi

EndOfPlane(f, p) == StoredAt(f, p) + PlaneBytes(f, p)

(* A row view shows no byte behind the frame's memory, with loose default  *)
(* strides and with chroma that is looked for too near either: those errors*)
(* show wrong pixels, not foreign memory.  Only chroma that is looked for  *)
(* too far is excluded.                                                    *)
RowsStayInFrame ==
  (use = "rows" /\ read # NoRead /\ (plane = 1 => ~ChromaTooFar(frame))) =>
    \E p \in Planes(frame.format) : read.hi <= EndOfPlane(frame, p)

LastElement(v, r) ==
  IF Len(v.shape) = 3
  THEN r * v.strides[1] + (v.shape[2] - 1) * v.strides[2] + (v.shape[3] - 1) * v.strides[3]
  ELSE r * v.strides[1] + (v.shape[2] - 1) * v.strides[2]

(* The two ways to read a plane agree: row_view(r) holds the bytes from    *)
(* the first to the last element of memoryview(plane)[r].                  *)
RowViewIsPlaneRow ==
  (use = "rows" /\ view.shape[2] > 0) =>
    \A r \in 0 .. view.shape[1] - 1 :
      rowView(view, r) = [lo |-> view.at + r * view.strides[1],
                          hi |-> view.at + LastElement(view, r) + view.item]

RowCount(f, p) == IF p \in Planes(f.format) THEN PixelRows(f.format, f.height, p) ELSE 0

AllPixels(f) ==
  LET n(p) == RowCount(f, p)
  IN [k \in 1 .. n(0) + n(1) + n(2) |->
        CASE k <= n(0) -> Pixels(f, 0, k - 1)
          [] k > n(0) /\ k <= n(0) + n(1) -> Pixels(f, 1, k - 1 - n(0))
          [] OTHER -> Pixels(f, 2, k - 1 - n(0) - n(1))]

Clean(f) ==
  /\ \A p \in Planes(f.format) : ~LooseDefault(f, p)
  /\ ~LooseAddress(f)
  /\ ~(f.format = "NV12" /\ f.width % 2 = 1)

(* A file that a dump of a known format leaves behind, whether it succeeds *)
(* or is cut short by a missing plane, a short row or an exception, is the *)
(* pixels of all planes, row by row, without padding.  Frames with a loose *)
(* plane or address are excluded, and NV12 frames of odd width, which lose *)
(* the last byte of each chroma row.                                       *)
DumpKeepsPixels ==
  (file /\ use # "dump" /\ Known(frame.format) /\ Clean(frame)) =>
    written = AllPixels(frame)
=============================================================================
