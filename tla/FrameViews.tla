----------------------------- MODULE FrameViews -----------------------------
(***************************************************************************)
(* Memory behind the frames that Python sees                               *)
(* (src/src/MediaFrameBindings.cpp).                                       *)
(*                                                                         *)
(* A frame is a handle on a memory block; a block is reused when its last  *)
(* handle is gone.  plane_view() and view() return objects that hold a     *)
(* handle of their own; row_view() returns an object that holds only an    *)
(* address and is tied to the plane view by keep_alive; a memoryview is    *)
(* tied to the object that exports it by the buffer protocol.  A frame's   *)
(* info is a copy that holds plain addresses; a frame built with such an   *)
(* info may read the memory of the frame that the info came from.  The     *)
(* Python program drops its references in any order and at any time,       *)
(* native threads reuse blocks at any time.                                *)
(***************************************************************************)
EXTENDS FiniteSets

CONSTANTS
  Blocks,       \* memory blocks of frames
  Objects,      \* identities of Python objects
  Native,       \* the holder of the handle that a delivery works on
  NoBlock, NoObject

ASSUME ConstantsAssumption ==
  /\ Native \notin Objects
  /\ NoBlock \notin Blocks
  /\ NoObject \notin Objects

VARIABLES
  inUse,   \* the blocks that are not free for reuse
  handles, \* who holds a handle on each block
  obj,     \* the Python objects
  user,    \* the objects that the program refers to
  writing  \* the frames inside AudioRawBackStream.write, which runs without the GIL

vars == <<inUse, handles, obj, user, writing>>

Kind == {"none", "frame", "info", "buffer", "plane", "row", "export"}

(* handle: the block it keeps; addr: the block it reads; on: the object    *)
(* that it keeps alive.                                                    *)
Object == [kind : Kind, handle : Blocks \cup {NoBlock},
           addr : Blocks \cup {NoBlock}, on : Objects \cup {NoObject}]

Nothing == [kind |-> "none", handle |-> NoBlock, addr |-> NoBlock, on |-> NoObject]

Init ==
  /\ inUse = {}
  /\ handles = [b \in Blocks |-> {}]
  /\ obj = [o \in Objects |-> Nothing]
  /\ user = {}
  /\ writing = {}

Grab(b, o) == handles' = [handles EXCEPT ![b] = @ \cup {o}]

Bind(o, new) ==
  /\ obj[o].kind = "none"
  /\ obj' = [obj EXCEPT ![o] = new]
  /\ user' = user \cup {o}

-----------------------------------------------------------------------------
(* Delivery and reuse.                                                     *)

(* The trampoline copies the handle into the object the callback gets.     *)
DeliverReference(b, o) ==
  /\ b \notin inUse
  /\ inUse' = inUse \cup {b}
  /\ handles' = [handles EXCEPT ![b] = {Native}]
  /\ Bind(o, [kind |-> "frame", handle |-> b, addr |-> b, on |-> NoObject])
  /\ UNCHANGED writing

Deliver(b, o) ==
  /\ b \notin inUse
  /\ inUse' = inUse \cup {b}
  /\ handles' = [handles EXCEPT ![b] = {Native, o}]
  /\ Bind(o, [kind |-> "frame", handle |-> b, addr |-> b, on |-> NoObject])
  /\ UNCHANGED writing

CallbackReturns(b) ==
  /\ Native \in handles[b]
  /\ handles' = [handles EXCEPT ![b] = @ \ {Native}]
  /\ UNCHANGED <<inUse, obj, user, writing>>

Reuse(b) ==
  /\ b \in inUse
  /\ handles[b] = {}
  /\ inUse' = inUse \ {b}
  /\ UNCHANGED <<handles, obj, user, writing>>

-----------------------------------------------------------------------------
(* What a Python program does with an object it refers to.                 *)

Usable(o, kinds) == o \in user /\ obj[o].kind \in kinds /\ obj[o].addr # NoBlock

(* frame.frame_info: a copy, with the addresses and without a handle.      *)
TakeInfo(f, o) ==
  /\ Usable(f, {"frame"})
  /\ Bind(o, [kind |-> "info", handle |-> NoBlock, addr |-> obj[f].addr,
              on |-> NoObject])
  /\ UNCHANGED <<inUse, handles, writing>>

KnownAddresses == {obj[i].addr : i \in {p \in user : obj[p].kind = "info"}}

(* VideoFrame(data, info): the bytes are copied into a block of their own. *)
(* A new info has no addresses; those of a frame's info go to the native   *)
(* setFrameInfo, which may keep them.                                      *)
MakeFrame(b, o) ==
  /\ b \notin inUse
  /\ inUse' = inUse \cup {b}
  /\ Grab(b, o)
  /\ \E a \in {b} \cup KnownAddresses :
       Bind(o, [kind |-> "frame", handle |-> b, addr |-> a, on |-> NoObject])
  /\ UNCHANGED writing

(* frame.frame_info = info.                                                *)
SetInfo(f) ==
  /\ Usable(f, {"frame"})
  /\ \E a \in {obj[f].handle} \cup KnownAddresses :
       obj' = [obj EXCEPT ![f].addr = a]
  /\ UNCHANGED <<inUse, handles, user, writing>>

(* MediaBufferView, CMediaFrameView: a copy of the handle.                 *)
View(f, o) ==
  /\ Usable(f, {"frame"})
  /\ Grab(obj[f].handle, o)
  /\ Bind(o, [kind |-> "buffer", handle |-> obj[f].handle,
              addr |-> obj[f].handle, on |-> NoObject])
  /\ UNCHANGED <<inUse, writing>>

(* VideoFramePlaneView holds the frame by value, and a raw plane address.  *)
PlaneView(f, o) ==
  /\ Usable(f, {"frame"})
  /\ Grab(obj[f].handle, o)
  /\ Bind(o, [kind |-> "plane", handle |-> obj[f].handle,
              addr |-> obj[f].addr, on |-> NoObject])
  /\ UNCHANGED <<inUse, writing>>

(* VideoFrameRowView holds a raw address; keep_alive<0, 1> ties the row to *)
(* the plane view it came from.                                            *)
RowViewUntied(p, o) ==
  /\ Usable(p, {"plane"})
  /\ Bind(o, [kind |-> "row", handle |-> NoBlock, addr |-> obj[p].addr,
              on |-> NoObject])
  /\ UNCHANGED <<inUse, handles, writing>>

RowViewTiedBothWays(p, o) ==
  /\ Usable(p, {"plane"})
  /\ obj[o].kind = "none"
  /\ obj' = [obj EXCEPT ![o] = [kind |-> "row", handle |-> NoBlock,
                                addr |-> obj[p].addr, on |-> p],
                        ![p].on = o]
  /\ user' = user \cup {o}
  /\ UNCHANGED <<inUse, handles, writing>>

RowView(p, o) ==
  /\ Usable(p, {"plane"})
  /\ Bind(o, [kind |-> "row", handle |-> NoBlock, addr |-> obj[p].addr, on |-> p])
  /\ UNCHANGED <<inUse, handles, writing>>

(* memoryview(view).                                                       *)
Export(v, o) ==
  /\ Usable(v, {"buffer", "plane", "row"})
  /\ Bind(o, [kind |-> "export", handle |-> NoBlock, addr |-> obj[v].addr, on |-> v])
  /\ UNCHANGED <<inUse, handles, writing>>

(* The handle of this frame object goes; the views keep theirs.  Nothing   *)
(* stops a program from resetting a frame that another thread is writing.  *)
Reset(f) ==
  /\ Usable(f, {"frame"})
  /\ handles' = [handles EXCEPT ![obj[f].handle] = @ \ {f}]
  /\ obj' = [obj EXCEPT ![f].handle = NoBlock, ![f].addr = NoBlock]
  /\ UNCHANGED <<inUse, user, writing>>

(* AudioRawBackStream.write(frame): the native call reads the frame through*)
(* a reference while other Python threads run; the call's argument keeps   *)
(* the frame object.                                                       *)
BeginWrite(f) ==
  /\ Usable(f, {"frame"})
  /\ f \notin writing
  /\ writing' = writing \cup {f}
  /\ UNCHANGED <<inUse, handles, obj, user>>

EndWrite(f) ==
  /\ f \in writing
  /\ writing' = writing \ {f}
  /\ UNCHANGED <<inUse, handles, obj, user>>

Drop(o) ==
  /\ o \in user
  /\ user' = user \ {o}
  /\ UNCHANGED <<inUse, handles, obj, writing>>

(* Python deallocates an object that nothing refers to.                    *)
ReferredByProgram(o) ==
  o \in user \/ \E p \in Objects : obj[p].on = o

Referred(o) ==
  o \in user \cup writing \/ \E p \in Objects : obj[p].on = o

Dealloc(o) ==
  /\ obj[o].kind # "none"
  /\ ~Referred(o)
  /\ obj' = [obj EXCEPT ![o] = Nothing]
  /\ handles' = [b \in Blocks |-> handles[b] \ {o}]
  /\ UNCHANGED <<inUse, user, writing>>

-----------------------------------------------------------------------------

Next ==
  \/ \E b \in Blocks : CallbackReturns(b) \/ Reuse(b)
  \/ \E b \in Blocks, o \in Objects : Deliver(b, o) \/ MakeFrame(b, o)
  \/ \E f, o \in Objects : \/ TakeInfo(f, o) \/ View(f, o) \/ PlaneView(f, o)
                            \/ RowView(f, o) \/ Export(f, o)
  \/ \E o \in Objects :
       SetInfo(o) \/ Reset(o) \/ BeginWrite(o) \/ EndWrite(o) \/ Drop(o) \/ Dealloc(o)

Spec == Init /\ [][Next]_vars

(* Reference counting deallocates at once, callbacks and writes return,    *)
(* and a block without handles goes back to its pool.                      *)
Fairness ==
  /\ \A b \in Blocks : WF_vars(CallbackReturns(b)) /\ WF_vars(Reuse(b))
  /\ \A o \in Objects : WF_vars(Dealloc(o)) /\ WF_vars(EndWrite(o))

FairSpec == Spec /\ Fairness

-----------------------------------------------------------------------------

(* The types of the state.                                                 *)
TypeOK ==
  /\ inUse \subseteq Blocks
  /\ handles \in [Blocks -> SUBSET (Objects \cup {Native})]
  /\ obj \in [Objects -> Object]
  /\ user \subseteq Objects
  /\ writing \subseteq Objects

(* The objects that exist for as long as o does.                           *)
Keeps(o) ==
  LET direct == {p \in Objects : obj[o].on = p}
  IN {o} \cup direct \cup {p \in Objects : \E q \in direct : obj[q].on = p}

(* A frame that took over the addresses of another frame's info, and what  *)
(* was derived from its planes: it holds one block and reads another.      *)
Borrows(o) ==
  \E p \in Keeps(o) :
    /\ obj[p].kind \in {"frame", "plane"}
    /\ obj[p].handle # NoBlock
    /\ obj[p].addr # obj[p].handle

(* No frame, view, row or memoryview that still exists reads a block that  *)
(* has been given back for reuse, during the callback and after it: the    *)
(* handle copies in the view classes and keep_alive<0, 1> on row_view.     *)
(* Borrowed addresses are the exception: nothing in the bindings keeps the *)
(* block that they point into.                                             *)
ViewsReadOwnedMemory ==
  \A o \in Objects :
    obj[o].kind # "info" /\ obj[o].addr # NoBlock /\ ~Borrows(o)
      => obj[o].addr \in inUse

(* The handles on a block are those of the objects that own one, and the   *)
(* delivery's: none is dropped twice and none is forgotten.                *)
HandlesAreOwned ==
  \A b \in Blocks : handles[b] \ {Native} = {o \in Objects : obj[o].handle = b}

(* The frame that a write without the GIL reads exists until the call ends,*)
(* whatever the other threads drop, and so does its block unless a thread  *)
(* resets that very frame object.                                          *)
WriteKeepsFrame ==
  \A o \in writing :
    /\ obj[o].kind = "frame"
    /\ obj[o].handle # NoBlock => obj[o].handle \in inUse

(* A delivery, an object of the program or a write keeps a handle on b.    *)
ReachedByProgram(b) ==
  \/ Native \in handles[b]
  \/ \E o \in user \cup writing : \E p \in Keeps(o) : obj[p].handle = b

(* A block that neither the program nor a delivery can reach goes back,    *)
(* whatever infos and borrowed addresses still name it.                    *)
UnreachedBlocksReturn ==
  \A b \in Blocks : (b \in inUse /\ ~ReachedByProgram(b)) ~> (b \notin inUse)

(* What src/README.md:412 and the comment at example_media_frames.py:560   *)
(* say: a view is valid only during the callback that got the frame.  In   *)
(* the code the view classes copy the handle, so that a view which outlives*)
(* the callback goes on keeping its block.                                 *)
ViewsEndWithCallback ==
  [][\A b \in Blocks :
       Native \in handles[b] /\ Native \notin handles'[b] =>
         \A o \in Objects : obj[o].kind \in {"buffer", "plane", "row", "export"} =>
           \A p \in Keeps(o) : obj[p].handle # b]_vars
=============================================================================
