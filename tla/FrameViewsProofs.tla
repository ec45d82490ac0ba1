-------------------------- MODULE FrameViewsProofs --------------------------
(***************************************************************************)
(* The safety properties of FrameViews for every set of blocks and objects.*)
(***************************************************************************)
EXTENDS FrameViews, TLAPS

(* The initial state has the types.                                        *)
LEMMA InitTypeOK == Init => TypeOK
  BY ConstantsAssumption DEF Init, TypeOK, Object, Kind, Nothing

(* Binding a name to a new object keeps the types.                         *)
LEMMA BindType ==
  ASSUME TypeOK, NEW o \in Objects, NEW new \in Object, Bind(o, new)
  PROVE  obj' \in [Objects -> Object] /\ user' \subseteq Objects
  BY DEF TypeOK, Bind

(* The addresses in infos are those of blocks.                             *)
LEMMA KnownAddressesType ==
  ASSUME TypeOK
  PROVE  KnownAddresses \subseteq Blocks \cup {NoBlock}
  BY DEF TypeOK, KnownAddresses, Object

(* Every step keeps the types.                                             *)
LEMMA NextTypeOK == TypeOK /\ [Next]_vars => TypeOK'
<1> SUFFICES ASSUME TypeOK, [Next]_vars PROVE TypeOK'
  OBVIOUS
<1> USE ConstantsAssumption DEF Kind
<1>1. CASE UNCHANGED vars
  BY <1>1 DEF vars, TypeOK
<1>2. ASSUME NEW b \in Blocks, CallbackReturns(b) \/ Reuse(b)
      PROVE  TypeOK'
  BY <1>2 DEF TypeOK, CallbackReturns, Reuse
<1>3. ASSUME NEW b \in Blocks, NEW o \in Objects, Deliver(b, o)
      PROVE  TypeOK'
  <2>1. [kind |-> "frame", handle |-> b, addr |-> b, on |-> NoObject] \in Object
    BY DEF Object
  <2>2. obj' \in [Objects -> Object] /\ user' \subseteq Objects
    BY <1>3, <2>1, BindType DEF Deliver
  <2> QED BY <1>3, <2>2 DEF TypeOK, Deliver
<1>4. ASSUME NEW o \in Objects, NEW b \in Blocks, MakeFrame(b, o)
      PROVE  TypeOK'
  <2>1. PICK a \in {b} \cup KnownAddresses :
          Bind(o, [kind |-> "frame", handle |-> b, addr |-> a, on |-> NoObject])
    BY <1>4 DEF MakeFrame
  <2>2. a \in Blocks \cup {NoBlock}
    BY KnownAddressesType
  <2>3. [kind |-> "frame", handle |-> b, addr |-> a, on |-> NoObject] \in Object
    BY <2>2 DEF Object
  <2>4. obj' \in [Objects -> Object] /\ user' \subseteq Objects
    BY <2>1, <2>3, BindType
  <2> QED BY <1>4, <2>4 DEF TypeOK, MakeFrame, Grab
<1>5. ASSUME NEW f \in Objects, NEW o \in Objects, View(f, o)
      PROVE  TypeOK'
  <2>1. [kind |-> "buffer", handle |-> obj[f].handle, addr |-> obj[f].handle,
         on |-> NoObject] \in Object
    BY DEF Object, TypeOK
  <2>2. obj' \in [Objects -> Object] /\ user' \subseteq Objects
    BY <1>5, <2>1, BindType DEF View
  <2> QED BY <1>5, <2>2 DEF TypeOK, View, Grab
<1>6. ASSUME NEW f \in Objects, NEW o \in Objects, PlaneView(f, o)
      PROVE  TypeOK'
  <2>1. [kind |-> "plane", handle |-> obj[f].handle, addr |-> obj[f].addr,
         on |-> NoObject] \in Object
    BY DEF Object, TypeOK
  <2>2. obj' \in [Objects -> Object] /\ user' \subseteq Objects
    BY <1>6, <2>1, BindType DEF PlaneView
  <2> QED BY <1>6, <2>2 DEF TypeOK, PlaneView, Grab
<1>7. ASSUME NEW p \in Objects, NEW o \in Objects, RowView(p, o)
      PROVE  TypeOK'
  <2>1. [kind |-> "row", handle |-> NoBlock, addr |-> obj[p].addr, on |-> p] \in Object
    BY DEF Object, TypeOK
  <2>2. obj' \in [Objects -> Object] /\ user' \subseteq Objects
    BY <1>7, <2>1, BindType DEF RowView
  <2> QED BY <1>7, <2>2 DEF TypeOK, RowView
<1>8. ASSUME NEW v \in Objects, NEW o \in Objects, Export(v, o)
      PROVE  TypeOK'
  <2>1. [kind |-> "export", handle |-> NoBlock, addr |-> obj[v].addr, on |-> v] \in Object
    BY DEF Object, TypeOK
  <2>2. obj' \in [Objects -> Object] /\ user' \subseteq Objects
    BY <1>8, <2>1, BindType DEF Export
  <2> QED BY <1>8, <2>2 DEF TypeOK, Export
<1>9. ASSUME NEW f \in Objects, Reset(f)
      PROVE  TypeOK'
  <2>1. obj' \in [Objects -> Object]
    BY <1>9 DEF Reset, TypeOK, Object
  <2> QED BY <1>9, <2>1 DEF Reset, TypeOK
<1>12. ASSUME NEW f \in Objects, NEW o \in Objects, TakeInfo(f, o)
       PROVE  TypeOK'
  <2>1. [kind |-> "info", handle |-> NoBlock, addr |-> obj[f].addr, on |-> NoObject]
          \in Object
    BY DEF Object, TypeOK
  <2>2. obj' \in [Objects -> Object] /\ user' \subseteq Objects
    BY <1>12, <2>1, BindType DEF TakeInfo
  <2> QED BY <1>12, <2>2 DEF TypeOK, TakeInfo
<1>13. ASSUME NEW f \in Objects, SetInfo(f)
       PROVE  TypeOK'
  <2>1. PICK a \in {obj[f].handle} \cup KnownAddresses : obj' = [obj EXCEPT ![f].addr = a]
    BY <1>13 DEF SetInfo
  <2>2. a \in Blocks \cup {NoBlock}
    BY KnownAddressesType DEF TypeOK, Object
  <2>3. obj' \in [Objects -> Object]
    BY <2>1, <2>2 DEF TypeOK, Object
  <2> QED BY <1>13, <2>3 DEF TypeOK, SetInfo
<1>10. ASSUME NEW f \in Objects, BeginWrite(f) \/ EndWrite(f) \/ Drop(f)
       PROVE  TypeOK'
  BY <1>10 DEF TypeOK, BeginWrite, EndWrite, Drop
<1>11. ASSUME NEW o \in Objects, Dealloc(o)
       PROVE  TypeOK'
  <2>1. Nothing \in Object
    BY DEF Nothing, Object
  <2> QED BY <1>11, <2>1 DEF TypeOK, Dealloc
<1> QED
  BY <1>1, <1>2, <1>3, <1>4, <1>5, <1>6, <1>7, <1>8, <1>9, <1>10, <1>11, <1>12,
     <1>13 DEF Next

(* Blocks, handles, objects and references keep their types.               *)
THEOREM TypeCorrect == Spec => []TypeOK
  BY InitTypeOK, NextTypeOK, PTL DEF Spec

-----------------------------------------------------------------------------
(* Why a view's memory is owned: an object owns the block it reads, or is  *)
(* tied to one that reads the same block and cannot go before it, unless   *)
(* that one borrows the address.                                           *)

OwnersRead ==
  \A o \in Objects :
    /\ obj[o].kind \in {"none", "buffer"} => obj[o].addr = obj[o].handle
    /\ obj[o].kind \in {"frame", "plane"} =>
         (obj[o].handle = NoBlock <=> obj[o].addr = NoBlock)
    /\ obj[o].kind \in {"info", "row", "export"} => obj[o].handle = NoBlock
    /\ obj[o].kind = "info" => obj[o].addr # NoBlock

NoneIsNothing == \A o \in Objects : obj[o].kind = "none" => obj[o] = Nothing

Ties ==
  \A o \in Objects :
    /\ obj[o].kind = "row" =>
         /\ obj[o].on \in Objects
         /\ obj[obj[o].on].kind = "plane"
         /\ obj[obj[o].on].addr = obj[o].addr
    /\ obj[o].kind = "export" =>
         /\ obj[o].on \in Objects
         /\ obj[obj[o].on].kind \in {"buffer", "plane", "row"}
         /\ obj[obj[o].on].addr = obj[o].addr
    /\ obj[o].kind \notin {"row", "export"} => obj[o].on = NoObject

OwnedInUse == \A b \in Blocks : handles[b] # {} => b \in inUse

WritesFrames == \A o \in writing : obj[o].kind = "frame"

Owning == /\ OwnersRead /\ NoneIsNothing /\ Ties
          /\ HandlesAreOwned /\ OwnedInUse /\ WritesFrames

(* Without objects nothing is owned.                                       *)
LEMMA InitOwning == Init => Owning
  BY ConstantsAssumption DEF Init, Owning, OwnersRead, NoneIsNothing, Ties, HandlesAreOwned,
     OwnedInUse, WritesFrames, Nothing

(* An object is among a block's handles exactly if its handle is that      *)
(* block.                                                                  *)
LEMMA HandleOf ==
  ASSUME HandlesAreOwned, NEW c \in Blocks, NEW p \in Objects
  PROVE  p \in handles[c] <=> obj[p].handle = c
  BY ConstantsAssumption DEF HandlesAreOwned

(* The converse, for the next state.                                       *)
LEMMA HandlesByObject ==
  ASSUME handles' \in [Blocks -> SUBSET (Objects \cup {Native})],
         \A c \in Blocks, p \in Objects : p \in handles'[c] <=> obj'[p].handle = c
  PROVE  HandlesAreOwned'
  BY ConstantsAssumption DEF HandlesAreOwned

OwnerOn(kind, b, a) == [kind |-> kind, handle |-> b, addr |-> a, on |-> NoObject]

GetsHandle(o, b) ==
  /\ \/ handles' = [handles EXCEPT ![b] = @ \cup {o}]
     \/ b \notin inUse /\ handles' = [handles EXCEPT ![b] = {Native, o}]
  /\ inUse \subseteq inUse' /\ b \in inUse' /\ writing' = writing

(* A new object o with a handle on b takes the place of nothing; it reads  *)
(* the block b, or the address a if it is a frame or plane view.           *)
LEMMA NewOwner ==
  ASSUME TypeOK, Owning, NEW o \in Objects, NEW b \in Blocks,
         NEW kind \in {"frame", "buffer", "plane"},
         NEW a \in Blocks, kind = "buffer" => a = b,
         Bind(o, OwnerOn(kind, b, a)), GetsHandle(o, b)
  PROVE  Owning'
<1> USE ConstantsAssumption DEF TypeOK, Owning, OwnerOn, GetsHandle
<1> DEFINE new == OwnerOn(kind, b, a)
<1>1. obj[o] = Nothing /\ obj' = [obj EXCEPT ![o] = new]
  BY DEF Bind, NoneIsNothing
<1>2. \A p \in Objects : obj'[p] = IF p = o THEN new ELSE obj[p]
  BY <1>1
<1>3. OwnersRead'
  BY <1>2 DEF OwnersRead
<1>4. NoneIsNothing'
  BY <1>2 DEF NoneIsNothing
<1>5. Ties'
  <2>1. \A p \in Objects : obj[p].kind \in {"row", "export"} =>
           obj[p].on \in Objects /\ obj[p].on # o
    BY <1>1 DEF Ties, Nothing
  <2> QED BY <1>1, <1>2, <2>1 DEF Ties
<1>6. HandlesAreOwned'
  <2> SUFFICES ASSUME NEW c \in Blocks, NEW p \in Objects
               PROVE  p \in handles'[c] <=> obj'[p].handle = c
    BY DEF HandlesAreOwned
  <2>1. p \in handles[c] <=> obj[p].handle = c
    BY HandleOf
  <2>2. b \notin inUse => handles[b] = {}
    BY DEF OwnedInUse
  <2>3. p \in handles'[c] <=> (p \in handles[c] \/ (c = b /\ p = o))
    BY <2>2
  <2> QED BY <1>1, <1>2, <2>1, <2>3 DEF Nothing
<1>7. OwnedInUse'
  BY DEF OwnedInUse
<1>8. WritesFrames'
  BY <1>1, <1>2 DEF WritesFrames, Nothing
<1> QED BY <1>3, <1>4, <1>5, <1>6, <1>7, <1>8

(* A new object o without a handle, tied to v, which reads the same block. *)
LEMMA NewTied ==
  ASSUME TypeOK, Owning, NEW o \in Objects, NEW v \in Objects, NEW kind \in {"row", "export"},
         obj[v].kind \in IF kind = "row" THEN {"plane"} ELSE {"buffer", "plane", "row"},
         Bind(o, [kind |-> kind, handle |-> NoBlock, addr |-> obj[v].addr, on |-> v]),
         UNCHANGED <<inUse, handles, writing>>
  PROVE  Owning'
<1> USE ConstantsAssumption DEF TypeOK, Owning
<1> DEFINE new == [kind |-> kind, handle |-> NoBlock, addr |-> obj[v].addr, on |-> v]
<1>1. obj[o] = Nothing /\ v # o /\ obj' = [obj EXCEPT ![o] = new]
  BY DEF Bind, NoneIsNothing, Nothing
<1>2. \A p \in Objects : obj'[p] = IF p = o THEN new ELSE obj[p]
  BY <1>1
<1>3. OwnersRead'
  BY <1>2 DEF OwnersRead
<1>4. NoneIsNothing'
  BY <1>2 DEF NoneIsNothing
<1>5. Ties'
  <2>1. \A p \in Objects : obj[p].kind \in {"row", "export"} =>
           obj[p].on \in Objects /\ obj[p].on # o
    BY <1>1 DEF Ties, Nothing
  <2> QED BY <1>1, <1>2, <2>1 DEF Ties
<1>6. HandlesAreOwned'
  BY <1>1, <1>2 DEF HandlesAreOwned, Nothing
<1>7. OwnedInUse' /\ WritesFrames'
  BY <1>1, <1>2 DEF OwnedInUse, WritesFrames, Nothing
<1> QED BY <1>3, <1>4, <1>5, <1>6, <1>7

(* A new info has neither a handle nor ties.                               *)
LEMMA NewInfo ==
  ASSUME TypeOK, Owning, NEW f \in Objects, NEW o \in Objects, TakeInfo(f, o)
  PROVE  Owning'
<1> USE ConstantsAssumption DEF TypeOK, Owning
<1> DEFINE new == [kind |-> "info", handle |-> NoBlock, addr |-> obj[f].addr,
                   on |-> NoObject]
<1>1. obj[o] = Nothing /\ obj[f].addr # NoBlock /\ obj' = [obj EXCEPT ![o] = new]
  BY DEF TakeInfo, Usable, Bind, NoneIsNothing
<1>2. \A p \in Objects : obj'[p] = IF p = o THEN new ELSE obj[p]
  BY <1>1
<1>3. OwnersRead' /\ NoneIsNothing'
  BY <1>1, <1>2 DEF OwnersRead, NoneIsNothing
<1>4. Ties'
  <2>1. \A p \in Objects : obj[p].kind \in {"row", "export"} =>
           obj[p].on \in Objects /\ obj[p].on # o
    BY <1>1 DEF Ties, Nothing
  <2> QED BY <1>1, <1>2, <2>1 DEF Ties
<1>5. HandlesAreOwned'
  BY <1>1, <1>2 DEF HandlesAreOwned, Nothing, TakeInfo
<1>6. OwnedInUse' /\ WritesFrames'
  BY <1>1, <1>2 DEF OwnedInUse, WritesFrames, Nothing, TakeInfo
<1> QED BY <1>3, <1>4, <1>5, <1>6

(* The addresses in infos are blocks.                                      *)
LEMMA KnownBlocks ==
  ASSUME TypeOK, Owning
  PROVE  KnownAddresses \subseteq Blocks
  BY DEF TypeOK, Owning, OwnersRead, KnownAddresses, Object

(* Setting a frame's info changes only the address it reads.               *)
LEMMA SetInfoOwning ==
  ASSUME TypeOK, Owning, NEW f \in Objects, SetInfo(f)
  PROVE  Owning'
<1> USE ConstantsAssumption DEF TypeOK, Owning
<1>1. PICK a \in {obj[f].handle} \cup KnownAddresses : obj' = [obj EXCEPT ![f].addr = a]
  BY DEF SetInfo
<1>2. obj[f].kind = "frame" /\ obj[f].handle # NoBlock /\ a # NoBlock
  BY KnownBlocks DEF SetInfo, Usable, OwnersRead, Object
<1>3. /\ obj'[f].kind = "frame" /\ obj'[f].handle = obj[f].handle /\ obj'[f].addr = a
      /\ obj'[f].on = obj[f].on
      /\ \A p \in Objects : p # f => obj'[p] = obj[p]
  BY <1>1, <1>2 DEF Object
<1>4. OwnersRead' /\ NoneIsNothing' /\ WritesFrames'
  BY <1>2, <1>3 DEF SetInfo, OwnersRead, NoneIsNothing, WritesFrames
<1>5. Ties'
  <2>1. \A p \in Objects : obj[p].kind \in {"row", "export"} =>
          obj[p].on \in Objects /\ obj[p].on # f
    BY <1>2 DEF Ties
  <2> QED BY <1>2, <1>3, <2>1 DEF Ties
<1>6. HandlesAreOwned' /\ OwnedInUse'
  BY <1>3 DEF SetInfo, HandlesAreOwned, OwnedInUse
<1> QED BY <1>4, <1>5, <1>6

(* Every step keeps the owners and what they hold in agreement.            *)
LEMMA NextOwning == TypeOK /\ Owning /\ [Next]_vars => Owning'
<1> SUFFICES ASSUME TypeOK, Owning, [Next]_vars PROVE Owning'
  OBVIOUS
<1> USE ConstantsAssumption DEF TypeOK, Owning
<1>0. TypeOK'
  BY NextTypeOK
<1>1. CASE UNCHANGED vars
  BY <1>1 DEF vars, OwnersRead, NoneIsNothing, Ties, HandlesAreOwned, OwnedInUse, WritesFrames
<1>2. ASSUME NEW b \in Blocks, CallbackReturns(b) \/ Reuse(b)
      PROVE  Owning'
  <2>1. OwnersRead' /\ NoneIsNothing' /\ Ties' /\ WritesFrames'
    BY <1>2 DEF CallbackReturns, Reuse, OwnersRead, NoneIsNothing, Ties, WritesFrames
  <2>2. HandlesAreOwned'
    BY <1>2 DEF CallbackReturns, Reuse, HandlesAreOwned
  <2>3. OwnedInUse'
    BY <1>2 DEF CallbackReturns, Reuse, OwnedInUse
  <2> QED BY <2>1, <2>2, <2>3
<1>3. ASSUME NEW b \in Blocks, NEW o \in Objects, Deliver(b, o)
      PROVE  Owning'
  <2>1. Bind(o, OwnerOn("frame", b, b)) /\ GetsHandle(o, b)
    BY <1>3 DEF Deliver, OwnerOn, GetsHandle
  <2> QED BY <2>1, NewOwner
<1>4. ASSUME NEW o \in Objects, NEW b \in Blocks, MakeFrame(b, o)
      PROVE  Owning'
  <2>1. PICK a \in {b} \cup KnownAddresses : Bind(o, OwnerOn("frame", b, a))
    BY <1>4 DEF MakeFrame, OwnerOn
  <2>2. a \in Blocks
    BY KnownBlocks
  <2>3. GetsHandle(o, b)
    BY <1>4 DEF MakeFrame, Grab, GetsHandle
  <2> QED BY <2>1, <2>2, <2>3, NewOwner
<1>5. ASSUME NEW f \in Objects, NEW o \in Objects, View(f, o) \/ PlaneView(f, o)
      PROVE  Owning'
  <2> DEFINE b == obj[f].handle
             a == obj[f].addr
  <2>1. obj[f].kind = "frame" /\ b \in Blocks /\ a \in Blocks
    BY <1>5 DEF View, PlaneView, Usable, OwnersRead, Object
  <2>2. f \in handles[b] /\ b \in inUse
    BY <2>1 DEF HandlesAreOwned, OwnedInUse
  <2>3. /\ handles' = [handles EXCEPT ![b] = @ \cup {o}]
        /\ UNCHANGED <<inUse, writing>>
    BY <1>5 DEF View, PlaneView, Grab
  <2>4. Bind(o, OwnerOn("buffer", b, b)) \/ Bind(o, OwnerOn("plane", b, a))
    BY <1>5 DEF View, PlaneView, OwnerOn
  <2>5. GetsHandle(o, b)
    BY <2>2, <2>3 DEF GetsHandle
  <2> HIDE DEF b, a
  <2>6. CASE Bind(o, OwnerOn("buffer", b, b))
    BY <2>1, <2>5, <2>6, NewOwner
  <2>7. CASE Bind(o, OwnerOn("plane", b, a))
    BY <2>1, <2>5, <2>7, NewOwner
  <2> QED BY <2>4, <2>6, <2>7
<1>6. ASSUME NEW p \in Objects, NEW o \in Objects, RowView(p, o)
      PROVE  Owning'
  BY <1>6, NewTied DEF RowView, Usable
<1>7. ASSUME NEW v \in Objects, NEW o \in Objects, Export(v, o)
      PROVE  Owning'
  BY <1>7, NewTied DEF Export, Usable
<1>8. ASSUME NEW f \in Objects, Reset(f)
      PROVE  Owning'
  <2> DEFINE b == obj[f].handle
  <2>1. obj[f].kind = "frame" /\ b \in Blocks
    BY <1>8 DEF Reset, Usable, OwnersRead, Object
  <2>2. /\ obj'[f].kind = "frame" /\ obj'[f].handle = NoBlock /\ obj'[f].addr = NoBlock
        /\ obj'[f].on = obj[f].on
        /\ \A p \in Objects : p # f => obj'[p] = obj[p]
    BY <1>8, <2>1 DEF Reset, Object
  <2>3. /\ handles' = [handles EXCEPT ![b] = @ \ {f}]
        /\ UNCHANGED <<inUse, writing>>
    BY <1>8 DEF Reset
  <2>4. OwnersRead' /\ NoneIsNothing' /\ WritesFrames'
    BY <2>1, <2>2, <2>3 DEF OwnersRead, NoneIsNothing, WritesFrames
  <2>5. Ties'
    <3>1. \A p \in Objects : obj[p].kind \in {"row", "export"} =>
            obj[p].on \in Objects /\ obj[p].on # f
      BY <2>1 DEF Ties
    <3> QED BY <2>1, <2>2, <3>1 DEF Ties
  <2>6. HandlesAreOwned'
    <3> SUFFICES ASSUME NEW c \in Blocks, NEW p \in Objects
                 PROVE  p \in handles'[c] <=> obj'[p].handle = c
      BY <1>0, HandlesByObject
    <3>1. p \in handles[c] <=> obj[p].handle = c
      BY HandleOf
    <3> QED BY <2>2, <2>3, <3>1
  <2>7. OwnedInUse'
    BY <2>3 DEF OwnedInUse
  <2> QED BY <2>4, <2>5, <2>6, <2>7
<1>9. ASSUME NEW f \in Objects, BeginWrite(f) \/ EndWrite(f) \/ Drop(f)
      PROVE  Owning'
  <2>1. UNCHANGED <<inUse, handles, obj>>
    BY <1>9 DEF BeginWrite, EndWrite, Drop
  <2>2. OwnersRead' /\ NoneIsNothing' /\ Ties' /\ HandlesAreOwned' /\ OwnedInUse'
    BY <2>1 DEF OwnersRead, NoneIsNothing, Ties, HandlesAreOwned, OwnedInUse
  <2>3. WritesFrames'
    BY <1>9 DEF BeginWrite, EndWrite, Drop, WritesFrames, Usable
  <2> QED BY <2>2, <2>3
<1>10. ASSUME NEW o \in Objects, Dealloc(o)
       PROVE  Owning'
  <2>1. /\ o \notin writing /\ \A p \in Objects : obj[p].on # o
        /\ obj' = [obj EXCEPT ![o] = Nothing]
        /\ handles' = [b \in Blocks |-> handles[b] \ {o}]
        /\ UNCHANGED <<inUse, writing>>
    BY <1>10 DEF Dealloc, Referred
  <2>2. \A p \in Objects : obj'[p] = IF p = o THEN Nothing ELSE obj[p]
    BY <2>1
  <2>3. OwnersRead' /\ NoneIsNothing'
    BY <2>2 DEF OwnersRead, NoneIsNothing, Nothing
  <2>4. Ties'
    BY <2>1, <2>2 DEF Ties, Nothing
  <2>5. HandlesAreOwned'
    <3> SUFFICES ASSUME NEW c \in Blocks, NEW p \in Objects
                 PROVE  p \in handles'[c] <=> obj'[p].handle = c
      BY <1>0, HandlesByObject
    <3>1. p \in handles[c] <=> obj[p].handle = c
      BY HandleOf
    <3> QED BY <2>1, <2>2, <3>1 DEF Nothing
  <2>6. OwnedInUse' /\ WritesFrames'
    BY <2>1, <2>2 DEF OwnedInUse, WritesFrames
  <2> QED BY <2>3, <2>4, <2>5, <2>6
<1>11. ASSUME NEW f \in Objects, NEW o \in Objects, TakeInfo(f, o)
       PROVE  Owning'
  BY <1>11, NewInfo
<1>12. ASSUME NEW f \in Objects, SetInfo(f)
       PROVE  Owning'
  BY <1>12, SetInfoOwning
<1> HIDE DEF TypeOK, Owning
<1> QED
  BY <1>1, <1>2, <1>3, <1>4, <1>5, <1>6, <1>7, <1>8, <1>9, <1>10, <1>11, <1>12 DEF Next

(* What an object keeps: itself and what it is tied to, once or twice.     *)
LEMMA KeepsTies ==
  ASSUME NEW o \in Objects
  PROVE  /\ o \in Keeps(o)
         /\ \A p \in Objects : obj[o].on = p => p \in Keeps(o)
         /\ \A p, q \in Objects : obj[o].on = p /\ obj[p].on = q => q \in Keeps(o)
  BY DEF Keeps

(* Owned blocks are in use, so views and writes read owned memory.         *)
LEMMA OwningIsSafe ==
  ASSUME TypeOK, Owning
  PROVE  ViewsReadOwnedMemory /\ WriteKeepsFrame
<1> USE DEF TypeOK, Owning
<1>1. \A o \in Objects : obj[o].handle # NoBlock => obj[o].handle \in inUse
  BY DEF HandlesAreOwned, OwnedInUse, Object
<1>2. ASSUME NEW o \in Objects, obj[o].kind \in {"none", "frame", "buffer", "plane"},
             obj[o].addr # NoBlock, obj[o].kind \in {"frame", "plane"} => obj[o].addr = obj[o].handle
      PROVE  obj[o].addr \in inUse
  BY <1>1, <1>2 DEF OwnersRead
<1>3. ASSUME NEW o \in Objects, obj[o].kind \in {"none", "frame", "buffer", "plane"},
             obj[o].addr # NoBlock, ~Borrows(o)
      PROVE  obj[o].addr \in inUse
  <2>1. obj[o].kind \in {"frame", "plane"} => obj[o].addr = obj[o].handle
    BY <1>3, KeepsTies DEF Borrows, Keeps, OwnersRead
  <2> QED BY <1>2, <1>3, <2>1
<1>4. ASSUME NEW o \in Objects, NEW p \in Keeps(o), ~Borrows(o), obj[o].addr # NoBlock,
             obj[p].kind \in {"buffer", "plane"}, obj[p].addr = obj[o].addr, p \in Objects
      PROVE  obj[o].addr \in inUse
  <2>1. obj[p].kind = "plane" => obj[p].addr = obj[p].handle
    BY <1>4 DEF Borrows, OwnersRead
  <2> QED BY <1>2, <1>4, <2>1
<1>5. ASSUME NEW o \in Objects, obj[o].kind = "row", obj[o].addr # NoBlock, ~Borrows(o)
      PROVE  obj[o].addr \in inUse
  BY <1>4, <1>5, KeepsTies DEF Ties
<1>6. ASSUME NEW o \in Objects, obj[o].kind = "export", obj[o].addr # NoBlock, ~Borrows(o)
      PROVE  obj[o].addr \in inUse
  <2> DEFINE v == obj[o].on
  <2>1. v \in Objects /\ obj[v].kind \in {"buffer", "plane", "row"} /\ obj[v].addr = obj[o].addr
    BY <1>6 DEF Ties
  <2>2. CASE obj[v].kind = "row"
    <3>1. /\ obj[v].on \in Objects /\ obj[obj[v].on].kind = "plane"
          /\ obj[obj[v].on].addr = obj[o].addr
      BY <2>1, <2>2 DEF Ties
    <3>2. obj[v].on \in Keeps(o)
      BY <2>1, <3>1, KeepsTies
    <3> QED BY <1>4, <1>6, <3>1, <3>2
  <2>3. CASE obj[v].kind \in {"buffer", "plane"}
    BY <1>4, <1>6, <2>1, <2>3, KeepsTies
  <2> QED BY <2>1, <2>2, <2>3
<1>7. \A o \in Objects : obj[o].kind \in Kind
  BY DEF Object
<1>8. ViewsReadOwnedMemory
  BY <1>3, <1>5, <1>6, <1>7 DEF ViewsReadOwnedMemory, Kind
<1> QED BY <1>1, <1>8 DEF WriteKeepsFrame, WritesFrames

(* No frame, view, row or memoryview that exists reads a block that went   *)
(* back for reuse, in whatever order the program drops its references and  *)
(* whatever the native code does with the addresses of an info; only what  *)
(* borrows another frame's addresses is outside.                           *)
THEOREM ViewsAreSafe == Spec => []ViewsReadOwnedMemory
<1>1. Init => TypeOK /\ Owning
  BY InitTypeOK, InitOwning
<1>2. TypeOK /\ Owning /\ [Next]_vars => (TypeOK /\ Owning)'
  BY NextTypeOK, NextOwning
<1>3. TypeOK /\ Owning => ViewsReadOwnedMemory
  BY OwningIsSafe
<1> QED BY <1>1, <1>2, <1>3, PTL DEF Spec

(* The handles on a block are those of the objects that own one: no handle *)
(* is dropped twice, none is forgotten.                                    *)
THEOREM HandlesBalance == Spec => []HandlesAreOwned
<1>1. Init => TypeOK /\ Owning
  BY InitTypeOK, InitOwning
<1>2. TypeOK /\ Owning /\ [Next]_vars => (TypeOK /\ Owning)'
  BY NextTypeOK, NextOwning
<1>3. TypeOK /\ Owning => HandlesAreOwned
  BY DEF Owning
<1> QED BY <1>1, <1>2, <1>3, PTL DEF Spec

(* A write that runs without the GIL keeps its frame object.               *)
THEOREM WritesKeepTheirFrame == Spec => []WriteKeepsFrame
<1>1. Init => TypeOK /\ Owning
  BY InitTypeOK, InitOwning
<1>2. TypeOK /\ Owning /\ [Next]_vars => (TypeOK /\ Owning)'
  BY NextTypeOK, NextOwning
<1>3. TypeOK /\ Owning => WriteKeepsFrame
  BY OwningIsSafe
<1> QED BY <1>1, <1>2, <1>3, PTL DEF Spec
=============================================================================
