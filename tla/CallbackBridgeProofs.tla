------------------------ MODULE CallbackBridgeProofs ------------------------
(***************************************************************************)
(* The safety properties of CallbackBridge for every set of threads, kinds *)
(* and callbacks.                                                          *)
(***************************************************************************)
EXTENDS CallbackBridge, TLAPS

(* A thread that is about to hand a function to native code owns exactly   *)
(* that function.                                                          *)
CallShape ==
  \A t \in AppThreads : pc[t] = "native" =>
    /\ call[t].kind \in Kinds
    /\ \E c \in Callbacks : call[t].cbs = {c}

TypeInv == TypeOK /\ CallShape

(* The callback that Install takes from a call that holds one.             *)
LEMMA InstalledCallback ==
  ASSUME NEW S, NEW c, S = {c}
  PROVE  (CHOOSE x \in S : TRUE) = c
<1>1. c \in S
  OBVIOUS
<1>2. (CHOOSE x \in S : TRUE) \in S
  BY <1>1
<1> QED BY <1>2

(* Every variable keeps its type, whatever the interleaving.               *)
LEMMA InitTypeInv == Init => TypeInv
<1> SUFFICES ASSUME Init PROVE TypeInv
  OBVIOUS
<1> USE ConstantsAssumption DEF Init, Threads, AppPc, NativePc, NoCall, NoJob, Op, Call
<1>1. TypeOK
  BY DEF TypeOK
<1>2. CallShape
  BY DEF CallShape
<1> QED BY <1>1, <1>2 DEF TypeInv

(* The step common to stop, shutdown, disconnect and destruction keeps the *)
(* types.                                                                  *)
LEMMA TeardownTypeInv ==
  ASSUME TypeInv, NEW t \in AppThreads, NEW op \in Op, NEW kind \in Kinds \cup {"all"},
         NEW ks \in SUBSET Kinds, Teardown(t, op, kind, ks),
         UNCHANGED job, live' = live, connected' \in BOOLEAN, client' \in BOOLEAN
  PROVE  TypeInv'
<1> USE ConstantsAssumption DEF Threads, AppPc, NativePc, TypeInv
<1> DEFINE gone(k) == {sub[k]} \ {NoCallback}
           moved   == UNION {gone(k) : k \in ks}
           awaited == UNION {gone(k) : k \in Drains \cap
                               (IF op = "stop" THEN ks ELSE Kinds)}
<1>1. /\ \A k \in Kinds : gone(k) \subseteq Callbacks
      /\ moved \subseteq Callbacks
      /\ awaited \subseteq Callbacks
  BY DEF TypeOK
<1>2. [op |-> op, kind |-> kind, cbs |-> moved, waits |-> awaited] \in Call
  BY <1>1 DEF Call
<1>3. /\ call' = [call EXCEPT ![t] = [op |-> op, kind |-> kind, cbs |-> moved,
                                      waits |-> awaited]]
      /\ sub' = [k \in Kinds |-> IF k \in ks THEN NoCallback ELSE sub[k]]
      /\ holders' = [c \in Callbacks |-> IF c \in moved
                      THEN (holders[c] \ ks) \cup {t} ELSE holders[c]]
      /\ pc' = [pc EXCEPT ![t] = "draining"]
      /\ gil' \in {NoThread, t}
  BY DEF Teardown, GilAfterEntry
<1>4. call' \in [AppThreads -> Call]
  BY <1>2, <1>3 DEF TypeOK
<1>5. sub' \in [Kinds -> Callbacks \cup {NoCallback}]
  BY <1>3 DEF TypeOK
<1>6. holders' \in [Callbacks -> SUBSET (Threads \cup Kinds)]
  BY <1>3 DEF TypeOK
<1>7. TypeOK'
  BY <1>3, <1>4, <1>5, <1>6 DEF TypeOK
<1>8. CallShape'
  BY <1>3 DEF TypeOK, CallShape
<1> QED BY <1>7, <1>8

(* Every step keeps the types and where a call keeps its callbacks.        *)
LEMMA NextTypeInv == TypeInv /\ [Next]_vars => TypeInv'
<1> SUFFICES ASSUME TypeInv, [Next]_vars PROVE TypeInv'
  OBVIOUS
<1> USE ConstantsAssumption DEF Threads, AppPc, NativePc, TypeInv
<1>1. CASE UNCHANGED vars
  BY <1>1 DEF vars, TypeOK, CallShape
<1>2. ASSUME NEW t \in AppThreads, AcquireGil(t) \/ YieldGil(t) \/ CreateClient(t) \/ Connect(t)
      PROVE  TypeInv'
  BY <1>2 DEF TypeOK, CallShape, AcquireGil, YieldGil, CreateClient, Connect
<1>3. ASSUME NEW t \in AppThreads, NEW k \in Kinds, NEW c \in Callbacks, BeginSubscribe(t, k, c)
      PROVE  TypeInv'
  <2>1. [op |-> "subscribe", kind |-> k, cbs |-> {c}, waits |-> {}] \in Call
    BY DEF Call, Op
  <2>2. TypeOK'
    BY <1>3, <2>1 DEF TypeOK, BeginSubscribe, GilAfterEntry
  <2>3. CallShape'
    BY <1>3 DEF TypeOK, CallShape, BeginSubscribe
  <2> QED BY <2>2, <2>3
<1>4. ASSUME NEW t \in AppThreads, Install(t)
      PROVE  TypeInv'
  <2> DEFINE k == call[t].kind
             new == CHOOSE c \in call[t].cbs : TRUE
             old == {sub[k]} \ {NoCallback}
  <2>1. k \in Kinds /\ new \in Callbacks
    <3>1. pc[t] = "native"
      BY <1>4 DEF Install
    <3>2. PICK c \in Callbacks : call[t].cbs = {c}
      BY <3>1 DEF CallShape
    <3>3. new = c
      BY <3>2, InstalledCallback
    <3> QED BY <3>1, <3>2, <3>3 DEF CallShape
  <2>2. old \subseteq Callbacks
    BY <2>1 DEF TypeOK
  <2>3. /\ sub' = [sub EXCEPT ![k] = new]
        /\ holders' = [c \in Callbacks |->
                      IF c = new THEN holders[c] \cup {k}
                      ELSE IF c \in old THEN (holders[c] \ {k}) \cup {t}
                      ELSE holders[c]]
        /\ call' = [call EXCEPT ![t].cbs = @ \cup old]
        /\ pc' = [pc EXCEPT ![t] = "returning"]
        /\ UNCHANGED <<gil, job, live, connected, client>>
    BY <1>4 DEF Install
  <2> HIDE DEF k, new, old
  <2>4. holders' \in [Callbacks -> SUBSET (Threads \cup Kinds)]
    BY <2>1, <2>3 DEF TypeOK
  <2>5. call' \in [AppThreads -> Call]
    BY <2>2, <2>3 DEF TypeOK, Call
  <2>6. TypeOK'
    BY <2>1, <2>3, <2>4, <2>5 DEF TypeOK
  <2>7. CallShape'
    BY <2>3 DEF TypeOK, CallShape
  <2> QED BY <2>6, <2>7
<1>5. ASSUME NEW t \in AppThreads, Refuse(t)
      PROVE  TypeInv'
  BY <1>5 DEF TypeOK, CallShape, Refuse
<1>6. ASSUME NEW t \in AppThreads, EndCall(t)
      PROVE  TypeInv'
  BY <1>6 DEF TypeOK, CallShape, EndCall, Without, LastHeldBy, NoCall, Call, Op
<1>7. ASSUME NEW t \in AppThreads, NEW k \in Kinds, BeginStop(t, k)
      PROVE  TypeInv'
  BY <1>7, TeardownTypeInv DEF BeginStop, Op, TypeOK
<1>8. ASSUME NEW t \in AppThreads, BeginShutdown(t)
      PROVE  TypeInv'
  <2>1. Kinds \cap MediaKinds \in SUBSET Kinds
    OBVIOUS
  <2>2. /\ Teardown(t, "shutdown", "all", Kinds \cap MediaKinds)
        /\ UNCHANGED job /\ live' = live
        /\ connected' \in BOOLEAN /\ client' \in BOOLEAN
    BY <1>8 DEF BeginShutdown, TypeOK
  <2>3. "shutdown" \in Op /\ "all" \in Kinds \cup {"all"}
    BY DEF Op
  <2> HIDE DEF TypeInv
  <2> QED BY <2>1, <2>2, <2>3, TeardownTypeInv
<1>9. ASSUME NEW t \in AppThreads, BeginDestroy(t)
      PROVE  TypeInv'
  BY <1>9, TeardownTypeInv DEF BeginDestroy, Op, TypeOK
<1>10. ASSUME NEW t \in AppThreads, FinishDrain(t)
       PROVE  TypeInv'
  <2>1. LastHeldBy(t, call[t].cbs) \subseteq Callbacks
    BY DEF LastHeldBy, TypeOK, Call
  <2>2. call' \in [AppThreads -> Call]
    BY <1>10, <2>1 DEF FinishDrain, TypeOK, Call
  <2>3. TypeOK'
    BY <1>10, <2>2 DEF FinishDrain, TypeOK, Without
  <2>4. CallShape'
    BY <1>10 DEF FinishDrain, TypeOK, CallShape
  <2> QED BY <2>3, <2>4
<1>11. ASSUME NEW n \in NativeThreads, NEW k \in Kinds, BeginDelivery(n, k)
       PROVE  TypeInv'
  BY <1>11 DEF TypeOK, CallShape, BeginDelivery
<1>12. ASSUME NEW n \in NativeThreads, EnterCallback(n) \/ PreemptCallback(n)
       PROVE  TypeInv'
  BY <1>12 DEF TypeOK, CallShape, EnterCallback, PreemptCallback
<1>13. ASSUME NEW n \in NativeThreads, FinishCallback(n)
       PROVE  TypeInv'
  BY <1>13 DEF TypeOK, CallShape, FinishCallback, Without, NoJob
<1>14. ASSUME NEW t \in Threads, DeleterAcquire(t)
       PROVE  TypeInv'
  BY <1>14 DEF TypeOK, CallShape, DeleterAcquire
<1>15. ASSUME NEW t \in Threads, DeleterRun(t)
       PROVE  TypeInv'
  <2>1. CASE t \in AppThreads
    <3>1. call' \in [AppThreads -> Call]
      BY <1>15, <2>1 DEF DeleterRun, TypeOK, Call
    <3> QED BY <1>15, <2>1, <3>1 DEF DeleterRun, TypeOK, CallShape, Without
  <2>2. CASE t \notin AppThreads
    <3>1. t \in NativeThreads
      BY <2>2
    <3>2. /\ job' = [job EXCEPT ![t] = NoJob]
          /\ pc' = [pc EXCEPT ![t] = "idle"]
          /\ live' \subseteq live
          /\ holders' = Without(t, Owned(t))
          /\ gil' = NoThread
          /\ UNCHANGED <<call, sub, connected, client>>
      BY <1>15, <2>2 DEF DeleterRun, KeepsGil
    <3>3. holders' \in [Callbacks -> SUBSET (Threads \cup Kinds)]
      BY <3>2 DEF TypeOK, Without
    <3>4. TypeOK'
      BY <3>1, <3>2, <3>3 DEF TypeOK, NoJob
    <3>5. CallShape'
      BY <3>1, <3>2 DEF TypeOK, CallShape
    <3> QED BY <3>4, <3>5
  <2> QED BY <2>1, <2>2
<1> QED
  BY <1>1, <1>2, <1>3, <1>4, <1>5, <1>6, <1>7, <1>8, <1>9, <1>10, <1>11, <1>12, <1>13,
     <1>14, <1>15 DEF Next, AppNext, NativeNext, DeleterNext

(* Threads, calls, deliveries, stored functions and their owners keep      *)
(* their types in every interleaving.                                      *)
THEOREM TypeCorrect == Spec => []TypeOK
<1>1. Init => TypeInv
  BY InitTypeInv
<1>2. TypeInv /\ [Next]_vars => TypeInv'
  BY NextTypeInv
<1>3. TypeInv => TypeOK
  BY DEF TypeInv
<1> QED BY <1>1, <1>2, <1>3, PTL DEF Spec

-----------------------------------------------------------------------------
(* Ownership: a PyCallback is owned exactly by the slots that store it, the*)
(* deliveries that run it and the calls that keep it, and it lives as long *)
(* as it has an owner.                                                     *)

SlotsOwn == \A c \in Callbacks, k \in Kinds : k \in holders[c] <=> sub[k] = c

DeliveriesOwn ==
  \A c \in Callbacks, n \in NativeThreads : n \in holders[c] <=> Delivering(n, c)

CallsOwn ==
  \A c \in Callbacks, t \in AppThreads :
    t \in holders[c] <=> (pc[t] # "python" /\ c \in call[t].cbs)

LiveIsOwned == \A c \in Callbacks : c \in live <=> holders[c] # {}

(* A new callback has no other owner before native code stores it, nor has *)
(* the one that a deleter is about to run on.                              *)
AlonePc == {"native", "dropping", "deleting"}

OwnsAlone ==
  \A t \in Threads : pc[t] \in AlonePc =>
    \A c \in Owned(t) : holders[c] = {t}

DeliversCallback ==
  \A n \in NativeThreads : pc[n] # "idle" => job[n].cb \in Callbacks

Ownership ==
  /\ SlotsOwn /\ DeliveriesOwn /\ CallsOwn
  /\ LiveIsOwned /\ OwnsAlone /\ DeliversCallback

(* Ownership is its six parts.                                             *)
LEMMA OwnershipParts ==
  Ownership <=> /\ SlotsOwn /\ DeliveriesOwn /\ CallsOwn
                /\ LiveIsOwned /\ OwnsAlone /\ DeliversCallback
  BY DEF Ownership

(* A program that has registered nothing owns nothing.                     *)
LEMMA InitOwnership == Init => Ownership
  BY ConstantsAssumption DEF Init, Ownership, SlotsOwn, DeliveriesOwn, CallsOwn, LiveIsOwned,
     OwnsAlone, DeliversCallback, Delivering, NoJob, NoCall, Threads, AlonePc

(* A step that changes no owner and sends no thread into a deleter.        *)
LEMMA QuietOwnership ==
  ASSUME TypeInv, Ownership, UNCHANGED <<call, job, sub, holders, live>>,
         \A t \in AppThreads : (pc[t] = "python") <=> (pc'[t] = "python"),
         \A n \in NativeThreads : (pc[n] = "idle") <=> (pc'[n] = "idle"),
         \A t \in Threads : pc'[t] \in AlonePc =>
                              pc[t] \in AlonePc
  PROVE  Ownership'
  BY DEF Ownership, SlotsOwn, DeliveriesOwn, CallsOwn, LiveIsOwned, OwnsAlone,
     DeliversCallback, Delivering, Owned

(* start_*: the call owns the function it has wrapped.                     *)
LEMMA SubscribeOwnership ==
  ASSUME TypeInv, Ownership, NEW t \in AppThreads, NEW k \in Kinds, NEW c \in Callbacks,
         BeginSubscribe(t, k, c)
  PROVE  Ownership'
<1> USE ConstantsAssumption DEF Threads, TypeInv, TypeOK, Ownership, AlonePc
<1>1. /\ pc[t] = "python" /\ holders[c] = {} /\ c \notin live
      /\ live' = live \cup {c}
      /\ holders' = [holders EXCEPT ![c] = {t}]
      /\ call'[t].cbs = {c} /\ \A u \in AppThreads : u # t => call'[u] = call[u]
      /\ pc' = [pc EXCEPT ![t] = "native"]
      /\ UNCHANGED <<job, sub>>
  BY DEF BeginSubscribe, InPython, LiveIsOwned
<1>2. SlotsOwn'
  BY <1>1 DEF SlotsOwn
<1>3. DeliveriesOwn'
  BY <1>1 DEF DeliveriesOwn, Delivering
<1>4. CallsOwn'
  BY <1>1 DEF CallsOwn
<1>5. LiveIsOwned'
  BY <1>1 DEF LiveIsOwned
<1>6. OwnsAlone'
  <2> SUFFICES ASSUME NEW u \in Threads, pc'[u] \in AlonePc,
                      NEW d \in Owned(u)'
               PROVE  holders'[d] = {u}
    BY DEF OwnsAlone
  <2>1. CASE u = t
    BY <1>1, <2>1 DEF Owned
  <2>2. CASE u # t
    <3>1. pc[u] \in AlonePc /\ d \in Owned(u)
      BY <1>1, <2>2 DEF Owned
    <3>2. holders[d] = {u} /\ d \in Callbacks
      BY <3>1 DEF OwnsAlone, Owned, DeliversCallback, Call
    <3> QED BY <1>1, <2>2, <3>2
  <2> QED BY <2>1, <2>2
<1>7. DeliversCallback'
  BY <1>1 DEF DeliversCallback
<1> QED BY <1>2, <1>3, <1>4, <1>5, <1>6, <1>7

(* A successful start or setter: the new function moves to its slot, the   *)
(* old one to the call.                                                    *)
LEMMA InstallOwnership ==
  ASSUME TypeInv, Ownership, NEW t \in AppThreads, Install(t)
  PROVE  Ownership'
<1> USE ConstantsAssumption DEF Threads, TypeInv, TypeOK, Ownership, AlonePc
<1> DEFINE k   == call[t].kind
           new == CHOOSE c \in call[t].cbs : TRUE
           old == {sub[k]} \ {NoCallback}
<1>1. PICK c \in Callbacks : call[t].cbs = {c}
  BY DEF Install, CallShape
<1>2. new = c /\ k \in Kinds
  BY <1>1, InstalledCallback DEF Install, CallShape
<1>3. /\ pc[t] = "native"
      /\ sub' = [sub EXCEPT ![k] = new]
      /\ holders' = [d \in Callbacks |->
                      IF d = new THEN holders[d] \cup {k}
                      ELSE IF d \in old THEN (holders[d] \ {k}) \cup {t}
                      ELSE holders[d]]
      /\ call' = [call EXCEPT ![t].cbs = @ \cup old]
      /\ pc' = [pc EXCEPT ![t] = "returning"]
      /\ UNCHANGED <<job, live>>
  BY DEF Install
<1> HIDE DEF k, new
<1>4. call'[t].cbs = {c} \cup old /\ \A u \in AppThreads : u # t => call'[u] = call[u]
  BY <1>1, <1>3 DEF Call
<1>5. \A d \in Callbacks :
        /\ d = c => holders'[d] = holders[d] \cup {k}
        /\ (d # c /\ sub[k] = d) => holders'[d] = (holders[d] \ {k}) \cup {t}
        /\ (d # c /\ sub[k] # d) => holders'[d] = holders[d]
  <2> SUFFICES ASSUME NEW d \in Callbacks
               PROVE  /\ d = c => holders'[d] = holders[d] \cup {k}
                      /\ (d # c /\ sub[k] = d) =>
                           holders'[d] = (holders[d] \ {k}) \cup {t}
                      /\ (d # c /\ sub[k] # d) => holders'[d] = holders[d]
    OBVIOUS
  <2>1. d \in old <=> sub[k] = d
    OBVIOUS
  <2> QED BY <1>2, <1>3, <2>1
<1>6. t \in holders[c]
  BY <1>1, <1>3 DEF CallsOwn
<1>7. SlotsOwn'
  BY <1>2, <1>3, <1>5 DEF SlotsOwn
<1>8. DeliveriesOwn'
  BY <1>2, <1>3, <1>5 DEF DeliveriesOwn, Delivering
<1>9. CallsOwn'
  <2> SUFFICES ASSUME NEW d \in Callbacks, NEW u \in AppThreads
               PROVE  u \in holders'[d] <=> (pc'[u] # "python" /\ d \in call'[u].cbs)
    BY DEF CallsOwn
  <2>1. CASE u # t
    BY <1>2, <1>3, <1>4, <1>5, <2>1 DEF CallsOwn
  <2>2. CASE u = t
    <3>1. t \in holders'[d] <=> d \in {c} \cup old
      BY <1>1, <1>2, <1>3, <1>5, <1>6 DEF CallsOwn
    <3> QED BY <1>3, <1>4, <2>2, <3>1
  <2> QED BY <2>1, <2>2
<1>10. LiveIsOwned'
  BY <1>2, <1>3, <1>5, <1>6 DEF LiveIsOwned, SlotsOwn
<1>11. OwnsAlone'
  <2> SUFFICES ASSUME NEW u \in Threads, pc'[u] \in AlonePc,
                      NEW d \in Owned(u)'
               PROVE  holders'[d] = {u}
    BY DEF OwnsAlone
  <2>1. u # t /\ pc[u] \in AlonePc /\ d \in Owned(u)
    BY <1>3, <1>4 DEF Owned
  <2>2. holders[d] = {u}
    BY <2>1 DEF OwnsAlone
  <2>3. d \in Callbacks
    BY <2>1 DEF Owned, DeliversCallback, Call
  <2>4. d # c /\ sub[k] # d
    BY <1>2, <1>6, <2>1, <2>2, <2>3 DEF SlotsOwn
  <2> QED BY <1>5, <2>2, <2>3, <2>4
<1>12. DeliversCallback'
  BY <1>3 DEF DeliversCallback
<1> QED BY <1>7, <1>8, <1>9, <1>10, <1>11, <1>12

(* The end of a binding call: what it still held alone is deleted.         *)
LEMMA EndCallOwnership ==
  ASSUME TypeInv, Ownership, NEW t \in AppThreads, EndCall(t)
  PROVE  Ownership'
<1> USE ConstantsAssumption DEF Threads, TypeInv, TypeOK, Ownership, AlonePc
<1>1. /\ pc[t] = "returning"
      /\ live' = live \ LastHeldBy(t, call[t].cbs)
      /\ call' = [call EXCEPT ![t] = NoCall]
      /\ pc' = [pc EXCEPT ![t] = "python"]
      /\ UNCHANGED <<job, sub>>
  BY DEF EndCall
<1>2. /\ holders' \in [Callbacks -> SUBSET (Threads \cup Kinds)]
      /\ \A d \in Callbacks : holders'[d] = holders[d] \ {t}
  <2>1. \A d \in Callbacks : d \notin call[t].cbs => t \notin holders[d]
    BY <1>1 DEF CallsOwn
  <2> QED BY <2>1 DEF EndCall, Without
<1>3. SlotsOwn'
  BY <1>1, <1>2 DEF SlotsOwn
<1>4. DeliveriesOwn'
  BY <1>1, <1>2 DEF DeliveriesOwn, Delivering
<1>5. CallsOwn'
  BY <1>1, <1>2 DEF CallsOwn
<1>6. LiveIsOwned'
  <2> SUFFICES ASSUME NEW d \in Callbacks PROVE d \in live' <=> holders'[d] # {}
    BY DEF LiveIsOwned
  <2>1. d \in LastHeldBy(t, call[t].cbs) <=> holders[d] = {t}
    BY <1>1 DEF LastHeldBy, CallsOwn
  <2> QED BY <1>1, <1>2, <2>1 DEF LiveIsOwned
<1>7. OwnsAlone'
  <2> SUFFICES ASSUME NEW u \in Threads, pc'[u] \in AlonePc,
                      NEW d \in Owned(u)'
               PROVE  holders'[d] = {u}
    BY DEF OwnsAlone
  <2>1. u # t /\ pc[u] \in AlonePc /\ d \in Owned(u)
    BY <1>1 DEF Owned
  <2>2. holders[d] = {u} /\ d \in Callbacks
    BY <2>1 DEF OwnsAlone, Owned, DeliversCallback, Call
  <2> QED BY <1>2, <2>1, <2>2
<1>8. DeliversCallback'
  BY <1>1 DEF DeliversCallback
<1> QED BY <1>3, <1>4, <1>5, <1>6, <1>7, <1>8

(* Stop, shutdown, disconnect, destruction: the functions of the slots     *)
(* move to the call.                                                       *)
LEMMA TeardownOwnership ==
  ASSUME TypeInv, Ownership, NEW t \in AppThreads, NEW op, NEW kind,
         NEW ks \in SUBSET Kinds, pc[t] = "python", Teardown(t, op, kind, ks),
         UNCHANGED <<job, live>>
  PROVE  Ownership'
<1> USE ConstantsAssumption DEF Threads, TypeInv, TypeOK, Ownership, AlonePc
<1> DEFINE Moved(d) == \E k \in ks : sub[k] = d
<1>1. /\ sub' = [k \in Kinds |-> IF k \in ks THEN NoCallback ELSE sub[k]]
      /\ pc' = [pc EXCEPT ![t] = "draining"]
      /\ \A u \in AppThreads : u # t => call'[u] = call[u]
  BY DEF Teardown
<1>2. \A d \in Callbacks : d \in call'[t].cbs <=> Moved(d)
  BY DEF Teardown
<1>3. \A d \in Callbacks :
        /\ Moved(d) => holders'[d] = (holders[d] \ ks) \cup {t}
        /\ ~Moved(d) => holders'[d] = holders[d]
  BY DEF Teardown
<1>4. \A d \in Callbacks : t \notin holders[d]
  BY DEF CallsOwn
<1>5. SlotsOwn'
  BY <1>1, <1>3 DEF SlotsOwn
<1>6. DeliveriesOwn'
  BY <1>1, <1>3 DEF DeliveriesOwn, Delivering
<1>7. CallsOwn'
  <2> SUFFICES ASSUME NEW d \in Callbacks, NEW u \in AppThreads
               PROVE  u \in holders'[d] <=> (pc'[u] # "python" /\ d \in call'[u].cbs)
    BY DEF CallsOwn
  <2>1. CASE u = t
    BY <1>1, <1>2, <1>3, <1>4, <2>1
  <2>2. CASE u # t
    BY <1>1, <1>3, <2>2 DEF CallsOwn
  <2> QED BY <2>1, <2>2
<1>8. LiveIsOwned'
  BY <1>1, <1>3 DEF LiveIsOwned, SlotsOwn
<1>9. OwnsAlone'
  <2> SUFFICES ASSUME NEW u \in Threads, pc'[u] \in AlonePc,
                      NEW d \in Owned(u)'
               PROVE  holders'[d] = {u}
    BY DEF OwnsAlone
  <2>1. u # t /\ pc[u] \in AlonePc /\ d \in Owned(u)
    BY <1>1 DEF Owned
  <2>2. holders[d] = {u} /\ d \in Callbacks
    BY <2>1 DEF OwnsAlone, Owned, DeliversCallback, Call
  <2>3. ~Moved(d)
    BY <2>2 DEF SlotsOwn
  <2> QED BY <1>3, <2>2, <2>3
<1>10. DeliversCallback'
  BY <1>1 DEF DeliversCallback
<1> QED BY <1>5, <1>6, <1>7, <1>8, <1>9, <1>10

(* After the wait for deliveries, only the functions that no delivery      *)
(* shares are the caller's to delete.                                      *)
LEMMA FinishDrainOwnership ==
  ASSUME TypeInv, Ownership, NEW t \in AppThreads, FinishDrain(t)
  PROVE  Ownership'
<1> USE ConstantsAssumption DEF Threads, TypeInv, TypeOK, Ownership, AlonePc
<1> DEFINE last == LastHeldBy(t, call[t].cbs)
<1>1. /\ pc[t] = "draining"
      /\ holders' = Without(t, call[t].cbs \ last)
      /\ call' = [call EXCEPT ![t].cbs = last]
      /\ pc' = [pc EXCEPT ![t] = IF last = {} THEN "returning" ELSE "dropping"]
      /\ UNCHANGED <<job, sub, live>>
  BY DEF FinishDrain
<1>2. call'[t].cbs = last /\ \A u \in AppThreads : u # t => call'[u] = call[u]
  BY <1>1 DEF Call
<1>3. \A d \in Callbacks : t \in holders[d] <=> d \in call[t].cbs
  BY <1>1 DEF CallsOwn
<1>4. \A d \in Callbacks : d \in last <=> holders[d] = {t}
  BY <1>3 DEF LastHeldBy
<1>5. \A d \in Callbacks :
        /\ holders[d] = {t} => holders'[d] = holders[d]
        /\ holders[d] # {t} => holders'[d] = holders[d] \ {t}
  <2> SUFFICES ASSUME NEW d \in Callbacks
               PROVE  /\ holders[d] = {t} => holders'[d] = holders[d]
                      /\ holders[d] # {t} => holders'[d] = holders[d] \ {t}
    OBVIOUS
  <2>1. holders'[d] = IF d \in call[t].cbs \ last THEN holders[d] \ {t} ELSE holders[d]
    BY <1>1 DEF Without
  <2>2. d \notin call[t].cbs => holders[d] \ {t} = holders[d]
    BY <1>3
  <2> QED BY <1>4, <2>1, <2>2
<1>6. last \subseteq Callbacks
  BY DEF LastHeldBy, Call
<1> HIDE DEF last
<1>7. pc'[t] \in {"returning", "dropping"} /\ \A u \in Threads : u # t => pc'[u] = pc[u]
  BY <1>1
<1>8. \A d \in Callbacks, k \in Kinds : k \in holders'[d] <=> k \in holders[d]
  <2>1. \A k \in Kinds : k # t
    OBVIOUS
  <2> QED BY <1>5, <2>1
<1>9. \A d \in Callbacks, n \in NativeThreads : n \in holders'[d] <=> n \in holders[d]
  <2>1. \A n \in NativeThreads : n # t
    OBVIOUS
  <2> QED BY <1>5, <2>1
<1>10. SlotsOwn'
  BY <1>1, <1>8 DEF SlotsOwn
<1>11. DeliveriesOwn'
  BY <1>1, <1>7, <1>9 DEF DeliveriesOwn, Delivering
<1>12. CallsOwn'
  <2> SUFFICES ASSUME NEW d \in Callbacks, NEW u \in AppThreads
               PROVE  u \in holders'[d] <=> (pc'[u] # "python" /\ d \in call'[u].cbs)
    BY DEF CallsOwn
  <2>1. CASE u = t
    BY <1>2, <1>4, <1>5, <1>7, <2>1
  <2>2. CASE u # t
    BY <1>2, <1>5, <1>7, <2>2 DEF CallsOwn
  <2> QED BY <2>1, <2>2
<1>13. LiveIsOwned'
  <2> SUFFICES ASSUME NEW d \in Callbacks PROVE d \in live' <=> holders'[d] # {}
    BY DEF LiveIsOwned
  <2>1. holders'[d] = {} <=> holders[d] = {}
    BY <1>5
  <2> QED BY <1>1, <2>1 DEF LiveIsOwned
<1>14. OwnsAlone'
  <2> SUFFICES ASSUME NEW u \in Threads, pc'[u] \in AlonePc,
                      NEW d \in Owned(u)'
               PROVE  holders'[d] = {u}
    BY DEF OwnsAlone
  <2>1. CASE u = t
    BY <1>2, <1>4, <1>5, <1>6, <2>1 DEF Owned
  <2>2. CASE u # t
    <3>1. pc[u] \in AlonePc /\ d \in Owned(u)
      BY <1>1, <1>2, <1>7, <2>2 DEF Owned
    <3>2. holders[d] = {u} /\ d \in Callbacks
      BY <3>1 DEF OwnsAlone, Owned, DeliversCallback, Call
    <3> QED BY <1>5, <2>2, <3>2
  <2> QED BY <2>1, <2>2
<1>15. DeliversCallback'
  BY <1>1, <1>7 DEF DeliversCallback
<1> QED BY <1>10, <1>11, <1>12, <1>13, <1>14, <1>15

(* A deleter deletes what its thread alone held.                           *)
LEMMA DeleterRunOwnership ==
  ASSUME TypeInv, Ownership, NEW t \in Threads, DeleterRun(t)
  PROVE  Ownership'
<1> USE ConstantsAssumption DEF Threads, TypeInv, TypeOK, Ownership, AlonePc
<1>1. /\ pc[t] = "deleting"
      /\ live' = live \ Owned(t)
      /\ holders' = Without(t, Owned(t))
      /\ UNCHANGED sub
  BY DEF DeleterRun
<1>2. Owned(t) \subseteq Callbacks /\ \A d \in Owned(t) : holders[d] = {t}
  BY <1>1 DEF OwnsAlone, Owned, DeliversCallback, Call
<1>3. \A d \in Callbacks : holders'[d] = IF d \in Owned(t) THEN {} ELSE holders[d]
  BY <1>1, <1>2 DEF Without
<1>4. \A d \in Callbacks : t \in holders[d] <=> d \in Owned(t)
  BY <1>1, <1>2 DEF CallsOwn, DeliveriesOwn, Delivering, Owned
<1>5. /\ \A u \in AppThreads : u # t => call'[u] = call[u]
      /\ \A n \in NativeThreads : n # t => job'[n] = job[n]
      /\ \A u \in Threads : u # t => pc'[u] = pc[u]
      /\ t \in AppThreads => pc'[t] = "returning" /\ call'[t].cbs = {}
      /\ t \in NativeThreads => pc'[t] = "idle"
  BY DEF DeleterRun, Call
<1> HIDE DEF TypeInv, TypeOK
<1>6. SlotsOwn'
  BY <1>1, <1>2, <1>3 DEF SlotsOwn
<1>7. DeliveriesOwn'
  <2> SUFFICES ASSUME NEW d \in Callbacks, NEW n \in NativeThreads
               PROVE  n \in holders'[d] <=> (pc'[n] # "idle" /\ job'[n].cb = d)
    BY DEF DeliveriesOwn, Delivering
  <2>1. CASE n = t
    BY <1>3, <1>4, <1>5, <2>1
  <2>2. CASE n # t
    BY <1>2, <1>3, <1>5, <2>2 DEF DeliveriesOwn, Delivering
  <2> QED BY <2>1, <2>2
<1>8. CallsOwn'
  <2> SUFFICES ASSUME NEW d \in Callbacks, NEW u \in AppThreads
               PROVE  u \in holders'[d] <=> (pc'[u] # "python" /\ d \in call'[u].cbs)
    BY DEF CallsOwn
  <2>1. CASE u = t
    BY <1>3, <1>4, <1>5, <2>1
  <2>2. CASE u # t
    BY <1>2, <1>3, <1>5, <2>2 DEF CallsOwn
  <2> QED BY <2>1, <2>2
<1>9. LiveIsOwned'
  BY <1>1, <1>3 DEF LiveIsOwned
<1>10. OwnsAlone'
  <2> SUFFICES ASSUME NEW u \in Threads, pc'[u] \in AlonePc,
                      NEW d \in Owned(u)'
               PROVE  holders'[d] = {u}
    BY DEF OwnsAlone
  <2>1. u # t /\ pc[u] \in AlonePc /\ d \in Owned(u)
    BY <1>5 DEF Owned
  <2>2. holders[d] = {u} /\ d \in Callbacks
    BY <2>1 DEF OwnsAlone, Owned, DeliversCallback, Call, TypeInv, TypeOK
  <2> QED BY <1>2, <1>3, <2>1, <2>2
<1>11. DeliversCallback'
  BY <1>5 DEF DeliversCallback
<1> QED BY <1>6, <1>7, <1>8, <1>9, <1>10, <1>11

(* A delivery copies the function of its slot.                             *)
LEMMA BeginDeliveryOwnership ==
  ASSUME TypeInv, Ownership, NEW n \in NativeThreads, NEW k \in Kinds, BeginDelivery(n, k)
  PROVE  Ownership'
<1> USE ConstantsAssumption DEF Threads, TypeInv, TypeOK, Ownership, AlonePc
<1>1. /\ pc[n] = "idle" /\ sub[k] \in Callbacks /\ k \in holders[sub[k]]
      /\ job' = [job EXCEPT ![n] = [kind |-> k, cb |-> sub[k]]]
      /\ holders' = [holders EXCEPT ![sub[k]] = @ \cup {n}]
      /\ pc' = [pc EXCEPT ![n] = "acquiring"]
      /\ UNCHANGED <<call, sub, live>>
  BY DEF BeginDelivery, SlotsOwn
<1>2. \A d \in Callbacks :
        holders'[d] = IF d = sub[k] THEN holders[d] \cup {n} ELSE holders[d]
  BY <1>1
<1>3. SlotsOwn'
  BY <1>1, <1>2 DEF SlotsOwn
<1>4. DeliveriesOwn'
  BY <1>1, <1>2 DEF DeliveriesOwn, Delivering
<1>5. CallsOwn'
  BY <1>1, <1>2 DEF CallsOwn
<1>6. LiveIsOwned'
  BY <1>1, <1>2 DEF LiveIsOwned
<1>7. OwnsAlone'
  <2> SUFFICES ASSUME NEW u \in Threads, pc'[u] \in AlonePc,
                      NEW d \in Owned(u)'
               PROVE  holders'[d] = {u}
    BY DEF OwnsAlone
  <2>1. u # n /\ pc[u] \in AlonePc /\ d \in Owned(u)
    BY <1>1 DEF Owned
  <2>2. holders[d] = {u} /\ d \in Callbacks
    BY <2>1 DEF OwnsAlone, Owned, DeliversCallback, Call
  <2>3. d # sub[k]
    BY <1>1, <2>2
  <2> QED BY <1>2, <2>2, <2>3
<1>8. DeliversCallback'
  BY <1>1 DEF DeliversCallback
<1> QED BY <1>3, <1>4, <1>5, <1>6, <1>7, <1>8

(* A delivery that ends gives up its copy, or becomes its deleter.         *)
LEMMA FinishCallbackOwnership ==
  ASSUME TypeInv, Ownership, NEW n \in NativeThreads, FinishCallback(n)
  PROVE  Ownership'
<1> USE ConstantsAssumption DEF Threads, TypeInv, TypeOK, Ownership, AlonePc
<1> DEFINE c == job[n].cb
<1>1. /\ pc[n] = "running" /\ c \in Callbacks /\ n \in holders[c]
      /\ UNCHANGED <<call, sub, live>>
  BY DEF FinishCallback, DeliversCallback, DeliveriesOwn, Delivering
<1>2. \A d \in Callbacks : n \in holders[d] <=> d = c
  BY <1>1 DEF DeliveriesOwn, Delivering
<1>3. CASE holders[c] = {n}
  <2>1. /\ pc' = [pc EXCEPT ![n] = "dropping"]
        /\ UNCHANGED <<job, holders>>
    BY <1>3 DEF FinishCallback
  <2>2. SlotsOwn' /\ DeliveriesOwn' /\ CallsOwn' /\ LiveIsOwned' /\ DeliversCallback'
    BY <1>1, <2>1 DEF SlotsOwn, DeliveriesOwn, CallsOwn, LiveIsOwned, DeliversCallback,
                      Delivering
  <2>3. OwnsAlone'
    BY <1>1, <1>3, <2>1 DEF OwnsAlone, Owned
  <2> QED BY <2>2, <2>3
<1>4. CASE holders[c] # {n}
  <2>1. /\ pc' = [pc EXCEPT ![n] = "idle"]
        /\ job' = [job EXCEPT ![n] = NoJob]
        /\ holders' = Without(n, {c})
    BY <1>4 DEF FinishCallback
  <2>2. \A d \in Callbacks : holders'[d] = holders[d] \ {n}
    BY <1>2, <2>1 DEF Without
  <2> HIDE DEF c
  <2>3. SlotsOwn'
    BY <1>1, <2>2 DEF SlotsOwn
  <2>4. DeliveriesOwn'
    <3> SUFFICES ASSUME NEW d \in Callbacks, NEW m \in NativeThreads
                 PROVE  m \in holders'[d] <=> (pc'[m] # "idle" /\ job'[m].cb = d)
      BY DEF DeliveriesOwn, Delivering
    <3>1. CASE m = n
      BY <2>1, <2>2, <3>1
    <3>2. CASE m # n
      <4>1. pc'[m] = pc[m] /\ job'[m] = job[m]
        BY <2>1, <3>2
      <4>2. m \in holders'[d] <=> m \in holders[d]
        BY <2>2, <3>2
      <4>3. m \in holders[d] <=> (pc[m] # "idle" /\ job[m].cb = d)
        BY DEF DeliveriesOwn, Delivering
      <4> QED BY <4>1, <4>2, <4>3
    <3> QED BY <3>1, <3>2
  <2>5. CallsOwn'
    BY <1>1, <2>1, <2>2 DEF CallsOwn
  <2>6. LiveIsOwned'
    <3> SUFFICES ASSUME NEW d \in Callbacks PROVE holders'[d] # {} <=> holders[d] # {}
      BY <1>1 DEF LiveIsOwned
    <3>1. holders[d] # {n}
      BY <1>1, <1>2, <1>4
    <3> QED BY <2>2, <3>1
  <2>7. OwnsAlone'
    <3> SUFFICES ASSUME NEW u \in Threads, pc'[u] \in AlonePc,
                        NEW d \in Owned(u)'
                 PROVE  holders'[d] = {u}
      BY DEF OwnsAlone
    <3>1. u # n /\ pc[u] \in AlonePc /\ d \in Owned(u)
      BY <1>1, <2>1 DEF Owned
    <3>2. holders[d] = {u} /\ d \in Callbacks
      BY <3>1 DEF OwnsAlone, Owned, DeliversCallback, Call
    <3> QED BY <2>2, <3>1, <3>2
  <2>8. DeliversCallback'
    BY <2>1 DEF DeliversCallback
  <2> QED BY <2>3, <2>4, <2>5, <2>6, <2>7, <2>8
<1> QED BY <1>3, <1>4

(* Every step keeps track of who owns which callback.                      *)
LEMMA NextOwnership == TypeInv /\ Ownership /\ [Next]_vars => Ownership'
<1> SUFFICES ASSUME TypeInv, Ownership, [Next]_vars PROVE Ownership'
  OBVIOUS
<1> USE ConstantsAssumption DEF Threads, TypeInv, TypeOK, AlonePc
<1>1. CASE UNCHANGED vars
  <2>1. UNCHANGED <<pc, call, job, sub, holders, live>>
    BY <1>1 DEF vars
  <2> QED BY <2>1, QuietOwnership
<1>2. ASSUME NEW t \in AppThreads,
             AcquireGil(t) \/ YieldGil(t) \/ CreateClient(t) \/ Connect(t)
      PROVE  Ownership'
  <2>1. UNCHANGED <<pc, call, job, sub, holders, live>>
    BY <1>2 DEF AcquireGil, YieldGil, CreateClient, Connect
  <2> QED BY <2>1, QuietOwnership
<1>3. ASSUME NEW t \in AppThreads, NEW k \in Kinds, NEW c \in Callbacks, BeginSubscribe(t, k, c)
      PROVE  Ownership'
  BY <1>3, SubscribeOwnership
<1>4. ASSUME NEW t \in AppThreads, Install(t)
      PROVE  Ownership'
  BY <1>4, InstallOwnership
<1>5. ASSUME NEW t \in AppThreads, Refuse(t)
      PROVE  Ownership'
  <2>1. /\ UNCHANGED <<call, job, sub, holders, live>>
        /\ pc[t] = "native" /\ pc' = [pc EXCEPT ![t] = "returning"]
    BY <1>5 DEF Refuse
  <2>2. /\ \A u \in AppThreads : (pc[u] = "python") <=> (pc'[u] = "python")
        /\ \A n \in NativeThreads : (pc[n] = "idle") <=> (pc'[n] = "idle")
        /\ \A u \in Threads : pc'[u] \in AlonePc =>
                                pc[u] \in AlonePc
    BY <2>1
  <2> QED BY <2>1, <2>2, QuietOwnership
<1>6. ASSUME NEW t \in AppThreads, EndCall(t)
      PROVE  Ownership'
  BY <1>6, EndCallOwnership
<1>7. ASSUME NEW t \in AppThreads, NEW k \in Kinds, BeginStop(t, k)
      PROVE  Ownership'
  BY <1>7, TeardownOwnership DEF BeginStop, InPython
<1>8. ASSUME NEW t \in AppThreads, BeginShutdown(t)
      PROVE  Ownership'
  <2>1. Kinds \cap MediaKinds \in SUBSET Kinds
    OBVIOUS
  <2> QED BY <1>8, <2>1, TeardownOwnership DEF BeginShutdown, InPython
<1>9. ASSUME NEW t \in AppThreads, BeginDestroy(t)
      PROVE  Ownership'
  BY <1>9, TeardownOwnership DEF BeginDestroy, InPython
<1>10. ASSUME NEW t \in AppThreads, FinishDrain(t)
       PROVE  Ownership'
  BY <1>10, FinishDrainOwnership
<1>11. ASSUME NEW n \in NativeThreads, NEW k \in Kinds, BeginDelivery(n, k)
       PROVE  Ownership'
  BY <1>11, BeginDeliveryOwnership
<1>12. ASSUME NEW n \in NativeThreads, EnterCallback(n) \/ PreemptCallback(n)
       PROVE  Ownership'
  <2>1. /\ UNCHANGED <<call, job, sub, holders, live>>
        /\ pc[n] \in {"acquiring", "running"}
        /\ pc' = [pc EXCEPT ![n] = "running"] \/ pc' = [pc EXCEPT ![n] = "acquiring"]
    BY <1>12 DEF EnterCallback, PreemptCallback
  <2>2. /\ \A u \in AppThreads : (pc[u] = "python") <=> (pc'[u] = "python")
        /\ \A m \in NativeThreads : (pc[m] = "idle") <=> (pc'[m] = "idle")
        /\ \A u \in Threads : pc'[u] \in AlonePc =>
                                pc[u] \in AlonePc
    BY <2>1
  <2> QED BY <2>1, <2>2, QuietOwnership
<1>13. ASSUME NEW n \in NativeThreads, FinishCallback(n)
       PROVE  Ownership'
  BY <1>13, FinishCallbackOwnership
<1>14. ASSUME NEW t \in Threads, DeleterAcquire(t)
       PROVE  Ownership'
  <2>1. /\ UNCHANGED <<call, job, sub, holders, live>>
        /\ pc[t] = "dropping" /\ pc' = [pc EXCEPT ![t] = "deleting"]
    BY <1>14 DEF DeleterAcquire
  <2>2. /\ \A u \in AppThreads : (pc[u] = "python") <=> (pc'[u] = "python")
        /\ \A m \in NativeThreads : (pc[m] = "idle") <=> (pc'[m] = "idle")
        /\ \A u \in Threads : pc'[u] \in AlonePc =>
                                pc[u] \in AlonePc
    BY <2>1
  <2> QED BY <2>1, <2>2, QuietOwnership
<1>15. ASSUME NEW t \in Threads, DeleterRun(t)
       PROVE  Ownership'
  BY <1>15, DeleterRunOwnership
<1> HIDE DEF Threads, TypeInv, TypeOK, AlonePc
<1> QED
  BY <1>1, <1>2, <1>3, <1>4, <1>5, <1>6, <1>7, <1>8, <1>9, <1>10, <1>11, <1>12, <1>13,
     <1>14, <1>15 DEF Next, AppNext, NativeNext, DeleterNext

(* No function that native code stores or delivers has been deleted,       *)
(* however registrations, replacements, teardowns and deliveries interleave*)
THEOREM CallbacksOutliveTheirUse == Spec => []NoDanglingCallback
<1>1. Init => TypeInv /\ Ownership
  BY InitTypeInv, InitOwnership
<1>2. TypeInv /\ Ownership /\ [Next]_vars => (TypeInv /\ Ownership)'
  BY NextTypeInv, NextOwnership
<1>3. TypeInv /\ Ownership => NoDanglingCallback
  <2> SUFFICES ASSUME TypeInv, Ownership PROVE NoDanglingCallback
    OBVIOUS
  <2> USE DEF TypeInv, TypeOK, Ownership
  <2>1. \A k \in Kinds : sub[k] # NoCallback => sub[k] \in live
    BY DEF SlotsOwn, LiveIsOwned
  <2>2. \A n \in NativeThreads : pc[n] # "idle" => job[n].cb \in live
    BY DEF DeliveriesOwn, Delivering, LiveIsOwned, DeliversCallback
  <2> QED BY <2>1, <2>2 DEF NoDanglingCallback
<1> QED BY <1>1, <1>2, <1>3, PTL DEF Spec

(* A PyCallback that still lives is stored, in delivery or owned by a call *)
(* in progress: replacing, stopping, closing and dropping leak none.       *)
THEOREM NoCallbackIsLeaked == Spec => []NoLeakedCallback
<1>1. Init => TypeInv /\ Ownership
  BY InitTypeInv, InitOwnership
<1>2. TypeInv /\ Ownership /\ [Next]_vars => (TypeInv /\ Ownership)'
  BY NextTypeInv, NextOwnership
<1>3. TypeInv /\ Ownership => NoLeakedCallback
  <2> SUFFICES ASSUME TypeInv, Ownership, NEW c \in live
               PROVE  \/ \E k \in Kinds : sub[k] = c
                      \/ \E n \in NativeThreads : Delivering(n, c)
                      \/ \E t \in AppThreads : pc[t] # "python" /\ c \in call[t].cbs
    BY DEF NoLeakedCallback
  <2>1. c \in Callbacks /\ holders[c] \subseteq AppThreads \cup NativeThreads \cup Kinds
    BY DEF TypeInv, TypeOK, Threads
  <2>2. PICK x \in holders[c] : TRUE
    BY <2>1 DEF Ownership, LiveIsOwned
  <2> QED BY <2>1, <2>2 DEF Ownership, SlotsOwn, DeliveriesOwn, CallsOwn
<1> QED BY <1>1, <1>2, <1>3, PTL DEF Spec

-----------------------------------------------------------------------------
(* The interpreter lock.                                                   *)

(* No step enters Python, or leaves the GIL inside Python, without the     *)
(* GIL.                                                                    *)
LEMMA NextPythonOnlyUnderGil ==
  TypeInv /\ PythonOnlyUnderGil /\ [Next]_vars => PythonOnlyUnderGil'
<1> SUFFICES ASSUME TypeInv, PythonOnlyUnderGil, [Next]_vars PROVE PythonOnlyUnderGil'
  OBVIOUS
<1> USE ConstantsAssumption DEF Threads, TypeInv, TypeOK, PythonOnlyUnderGil
<1>1. CASE UNCHANGED vars
  BY <1>1 DEF vars
<1>2. ASSUME NEW t \in AppThreads, AppNext(t)
      PROVE  PythonOnlyUnderGil'
  <2>1. CASE AcquireGil(t) \/ YieldGil(t) \/ CreateClient(t) \/ Connect(t)
    BY <2>1 DEF AcquireGil, YieldGil, CreateClient, Connect, InPython
  <2>2. ASSUME NEW k \in Kinds, NEW c \in Callbacks, BeginSubscribe(t, k, c)
        PROVE  PythonOnlyUnderGil'
    BY <2>2 DEF BeginSubscribe, InPython
  <2>3. CASE Install(t) \/ Refuse(t)
    <3>1. /\ gil' = gil
          /\ pc' = [pc EXCEPT ![t] = "returning"]
      BY <2>3 DEF Install, Refuse
    <3> QED BY <3>1
  <2>4. CASE EndCall(t)
    BY <2>4 DEF EndCall
  <2>5. CASE (\E k \in Kinds : BeginStop(t, k)) \/ BeginShutdown(t) \/ BeginDestroy(t)
    <3>1. /\ pc[t] = "python" /\ gil = t
          /\ pc' = [pc EXCEPT ![t] = "draining"]
      BY <2>5 DEF BeginStop, BeginShutdown, BeginDestroy, InPython, Teardown
    <3> QED BY <3>1
  <2>6. CASE FinishDrain(t)
    BY <2>6 DEF FinishDrain
  <2> QED BY <1>2, <2>1, <2>2, <2>3, <2>4, <2>5, <2>6 DEF AppNext
<1>3. ASSUME NEW n \in NativeThreads, NativeNext(n)
      PROVE  PythonOnlyUnderGil'
  <2>1. ASSUME NEW k \in Kinds, BeginDelivery(n, k) PROVE PythonOnlyUnderGil'
    BY <2>1 DEF BeginDelivery
  <2>2. CASE EnterCallback(n) \/ PreemptCallback(n)
    BY <2>2 DEF EnterCallback, PreemptCallback
  <2>3. CASE FinishCallback(n)
    BY <2>3 DEF FinishCallback
  <2> QED BY <1>3, <2>1, <2>2, <2>3 DEF NativeNext
<1>4. ASSUME NEW t \in Threads, DeleterNext(t)
      PROVE  PythonOnlyUnderGil'
  <2>1. CASE DeleterAcquire(t)
    BY <2>1 DEF DeleterAcquire
  <2>2. CASE DeleterRun(t)
    <3>1. /\ pc[t] = "deleting" /\ gil = t
          /\ pc'[t] \in {"returning", "idle"}
          /\ \A u \in Threads : u # t => pc'[u] = pc[u]
      BY <2>2 DEF DeleterRun
    <3> QED BY <3>1
  <2> QED BY <1>4, <2>1, <2>2 DEF DeleterNext
<1> QED BY <1>1, <1>2, <1>3, <1>4 DEF Next

(* A Python function runs, and is deleted, only under the GIL, on whatever *)
(* thread the last copy of a callback is dropped.                          *)
THEOREM PythonRunsUnderGil == Spec => []PythonOnlyUnderGil
<1>1. Init => TypeInv /\ PythonOnlyUnderGil
  BY InitTypeInv, ConstantsAssumption DEF Init, Threads, PythonOnlyUnderGil
<1>2. TypeInv /\ PythonOnlyUnderGil /\ [Next]_vars => (TypeInv /\ PythonOnlyUnderGil)'
  BY NextTypeInv, NextPythonOnlyUnderGil
<1> QED BY <1>1, <1>2, PTL DEF Spec

-----------------------------------------------------------------------------
(* Teardown.                                                               *)

Awaited(c) == \E t \in AppThreads : pc[t] = "draining" /\ c \in call[t].waits

(* A step that stops no drain and starts no delivery.                      *)
LEMMA KeepsAwaited ==
  ASSUME \A t \in AppThreads : pc[t] = "draining" =>
           pc'[t] = "draining" /\ call'[t] = call[t],
         NEW c, Awaited(c)
  PROVE  Awaited(c)'
  BY DEF Awaited

(* Quietness of one delivery: its function is installed, or a teardown     *)
(* still waits for it.                                                     *)
LEMMA QuietMeans ==
  QuietAfterTeardown <=>
    \A n \in NativeThreads :
      (pc[n] # "idle" /\ job[n].kind \in Drains \cap MediaKinds) =>
        sub[job[n].kind] = job[n].cb \/ Awaited(job[n].cb)
  BY DEF QuietAfterTeardown, Awaited

(* Steps of the application that leave the slots and the drains alone.     *)
LEMMA KeepsQuiet ==
  ASSUME QuietAfterTeardown, UNCHANGED sub,
         \A t \in AppThreads : pc[t] = "draining" =>
           pc'[t] = "draining" /\ call'[t] = call[t],
         \A n \in NativeThreads : pc'[n] # "idle" => pc[n] # "idle" /\ job'[n] = job[n]
  PROVE  QuietAfterTeardown'
<1> SUFFICES ASSUME NEW n \in NativeThreads, NEW c, pc'[n] # "idle",
                    job'[n].kind \in Drains \cap MediaKinds, job'[n].cb = c
             PROVE  sub'[job'[n].kind] = c \/ Awaited(c)'
  BY DEF QuietAfterTeardown, Awaited
<1>1. pc[n] # "idle" /\ job'[n] = job[n] /\ job[n].cb = c
  OBVIOUS
<1>2. sub[job[n].kind] = c \/ Awaited(c)
  BY <1>1, QuietMeans
<1>3. Awaited(c) => Awaited(c)'
  BY KeepsAwaited
<1> QED BY <1>1, <1>2, <1>3 DEF Awaited

(* A teardown awaits the functions it removes.                             *)
LEMMA TeardownQuiet ==
  ASSUME TypeInv, QuietAfterTeardown, NEW t \in AppThreads, NEW op, NEW kind,
         NEW ks \in SUBSET Kinds, pc[t] = "python", Teardown(t, op, kind, ks),
         UNCHANGED job
  PROVE  QuietAfterTeardown'
<1> USE ConstantsAssumption DEF Threads, TypeInv, TypeOK
<1> SUFFICES ASSUME NEW n \in NativeThreads, NEW c, pc'[n] # "idle",
                    job'[n].kind \in Drains \cap MediaKinds, job'[n].cb = c
             PROVE  sub'[job'[n].kind] = c \/ Awaited(c)'
  BY DEF QuietAfterTeardown, Awaited
<1> DEFINE k == job[n].kind
<1>1. /\ sub' = [j \in Kinds |-> IF j \in ks THEN NoCallback ELSE sub[j]]
      /\ pc' = [pc EXCEPT ![t] = "draining"]
      /\ \A u \in AppThreads : u # t => call'[u] = call[u]
  BY DEF Teardown
<1>2. \A j \in Drains : (j \in ks /\ sub[j] # NoCallback) => sub[j] \in call'[t].waits
  BY DEF Teardown
<1>3. pc[n] # "idle" /\ job'[n] = job[n] /\ job[n].cb = c /\ k \in Drains \cap MediaKinds /\ k \in Kinds
  BY <1>1
<1>4. sub[k] = c \/ Awaited(c)
  BY <1>3, QuietMeans
<1>5. Awaited(c) => Awaited(c)'
  BY <1>1 DEF Awaited
<1>6. CASE sub[k] = c /\ k \notin ks
  BY <1>1, <1>3, <1>6
<1>7. CASE sub[k] = c /\ k \in ks /\ c # NoCallback
  <2>1. pc'[t] = "draining" /\ c \in call'[t].waits
    BY <1>1, <1>2, <1>3, <1>7
  <2> QED BY <1>3, <2>1 DEF Awaited
<1>8. CASE sub[k] = c /\ k \in ks /\ c = NoCallback
  BY <1>1, <1>3, <1>8
<1>9. CASE Awaited(c)
  BY <1>3, <1>5, <1>9 DEF Awaited
<1> QED BY <1>4, <1>6, <1>7, <1>8, <1>9

(* No step starts a delivery of a function that was torn down.             *)
LEMMA NextQuiet == TypeInv /\ Ownership /\ QuietAfterTeardown /\ [Next]_vars => QuietAfterTeardown'
<1> SUFFICES ASSUME TypeInv, Ownership, QuietAfterTeardown, [Next]_vars
             PROVE  QuietAfterTeardown'
  OBVIOUS
<1> USE ConstantsAssumption DEF Threads, TypeInv, TypeOK
<1>1. CASE UNCHANGED vars
  BY <1>1, KeepsQuiet DEF vars
<1>2. ASSUME NEW t \in AppThreads,
             AcquireGil(t) \/ YieldGil(t) \/ CreateClient(t) \/ Connect(t)
      PROVE  QuietAfterTeardown'
  <2>1. UNCHANGED <<pc, call, job, sub>>
    BY <1>2 DEF AcquireGil, YieldGil, CreateClient, Connect
  <2> QED BY <2>1, KeepsQuiet
<1>3. ASSUME NEW t \in AppThreads, NEW j \in Kinds, NEW c \in Callbacks, BeginSubscribe(t, j, c)
      PROVE  QuietAfterTeardown'
  <2>1. /\ UNCHANGED <<job, sub>> /\ pc[t] = "python"
        /\ pc' = [pc EXCEPT ![t] = "native"]
        /\ \A u \in AppThreads : u # t => call'[u] = call[u]
    BY <1>3 DEF BeginSubscribe, InPython
  <2> QED BY <2>1, KeepsQuiet
<1>4. ASSUME NEW t \in AppThreads, Install(t)
      PROVE  QuietAfterTeardown'
  <2> DEFINE j   == call[t].kind
             new == CHOOSE c \in call[t].cbs : TRUE
  <2>1. /\ pc[t] = "native" /\ UNCHANGED job
        /\ j \in SetterKinds \/ sub[j] = NoCallback
        /\ sub' = [sub EXCEPT ![j] = new]
        /\ pc' = [pc EXCEPT ![t] = "returning"]
        /\ \A u \in AppThreads : u # t => call'[u] = call[u]
    BY <1>4 DEF Install
  <2> HIDE DEF j, new
  <2> SUFFICES ASSUME NEW n \in NativeThreads, NEW c, pc'[n] # "idle",
                      job'[n].kind \in Drains \cap MediaKinds, job'[n].cb = c
               PROVE  sub'[job'[n].kind] = c \/ Awaited(c)'
    BY DEF QuietAfterTeardown, Awaited
  <2>2. pc[n] # "idle" /\ job'[n] = job[n] /\ job[n].cb = c /\ c \in Callbacks
    BY <2>1 DEF Ownership, DeliversCallback
  <2>3. sub[job[n].kind] = c \/ Awaited(c)
    BY <2>2, QuietMeans
  <2>4. Awaited(c) => Awaited(c)'
    BY <2>1 DEF Awaited
  <2>5. CASE sub[job[n].kind] = c
    <3>1. job[n].kind # j
      BY <2>1, <2>2, <2>5 DEF MediaKinds, SetterKinds
    <3> QED BY <2>1, <2>2, <2>5, <3>1
  <2>6. CASE Awaited(c)
    BY <2>2, <2>4, <2>6 DEF Awaited
  <2> QED BY <2>3, <2>5, <2>6
<1>5. ASSUME NEW t \in AppThreads, Refuse(t) \/ EndCall(t)
      PROVE  QuietAfterTeardown'
  <2>1. /\ UNCHANGED <<job, sub>> /\ pc[t] # "draining"
        /\ \A u \in Threads : u # t => pc'[u] = pc[u]
        /\ \A u \in AppThreads : u # t => call'[u] = call[u]
    BY <1>5 DEF Refuse, EndCall
  <2> QED BY <2>1, KeepsQuiet
<1>6. ASSUME NEW t \in AppThreads, NEW j \in Kinds, BeginStop(t, j)
      PROVE  QuietAfterTeardown'
  BY <1>6, TeardownQuiet DEF BeginStop, InPython
<1>7. ASSUME NEW t \in AppThreads, BeginShutdown(t)
      PROVE  QuietAfterTeardown'
  <2>1. Kinds \cap MediaKinds \in SUBSET Kinds
    OBVIOUS
  <2> QED BY <1>7, <2>1, TeardownQuiet DEF BeginShutdown, InPython
<1>8. ASSUME NEW t \in AppThreads, BeginDestroy(t)
      PROVE  QuietAfterTeardown'
  BY <1>8, TeardownQuiet DEF BeginDestroy, InPython
<1>9. ASSUME NEW t \in AppThreads, FinishDrain(t)
      PROVE  QuietAfterTeardown'
  <2>1. /\ UNCHANGED <<job, sub>>
        /\ \A u \in Threads : u # t => pc'[u] = pc[u]
        /\ \A u \in AppThreads : u # t => call'[u] = call[u]
        /\ \A n \in NativeThreads : \A c \in call[t].waits : ~Delivering(n, c)
    BY <1>9 DEF FinishDrain, Drained
  <2> SUFFICES ASSUME NEW n \in NativeThreads, NEW c, pc'[n] # "idle",
                      job'[n].kind \in Drains \cap MediaKinds, job'[n].cb = c
               PROVE  sub'[job'[n].kind] = c \/ Awaited(c)'
    BY DEF QuietAfterTeardown, Awaited
  <2>2. pc[n] # "idle" /\ job'[n] = job[n] /\ job[n].cb = c
    BY <2>1
  <2>3. c \notin call[t].waits
    BY <2>1, <2>2 DEF Delivering
  <2>4. sub[job[n].kind] = c \/ Awaited(c)
    BY <2>2, QuietMeans
  <2>5. Awaited(c) => Awaited(c)'
    BY <2>1, <2>3 DEF Awaited
  <2> QED BY <2>1, <2>2, <2>4, <2>5 DEF Awaited
<1>10. ASSUME NEW n \in NativeThreads, NEW j \in Kinds, BeginDelivery(n, j)
       PROVE  QuietAfterTeardown'
  <2>1. /\ UNCHANGED <<call, sub>>
        /\ job' = [job EXCEPT ![n] = [kind |-> j, cb |-> sub[j]]]
        /\ pc' = [pc EXCEPT ![n] = "acquiring"]
    BY <1>10 DEF BeginDelivery
  <2> SUFFICES ASSUME NEW m \in NativeThreads, NEW c, pc'[m] # "idle",
                      job'[m].kind \in Drains \cap MediaKinds, job'[m].cb = c
               PROVE  sub'[job'[m].kind] = c \/ Awaited(c)'
    BY DEF QuietAfterTeardown, Awaited
  <2>2. CASE m = n
    BY <2>1, <2>2
  <2>3. CASE m # n
    <3>1. pc[m] # "idle" /\ job'[m] = job[m] /\ job[m].cb = c
      BY <2>1, <2>3
    <3>2. sub[job[m].kind] = c \/ Awaited(c)
      BY <3>1, QuietMeans
    <3>3. Awaited(c) => Awaited(c)'
      BY <2>1 DEF Awaited
    <3> QED BY <2>1, <3>1, <3>2, <3>3 DEF Awaited
  <2> QED BY <2>2, <2>3
<1>11. ASSUME NEW n \in NativeThreads,
              EnterCallback(n) \/ PreemptCallback(n) \/ FinishCallback(n)
       PROVE  QuietAfterTeardown'
  <2>1. /\ UNCHANGED <<call, sub>> /\ pc[n] # "idle"
        /\ \A u \in Threads : u # n => pc'[u] = pc[u]
        /\ pc'[n] # "idle" => job' = job
        /\ \A m \in NativeThreads : m # n => job'[m] = job[m]
    BY <1>11 DEF EnterCallback, PreemptCallback, FinishCallback
  <2> QED BY <2>1, KeepsQuiet
<1>12. ASSUME NEW t \in Threads, DeleterAcquire(t) \/ DeleterRun(t)
       PROVE  QuietAfterTeardown'
  <2>1. /\ UNCHANGED sub /\ pc[t] \in {"dropping", "deleting"}
        /\ \A u \in Threads : u # t => pc'[u] = pc[u]
        /\ \A u \in AppThreads : u # t => call'[u] = call[u]
        /\ \A m \in NativeThreads : m # t => job'[m] = job[m]
        /\ (t \in NativeThreads /\ pc'[t] # "idle") => job'[t] = job[t]
    BY <1>12 DEF DeleterAcquire, DeleterRun
  <2> QED BY <2>1, KeepsQuiet
<1> HIDE DEF Threads, TypeInv, TypeOK
<1> QED
  BY <1>1, <1>2, <1>3, <1>4, <1>5, <1>6, <1>7, <1>8, <1>9, <1>10, <1>11, <1>12
  DEF Next, AppNext, NativeNext, DeleterNext

(* After a teardown that waits for its deliveries has returned, no thread  *)
(* is inside the callback it removed.                                      *)
THEOREM TeardownIsQuiet == Spec => []QuietAfterTeardown
<1>1. Init => TypeInv /\ Ownership /\ QuietAfterTeardown
  BY InitTypeInv, InitOwnership, ConstantsAssumption DEF Init, Threads, QuietAfterTeardown
<1>2. TypeInv /\ Ownership /\ QuietAfterTeardown /\ [Next]_vars
        => (TypeInv /\ Ownership /\ QuietAfterTeardown)'
  BY NextTypeInv, NextOwnership, NextQuiet
<1> QED BY <1>1, <1>2, PTL DEF Spec

-----------------------------------------------------------------------------
(* Waiting for deliveries while the GIL is kept.                           *)

(* Among the media kinds only raw audio is waited for: its stop is the one *)
(* that releases the GIL.  Every binding but stop_raw_audio_frame and      *)
(* shutdown keeps it.                                                      *)
OnlyAudioDrains == Drains \cap MediaKinds \subseteq {"rawAudio"}

(* With the session closed, a delivery of a stored function that is waited *)
(* for is awaited by the shutdown that closed it.                          *)
ClosedIsAwaited ==
  ~connected => \A k \in Drains, n \in NativeThreads :
    (sub[k] # NoCallback /\ Delivering(n, sub[k])) => Awaited(sub[k])

(* The destruction of a client finds nothing to wait for.                  *)
DestroyerIsDrained ==
  \A t \in AppThreads : (pc[t] = "draining" /\ call[t].op = "destroy") =>
    ~connected /\ Drained(t)

DrainShape ==
  \A t \in AppThreads : pc[t] = "draining" =>
    /\ call[t].op \in {"stop", "shutdown", "destroy"}
    /\ gil = t => ~ReleasesGil(call[t].op, call[t].kind)
    /\ (call[t].op = "stop" /\ call[t].kind # "rawAudio") => call[t].waits = {}

NoWait == ClosedIsAwaited /\ DestroyerIsDrained /\ DrainShape

(* A step that changes no slot, starts no delivery, opens no session and   *)
(* ends no drain.                                                          *)
LEMMA KeepsNoWait ==
  ASSUME NoWait, UNCHANGED sub,
         \A t \in AppThreads : pc[t] = "draining" <=> pc'[t] = "draining",
         \A t \in AppThreads : pc[t] = "draining" =>
           call'[t] = call[t] /\ (gil' = t => gil = t),
         \A n \in NativeThreads : pc'[n] # "idle" => pc[n] # "idle" /\ job'[n] = job[n],
         connected' = connected
  PROVE  NoWait'
<1> USE DEF NoWait
<1>1. ClosedIsAwaited'
  <2> SUFFICES ASSUME ~connected, NEW k \in Drains, NEW n \in NativeThreads,
                      sub[k] # NoCallback, pc'[n] # "idle", job'[n].cb = sub[k]
               PROVE  \E t \in AppThreads : pc'[t] = "draining" /\ sub[k] \in call'[t].waits
    BY DEF ClosedIsAwaited, Delivering, Awaited
  <2>1. \E t \in AppThreads : pc[t] = "draining" /\ sub[k] \in call[t].waits
    BY DEF ClosedIsAwaited, Delivering, Awaited
  <2> QED BY <2>1
<1>2. DestroyerIsDrained'
  BY DEF DestroyerIsDrained, Drained, Delivering
<1>3. DrainShape'
  BY DEF DrainShape
<1> QED BY <1>1, <1>2, <1>3

(* A teardown that waits with the GIL has no delivery to wait for.         *)
LEMMA TeardownNoWait ==
  ASSUME OnlyAudioDrains, TypeInv, NoWait, NEW t \in AppThreads,
         NEW op \in {"stop", "shutdown", "destroy"}, NEW kind, NEW ks \in SUBSET Kinds,
         InPython(t), Teardown(t, op, kind, ks), UNCHANGED job,
         op = "stop" => ks = {kind} /\ kind \in MediaKinds /\ connected' = connected,
         op = "shutdown" => connected' = FALSE,
         op = "destroy" => /\ ks = Kinds
                           /\ connected' = FALSE
                           /\ ~connected
                           /\ \A u \in AppThreads : pc[u] = "python"
  PROVE  NoWait'
<1> USE ConstantsAssumption DEF Threads, TypeInv, TypeOK, NoWait
<1>1. /\ sub' = [j \in Kinds |-> IF j \in ks THEN NoCallback ELSE sub[j]]
      /\ pc' = [pc EXCEPT ![t] = "draining"]
      /\ gil' = GilAfterEntry(t, op, kind)
      /\ gil = t /\ pc[t] = "python"
      /\ \A u \in AppThreads : u # t => call'[u] = call[u]
  BY DEF Teardown, InPython
<1>2. /\ call'[t].op = op /\ call'[t].kind = kind
      /\ \A c : c \in call'[t].waits <=>
           \E j \in Drains \cap (IF op = "stop" THEN ks ELSE Kinds) :
             sub[j] = c /\ c # NoCallback
  BY DEF Teardown
<1>3. \A n \in NativeThreads : \A c : Delivering(n, c)' <=> Delivering(n, c)
  BY <1>1 DEF Delivering
<1>4. ClosedIsAwaited'
  <2> SUFFICES ASSUME ~connected', NEW k \in Drains, NEW n \in NativeThreads, NEW c,
                      sub'[k] = c, c # NoCallback, pc'[n] # "idle", job'[n].cb = c
               PROVE  \E u \in AppThreads : pc'[u] = "draining" /\ c \in call'[u].waits
    BY DEF ClosedIsAwaited, Delivering, Awaited
  <2>1. k \in Kinds /\ sub[k] = c /\ Delivering(n, c)
    BY <1>1 DEF Delivering
  <2>2. CASE op = "stop"
    <3>1. \E u \in AppThreads : pc[u] = "draining" /\ c \in call[u].waits
      BY <2>1, <2>2 DEF ClosedIsAwaited, Awaited
    <3> QED BY <1>1, <3>1
  <2>3. CASE op # "stop"
    <3>1. c \in call'[t].waits
      BY <1>2, <2>1, <2>3
    <3> QED BY <1>1, <3>1
  <2> QED BY <2>2, <2>3
<1>5. DestroyerIsDrained'
  <2> SUFFICES ASSUME NEW u \in AppThreads, pc'[u] = "draining", call'[u].op = "destroy"
               PROVE  /\ ~connected'
                      /\ \A n \in NativeThreads : \A c \in call'[u].waits : ~Delivering(n, c)
    BY <1>3 DEF DestroyerIsDrained, Drained
  <2>1. CASE u = t
    <3>1. op = "destroy"
      BY <1>2, <2>1
    <3>2. ASSUME NEW n \in NativeThreads, NEW c \in call'[t].waits PROVE ~Delivering(n, c)
      <4>1. PICK j \in Drains : sub[j] = c /\ c # NoCallback
        BY <1>2, <3>2
      <4>2. ~Awaited(c)
        BY <3>1 DEF Awaited
      <4> QED BY <3>1, <4>1, <4>2 DEF ClosedIsAwaited
    <3> QED BY <2>1, <3>1, <3>2
  <2>2. CASE u # t
    <3>1. pc[u] = "draining" /\ call[u].op = "destroy" /\ call'[u] = call[u]
      BY <1>1, <2>2
    <3> QED BY <3>1 DEF DestroyerIsDrained, Drained
  <2> QED BY <2>1, <2>2
<1>6. DrainShape'
  <2> SUFFICES ASSUME NEW u \in AppThreads, pc'[u] = "draining"
               PROVE  /\ call'[u].op \in {"stop", "shutdown", "destroy"}
                      /\ gil' = u => ~ReleasesGil(call'[u].op, call'[u].kind)
                      /\ (call'[u].op = "stop" /\ call'[u].kind # "rawAudio") =>
                           call'[u].waits = {}
    BY DEF DrainShape, ReleasesGil
  <2>1. CASE u = t
    <3>1. gil' = t => ~ReleasesGil(op, kind)
      BY <1>1 DEF GilAfterEntry
    <3>2. (op = "stop" /\ kind # "rawAudio") => Drains \cap ks = {}
      BY DEF OnlyAudioDrains
    <3>3. (op = "stop" /\ kind # "rawAudio") => call'[t].waits = {}
      BY <1>2, <3>2
    <3> QED BY <1>2, <2>1, <3>1, <3>3
  <2>2. CASE u # t
    <3>1. pc[u] = "draining" /\ call'[u] = call[u] /\ gil' # u
      BY <1>1, <2>2 DEF GilAfterEntry
    <3> QED BY <3>1 DEF DrainShape
  <2> QED BY <2>1, <2>2
<1> QED BY <1>4, <1>5, <1>6

(* No step makes anybody wait for a delivery with the GIL.                 *)
LEMMA NextNoWait ==
  ASSUME OnlyAudioDrains, ExplicitClose
  PROVE  TypeInv /\ Ownership /\ NoWait /\ [Next]_vars => NoWait'
<1> SUFFICES ASSUME TypeInv, Ownership, NoWait, [Next]_vars PROVE NoWait'
  OBVIOUS
<1> USE ConstantsAssumption DEF Threads, TypeInv, TypeOK
<1>1. CASE UNCHANGED vars
  BY <1>1, KeepsNoWait DEF vars
<1>2. ASSUME NEW t \in AppThreads, AcquireGil(t) \/ YieldGil(t) \/ CreateClient(t)
      PROVE  NoWait'
  <2>1. /\ UNCHANGED <<pc, call, job, sub, connected>> /\ pc[t] = "python"
        /\ gil' \in {t, NoThread, gil}
    BY <1>2 DEF AcquireGil, YieldGil, CreateClient, InPython
  <2> QED BY <2>1, KeepsNoWait
<1>3. ASSUME NEW t \in AppThreads, Connect(t)
      PROVE  NoWait'
  <2>1. /\ UNCHANGED <<gil, pc, call, job, sub>>
        /\ connected'
        /\ \A u \in AppThreads : ~Closing(u)
    BY <1>3 DEF Connect
  <2>2. ClosedIsAwaited'
    BY <2>1 DEF ClosedIsAwaited
  <2>3. DestroyerIsDrained'
    BY <2>1 DEF DestroyerIsDrained, Closing
  <2>4. DrainShape'
    BY <2>1 DEF NoWait, DrainShape
  <2> QED BY <2>2, <2>3, <2>4 DEF NoWait
<1>4. ASSUME NEW t \in AppThreads, NEW j \in Kinds, NEW c \in Callbacks, BeginSubscribe(t, j, c)
      PROVE  NoWait'
  <2>1. /\ UNCHANGED <<job, sub, connected>> /\ pc[t] = "python" /\ gil = t
        /\ pc' = [pc EXCEPT ![t] = "native"]
        /\ \A u \in AppThreads : u # t => call'[u] = call[u]
        /\ gil' \in {t, NoThread}
    BY <1>4 DEF BeginSubscribe, InPython, GilAfterEntry
  <2> QED BY <2>1, KeepsNoWait
<1>5. ASSUME NEW t \in AppThreads, Install(t)
      PROVE  NoWait'
  <2> DEFINE j   == call[t].kind
             new == CHOOSE c \in call[t].cbs : TRUE
  <2>1. /\ pc[t] = "native" /\ UNCHANGED <<gil, job, connected>>
        /\ sub' = [sub EXCEPT ![j] = new]
        /\ pc' = [pc EXCEPT ![t] = "returning"]
        /\ \A u \in AppThreads : u # t => call'[u] = call[u]
    BY <1>5 DEF Install
  <2>2. PICK c \in Callbacks : call[t].cbs = {c}
    BY <2>1 DEF CallShape
  <2>3. new = c
    BY <2>2, InstalledCallback
  <2> HIDE DEF j, new
  <2>4. \A n \in NativeThreads : ~Delivering(n, c)
    <3>1. holders[c] = {t}
      BY <2>1, <2>2 DEF Ownership, OwnsAlone, AlonePc, Owned
    <3> QED BY <3>1 DEF Ownership, DeliveriesOwn
  <2>5. ClosedIsAwaited'
    <3> SUFFICES ASSUME ~connected, NEW k \in Drains, NEW n \in NativeThreads, NEW d,
                        sub'[k] = d, d # NoCallback, pc'[n] # "idle", job'[n].cb = d
                 PROVE  \E u \in AppThreads : pc'[u] = "draining" /\ d \in call'[u].waits
      BY <2>1 DEF ClosedIsAwaited, Delivering, Awaited
    <3>1. Delivering(n, d) /\ d # c
      BY <2>1, <2>4 DEF Delivering
    <3>2. sub[k] = d
      BY <2>1, <2>3, <3>1
    <3>3. \E u \in AppThreads : pc[u] = "draining" /\ d \in call[u].waits
      BY <3>1, <3>2 DEF NoWait, ClosedIsAwaited, Awaited
    <3> QED BY <2>1, <3>3
  <2>6. DestroyerIsDrained'
    BY <2>1 DEF NoWait, DestroyerIsDrained, Drained, Delivering
  <2>7. DrainShape'
    BY <2>1 DEF NoWait, DrainShape
  <2> QED BY <2>5, <2>6, <2>7 DEF NoWait
<1>6. ASSUME NEW t \in AppThreads, Refuse(t) \/ EndCall(t)
      PROVE  NoWait'
  <2>1. /\ UNCHANGED <<job, sub, connected>>
        /\ pc[t] # "draining" /\ pc'[t] # "draining"
        /\ \A u \in Threads : u # t => pc'[u] = pc[u]
        /\ \A u \in AppThreads : u # t => call'[u] = call[u]
        /\ gil' \in {t, gil}
    BY <1>6 DEF Refuse, EndCall
  <2> QED BY <2>1, KeepsNoWait
<1>7. ASSUME NEW t \in AppThreads, NEW j \in Kinds, BeginStop(t, j)
      PROVE  NoWait'
  <2>1. /\ InPython(t) /\ Teardown(t, "stop", j, {j}) /\ UNCHANGED job
        /\ j \in MediaKinds /\ connected' = connected /\ {j} \in SUBSET Kinds
    BY <1>7 DEF BeginStop
  <2> QED BY <2>1, TeardownNoWait
<1>8. ASSUME NEW t \in AppThreads, BeginShutdown(t)
      PROVE  NoWait'
  <2>1. /\ InPython(t) /\ UNCHANGED job
        /\ Teardown(t, "shutdown", "all", Kinds \cap MediaKinds)
        /\ connected' = FALSE /\ Kinds \cap MediaKinds \in SUBSET Kinds
    BY <1>8 DEF BeginShutdown
  <2> QED BY <2>1, TeardownNoWait
<1>9. ASSUME NEW t \in AppThreads, BeginDestroy(t)
      PROVE  NoWait'
  <2>1. /\ InPython(t) /\ UNCHANGED job
        /\ Teardown(t, "destroy", "all", Kinds)
        /\ connected' = FALSE /\ ~connected
        /\ \A u \in AppThreads : pc[u] = "python"
    BY <1>9 DEF BeginDestroy
  <2> QED BY <2>1, TeardownNoWait
<1>10. ASSUME NEW t \in AppThreads, FinishDrain(t)
       PROVE  NoWait'
  <2>1. /\ UNCHANGED <<gil, job, sub, connected>>
        /\ pc'[t] # "draining"
        /\ \A u \in Threads : u # t => pc'[u] = pc[u]
        /\ \A u \in AppThreads : u # t => call'[u] = call[u]
        /\ \A n \in NativeThreads : \A c \in call[t].waits : ~Delivering(n, c)
    BY <1>10 DEF FinishDrain, Drained
  <2>2. ClosedIsAwaited'
    <3> SUFFICES ASSUME ~connected, NEW k \in Drains, NEW n \in NativeThreads, NEW d,
                        sub'[k] = d, d # NoCallback, pc'[n] # "idle", job'[n].cb = d
                 PROVE  \E u \in AppThreads : pc'[u] = "draining" /\ d \in call'[u].waits
      BY <2>1 DEF ClosedIsAwaited, Delivering, Awaited
    <3>1. Delivering(n, d) /\ sub[k] = d
      BY <2>1 DEF Delivering
    <3>2. PICK u \in AppThreads : pc[u] = "draining" /\ d \in call[u].waits
      BY <3>1 DEF NoWait, ClosedIsAwaited, Awaited
    <3>3. u # t
      BY <2>1, <3>1, <3>2
    <3> QED BY <2>1, <3>2, <3>3
  <2>3. DestroyerIsDrained'
    <3> SUFFICES ASSUME NEW u \in AppThreads, pc'[u] = "draining", call'[u].op = "destroy"
                 PROVE  ~connected' /\ Drained(u)'
      BY DEF DestroyerIsDrained
    <3>1. u # t /\ pc[u] = "draining" /\ call'[u] = call[u]
      BY <2>1
    <3>2. ~connected /\ Drained(u)
      BY <3>1 DEF NoWait, DestroyerIsDrained
    <3> QED BY <2>1, <3>1, <3>2 DEF Drained, Delivering
  <2>4. DrainShape'
    BY <2>1 DEF NoWait, DrainShape
  <2> QED BY <2>2, <2>3, <2>4 DEF NoWait
<1>11. ASSUME NEW n \in NativeThreads, NEW j \in Kinds, BeginDelivery(n, j)
       PROVE  NoWait'
  <2>1. /\ UNCHANGED <<gil, call, sub, connected>> /\ connected
        /\ \A u \in AppThreads : pc'[u] = pc[u]
    BY <1>11 DEF BeginDelivery
  <2>2. ClosedIsAwaited' /\ DestroyerIsDrained'
    BY <2>1 DEF NoWait, ClosedIsAwaited, DestroyerIsDrained
  <2>3. DrainShape'
    BY <2>1 DEF NoWait, DrainShape
  <2> QED BY <2>2, <2>3 DEF NoWait
<1>12. ASSUME NEW n \in NativeThreads,
              EnterCallback(n) \/ PreemptCallback(n) \/ FinishCallback(n)
       PROVE  NoWait'
  <2>1. /\ UNCHANGED <<call, sub, connected>> /\ pc[n] # "idle"
        /\ \A u \in Threads : u # n => pc'[u] = pc[u]
        /\ pc'[n] # "idle" => job' = job
        /\ \A m \in NativeThreads : m # n => job'[m] = job[m]
        /\ gil' \in {n, NoThread}
    BY <1>12 DEF EnterCallback, PreemptCallback, FinishCallback
  <2> QED BY <2>1, KeepsNoWait
<1>13. ASSUME NEW t \in Threads, DeleterAcquire(t) \/ DeleterRun(t)
       PROVE  NoWait'
  <2>1. /\ UNCHANGED <<sub, connected>> /\ pc[t] \in {"dropping", "deleting"}
        /\ pc'[t] # "draining"
        /\ \A u \in Threads : u # t => pc'[u] = pc[u]
        /\ \A u \in AppThreads : u # t => call'[u] = call[u]
        /\ \A m \in NativeThreads : m # t => job'[m] = job[m]
        /\ (t \in NativeThreads /\ pc'[t] # "idle") => job'[t] = job[t]
        /\ gil' \in {t, NoThread}
    BY <1>13 DEF DeleterAcquire, DeleterRun
  <2> QED BY <2>1, KeepsNoWait
<1> HIDE DEF Threads, TypeInv, TypeOK
<1> QED
  BY <1>1, <1>2, <1>3, <1>4, <1>5, <1>6, <1>7, <1>8, <1>9, <1>10, <1>11, <1>12, <1>13
  DEF Next, AppNext, NativeNext, DeleterNext

(* No thread keeps the GIL while it waits for a delivery: the application  *)
(* closes the session before it drops the client, and of the media kinds   *)
(* native code waits for the deliveries of raw audio only.                 *)
THEOREM NoWaitUnderGil ==
  ASSUME OnlyAudioDrains, ExplicitClose
  PROVE  Spec => []NoGilWaitCycle
<1>1. Init => TypeInv /\ Ownership /\ NoWait
  <2>1. Init => NoWait
    BY ConstantsAssumption DEF Init, Threads, NoWait, ClosedIsAwaited, DestroyerIsDrained,
       DrainShape
  <2> QED BY <2>1, InitTypeInv, InitOwnership
<1>2. TypeInv /\ Ownership /\ NoWait /\ [Next]_vars => (TypeInv /\ Ownership /\ NoWait)'
  BY NextTypeInv, NextOwnership, NextNoWait
<1>3. TypeInv /\ Ownership /\ NoWait => NoGilWaitCycle
  <2> SUFFICES ASSUME TypeInv, NoWait, NEW t \in AppThreads, pc[t] = "draining", gil = t
               PROVE  Drained(t)
    BY DEF NoGilWaitCycle
  <2>1. /\ call[t].op \in {"stop", "shutdown", "destroy"}
        /\ ~ReleasesGil(call[t].op, call[t].kind)
    BY DEF NoWait, DrainShape
  <2>2. CASE call[t].op = "destroy"
    BY <2>2 DEF NoWait, DestroyerIsDrained
  <2>3. CASE call[t].op # "destroy"
    <3>1. call[t].op = "stop" /\ call[t].kind # "rawAudio"
      BY <2>1, <2>3 DEF ReleasesGil
    <3>2. call[t].waits = {}
      BY <3>1 DEF NoWait, DrainShape
    <3> QED BY <3>2 DEF Drained
  <2> QED BY <2>2, <2>3
<1> QED BY <1>1, <1>2, <1>3, PTL DEF Spec

-----------------------------------------------------------------------------
(* The refinement: every step of the bridge is a step of CallbackContract  *)
(* or none.                                                                *)

DeliveringPc == {"acquiring", "running"}

(* What the contract sees of the calls in progress is settled by the calls *)
(* that are in native code.                                                *)
LEMMA OfferedKept ==
  ASSUME \A t \in AppThreads : pc[t] = "native" <=> pc'[t] = "native",
         \A t \in AppThreads : pc[t] = "native" => call'[t] = call[t]
  PROVE  Offered' = Offered
  BY DEF Offered

(* What it sees of the deliveries, by the trampolines that have not ended. *)
LEMMA DeliveredKept ==
  ASSUME \A n \in NativeThreads : pc[n] \in DeliveringPc <=> pc'[n] \in DeliveringPc,
         \A n \in NativeThreads : pc[n] \in DeliveringPc => job'[n] = job[n]
  PROVE  Delivered' = Delivered
<1>1. ASSUME NEW n \in NativeThreads
      PROVE  (IF pc'[n] \in DeliveringPc THEN job'[n].cb ELSE NoCallback)
               = (IF pc[n] \in DeliveringPc THEN job[n].cb ELSE NoCallback)
  OBVIOUS
<1> QED BY <1>1 DEF Delivered, DeliveringPc

(* A step that opens, registers, delivers and deletes nothing.             *)
LEMMA ContractStutter ==
  ASSUME Offered' = Offered, Delivered' = Delivered, UNCHANGED <<sub, connected, live>>
  PROVE  UNCHANGED Contract!vars
  BY DEF Contract!vars

(* Functions that only a call or a deleter that is through with them still *)
(* owns are out of the contract's sight: deleting them is its Delete.      *)
LEMMA ContractDelete ==
  ASSUME TypeInv, Ownership, NEW t \in Threads, pc[t] \notin {"native"} \cup DeliveringPc,
         NEW cs \in SUBSET Callbacks, \A c \in cs : holders[c] = {t},
         Offered' = Offered, Delivered' = Delivered, live' = live \ cs,
         UNCHANGED <<sub, connected>>
  PROVE  Contract!Next
<1> USE ConstantsAssumption DEF Threads, TypeInv, TypeOK, Ownership
<1>1. cs \subseteq live
  BY DEF LiveIsOwned
<1>2. ASSUME NEW c \in cs PROVE ~Contract!Reachable(c)
  <2>1. c \in Callbacks /\ holders[c] = {t}
    OBVIOUS
  <2>2. c \notin Offered
    <3> SUFFICES ASSUME NEW u \in AppThreads, pc[u] = "native", c \in call[u].cbs
                 PROVE  FALSE
      BY DEF Offered
    <3>1. u \in holders[c]
      BY <2>1 DEF CallsOwn
    <3> QED BY <2>1, <3>1
  <2>3. \A k \in Kinds : sub[k] # c
    <3> SUFFICES ASSUME NEW k \in Kinds, sub[k] = c PROVE FALSE
      OBVIOUS
    <3>1. k \in holders[c]
      BY <2>1 DEF SlotsOwn
    <3> QED BY <2>1, <3>1
  <2>4. \A n \in NativeThreads : Delivered[n] # c
    <3> SUFFICES ASSUME NEW n \in NativeThreads, Delivered[n] = c PROVE FALSE
      OBVIOUS
    <3>1. pc[n] \in DeliveringPc /\ job[n].cb = c
      BY <2>1 DEF Delivered, DeliveringPc
    <3>2. n \in holders[c]
      BY <2>1, <3>1 DEF DeliveriesOwn, Delivering, DeliveringPc
    <3> QED BY <2>1, <3>1, <3>2
  <2> QED BY <2>2, <2>3, <2>4 DEF Contract!Reachable
<1>3. Contract!Delete(cs)
  BY <1>1, <1>2 DEF Contract!Delete
<1> QED BY <1>3 DEF Contract!Next

(* A bridge without clients offers, registers and delivers nothing.        *)
LEMMA ContractInit == Init => Contract!Init
<1> SUFFICES ASSUME Init PROVE Contract!Init
  OBVIOUS
<1> USE ConstantsAssumption DEF Init, Threads
<1>1. Offered = {}
  BY DEF Offered
<1>2. Delivered = [n \in NativeThreads |-> NoCallback]
  BY DEF Delivered
<1> QED BY <1>1, <1>2 DEF Contract!Init

(* start_* and the setters: native code takes the function or refuses it.  *)
LEMMA ContractInstall ==
  ASSUME TypeInv, Ownership, NEW t \in AppThreads, Install(t) \/ Refuse(t)
  PROVE  Contract!Next
<1> USE ConstantsAssumption DEF Threads, TypeInv, TypeOK, Ownership
<1> DEFINE k == call[t].kind
<1>1. pc[t] = "native" /\ pc' = [pc EXCEPT ![t] = "returning"]
  BY DEF Install, Refuse
<1>2. PICK c \in Callbacks : call[t].cbs = {c}
  BY <1>1 DEF CallShape
<1>3. k \in Kinds
  BY <1>1 DEF CallShape
<1>4. \A u \in AppThreads : u # t => call'[u] = call[u] /\ pc'[u] = pc[u]
  BY <1>1 DEF Install, Refuse
<1>5. c \in Offered
  BY <1>1, <1>2 DEF Offered
<1>6. \A u \in AppThreads \ {t} : pc[u] = "native" => c \notin call[u].cbs
  <2> SUFFICES ASSUME NEW u \in AppThreads \ {t}, pc[u] = "native", c \in call[u].cbs
               PROVE  FALSE
    OBVIOUS
  <2>1. u \in holders[c]
    BY DEF CallsOwn
  <2>2. holders[c] = {t}
    BY <1>1, <1>2 DEF OwnsAlone, AlonePc, Owned
  <2> QED BY <2>1, <2>2
<1>7. Offered' = Offered \ {c}
  <2>1. Offered' \subseteq Offered \ {c}
    BY <1>1, <1>4, <1>6 DEF Offered
  <2>2. Offered \ {c} \subseteq Offered'
    BY <1>1, <1>2, <1>4 DEF Offered
  <2> QED BY <2>1, <2>2
<1>8. Delivered' = Delivered
  <2>1. UNCHANGED job /\ \A n \in NativeThreads : pc'[n] = pc[n]
    BY <1>1 DEF Install, Refuse
  <2> QED BY <2>1, DeliveredKept
<1>9. CASE Install(t)
  <2>1. /\ k \in SetterKinds \/ sub[k] = NoCallback
        /\ sub' = [sub EXCEPT ![k] = CHOOSE x \in call[t].cbs : TRUE]
        /\ UNCHANGED <<connected, live>>
    BY <1>9 DEF Install
  <2>2. (CHOOSE x \in call[t].cbs : TRUE) = c
    BY <1>2, InstalledCallback
  <2>3. Contract!Register(k, c)
    BY <1>5, <1>7, <1>8, <2>1, <2>2 DEF Contract!Register
  <2> QED BY <1>3, <2>3 DEF Contract!Next
<1>10. CASE Refuse(t)
  <2>1. Contract!Decline(c)
    BY <1>5, <1>7, <1>8, <1>10 DEF Contract!Decline, Refuse
  <2> QED BY <2>1 DEF Contract!Next
<1> QED BY <1>9, <1>10

(* A teardown empties its slots; the functions it takes out of them live   *)
(* on until the call drops them.                                           *)
LEMMA ContractTeardown ==
  ASSUME TypeInv, NEW t \in AppThreads, pc[t] = "python", NEW op, NEW kind, NEW ks,
         Teardown(t, op, kind, ks), UNCHANGED <<job, live>>
  PROVE  Offered' = Offered /\ Delivered' = Delivered /\ Contract!Removed(ks)
<1> USE ConstantsAssumption DEF Threads, TypeInv, TypeOK
<1>1. /\ sub' = [k \in Kinds |-> IF k \in ks THEN NoCallback ELSE sub[k]]
      /\ pc' = [pc EXCEPT ![t] = "draining"]
      /\ \A u \in AppThreads : u # t => call'[u] = call[u]
  BY DEF Teardown
<1>2. Offered' = Offered
  BY <1>1, OfferedKept
<1>3. Delivered' = Delivered
  BY <1>1, DeliveredKept
<1> QED BY <1>1, <1>2, <1>3 DEF Contract!Removed

(* The end of a call deletes what only this call still owns.               *)
LEMMA ContractEndCall ==
  ASSUME TypeInv, Ownership, NEW t \in AppThreads, EndCall(t)
  PROVE  Contract!Next
<1> USE ConstantsAssumption DEF Threads, TypeInv, TypeOK
<1> DEFINE last == LastHeldBy(t, call[t].cbs)
<1>1. /\ pc[t] = "returning" /\ pc' = [pc EXCEPT ![t] = "python"]
      /\ \A u \in AppThreads : u # t => call'[u] = call[u]
      /\ live' = live \ last
      /\ UNCHANGED <<job, sub, connected>>
  BY DEF EndCall
<1>2. last \in SUBSET Callbacks /\ \A c \in last : holders[c] = {t}
  BY DEF LastHeldBy, Call
<1>3. Offered' = Offered
  BY <1>1, OfferedKept
<1>4. Delivered' = Delivered
  BY <1>1, DeliveredKept DEF DeliveringPc
<1>5. pc[t] \notin {"native"} \cup DeliveringPc
  BY <1>1 DEF DeliveringPc
<1> HIDE DEF last, TypeInv, TypeOK, Threads
<1>6. t \in Threads
  BY DEF Threads
<1> QED BY <1>1, <1>2, <1>3, <1>4, <1>5, <1>6, ContractDelete

(* The deleter runs on functions that nobody else owns.                    *)
LEMMA ContractDeleterRun ==
  ASSUME TypeInv, Ownership, NEW t \in Threads, DeleterRun(t)
  PROVE  Contract!Next
<1> USE ConstantsAssumption DEF Threads, TypeInv, TypeOK
<1>1. /\ pc[t] = "deleting" /\ live' = live \ Owned(t)
      /\ pc' = [pc EXCEPT ![t] = IF t \in AppThreads THEN "returning" ELSE "idle"]
      /\ \A u \in AppThreads : u # t => call'[u] = call[u]
      /\ \A n \in NativeThreads : n # t => job'[n] = job[n]
      /\ UNCHANGED <<sub, connected>>
  BY DEF DeleterRun
<1>2. \A c \in Owned(t) : holders[c] = {t}
  BY <1>1 DEF Ownership, OwnsAlone, AlonePc
<1>3. Owned(t) \in SUBSET Callbacks
  BY <1>1 DEF Ownership, DeliversCallback, Owned, Call
<1>4. Offered' = Offered
  BY <1>1, OfferedKept
<1>5. Delivered' = Delivered
  BY <1>1, DeliveredKept DEF DeliveringPc
<1>6. pc[t] \notin {"native"} \cup DeliveringPc
  BY <1>1 DEF DeliveringPc
<1> HIDE DEF TypeInv, TypeOK, Threads
<1> QED BY <1>1, <1>2, <1>3, <1>4, <1>5, <1>6, ContractDelete

(* The trampoline: a delivery starts with the function of its slot.        *)
LEMMA ContractDeliver ==
  ASSUME TypeInv, NEW n \in NativeThreads, NEW k \in Kinds, BeginDelivery(n, k)
  PROVE  Contract!Next
<1> USE ConstantsAssumption DEF Threads, TypeInv, TypeOK
<1>1. /\ pc[n] = "idle" /\ connected /\ sub[k] # NoCallback
      /\ job' = [job EXCEPT ![n] = [kind |-> k, cb |-> sub[k]]]
      /\ pc' = [pc EXCEPT ![n] = "acquiring"]
      /\ UNCHANGED <<call, sub, connected, live>>
  BY DEF BeginDelivery
<1>2. Offered' = Offered
  BY <1>1, OfferedKept
<1>3. Delivered[n] = NoCallback
  BY <1>1 DEF Delivered
<1>4. Delivered' = [Delivered EXCEPT ![n] = sub[k]]
  BY <1>1 DEF Delivered
<1>5. Contract!Deliver(n, k)
  BY <1>1, <1>2, <1>3, <1>4 DEF Contract!Deliver
<1> QED BY <1>5 DEF Contract!Next

(* It ends when the callback does, although the copy may have to be        *)
(* deleted first.                                                          *)
LEMMA ContractReturn ==
  ASSUME TypeInv, NEW n \in NativeThreads, FinishCallback(n)
  PROVE  Contract!Next
<1> USE ConstantsAssumption DEF Threads, TypeInv, TypeOK
<1>1. /\ pc'[n] \in {"dropping", "idle"}
      /\ \A u \in Threads : u # n => pc'[u] = pc[u]
      /\ \A m \in NativeThreads : m # n => job'[m] = job[m]
      /\ UNCHANGED <<call, sub, connected, live>>
  BY DEF FinishCallback
<1>2. Offered' = Offered
  BY <1>1, OfferedKept
<1>3. Delivered' = [Delivered EXCEPT ![n] = NoCallback]
  BY <1>1 DEF Delivered
<1>4. Contract!Return(n)
  BY <1>1, <1>2, <1>3 DEF Contract!Return
<1> QED BY <1>4 DEF Contract!Next

(* Every step of the bridge is a step of the contract, or changes nothing  *)
(* the contract speaks of.                                                 *)
LEMMA ContractStep ==
  TypeInv /\ Ownership /\ [Next]_vars => [Contract!Next]_(Contract!vars)
<1> SUFFICES ASSUME TypeInv, Ownership, [Next]_vars
             PROVE  Contract!Next \/ UNCHANGED Contract!vars
  OBVIOUS
<1> USE ConstantsAssumption DEF Threads
<1>1. CASE UNCHANGED vars
  BY <1>1, OfferedKept, DeliveredKept, ContractStutter DEF vars
<1>2. ASSUME NEW t \in AppThreads, AcquireGil(t) \/ YieldGil(t) \/ CreateClient(t)
      PROVE  UNCHANGED Contract!vars
  <2>1. UNCHANGED <<pc, call, job, sub, connected, live>>
    BY <1>2 DEF AcquireGil, YieldGil, CreateClient
  <2> QED BY <2>1, OfferedKept, DeliveredKept, ContractStutter
<1>3. ASSUME NEW t \in AppThreads, Connect(t)
      PROVE  Contract!Next
  <2>1. UNCHANGED <<pc, call, job, sub, live>> /\ connected' = TRUE
    BY <1>3 DEF Connect
  <2>2. Contract!Open
    BY <2>1, OfferedKept, DeliveredKept DEF Contract!Open
  <2> QED BY <2>2 DEF Contract!Next
<1>4. ASSUME NEW t \in AppThreads, NEW k \in Kinds, NEW c \in Callbacks, BeginSubscribe(t, k, c)
      PROVE  Contract!Next
  <2>1. /\ pc[t] = "python" /\ c \notin live /\ live' = live \cup {c}
        /\ pc' = [pc EXCEPT ![t] = "native"]
        /\ call' = [call EXCEPT ![t] = [op |-> "subscribe", kind |-> k, cbs |-> {c},
                                        waits |-> {}]]
        /\ UNCHANGED <<job, sub, connected>>
    BY <1>4 DEF BeginSubscribe, InPython
  <2>2. Offered' = Offered \cup {c}
    <3>1. pc'[t] = "native" /\ call'[t].cbs = {c}
      BY <2>1 DEF TypeInv, TypeOK
    <3>2. \A u \in AppThreads : u # t => pc'[u] = pc[u] /\ call'[u] = call[u]
      BY <2>1 DEF TypeInv, TypeOK
    <3> QED BY <2>1, <3>1, <3>2 DEF Offered
  <2>3. Delivered' = Delivered
    BY <2>1, DeliveredKept DEF TypeInv, TypeOK
  <2>4. Contract!Offer(c)
    BY <2>1, <2>2, <2>3 DEF Contract!Offer
  <2> QED BY <2>4 DEF Contract!Next
<1>5. ASSUME NEW t \in AppThreads, Install(t) \/ Refuse(t)
      PROVE  Contract!Next
  BY <1>5, ContractInstall
<1>6. ASSUME NEW t \in AppThreads, EndCall(t)
      PROVE  Contract!Next
  BY <1>6, ContractEndCall
<1>7. ASSUME NEW t \in AppThreads, NEW k \in Kinds, BeginStop(t, k)
      PROVE  Contract!Next
  <2>1. /\ pc[t] = "python" /\ Teardown(t, "stop", k, {k})
        /\ UNCHANGED <<job, live, connected>>
    BY <1>7 DEF BeginStop, InPython
  <2>2. Contract!Stop(k)
    BY <2>1, ContractTeardown DEF Contract!Stop
  <2> QED BY <2>2 DEF Contract!Next
<1>8. ASSUME NEW t \in AppThreads, BeginShutdown(t)
      PROVE  Contract!Next
  <2>1. /\ pc[t] = "python" /\ connected' = FALSE
        /\ Teardown(t, "shutdown", "all", Kinds \cap MediaKinds)
        /\ UNCHANGED <<job, live>>
    BY <1>8 DEF BeginShutdown, InPython
  <2>2. Kinds \cap MediaKinds = Kinds \ SetterKinds
    BY DEF MediaKinds, SetterKinds
  <2>3. Contract!Close
    BY <2>1, <2>2, ContractTeardown DEF Contract!Close
  <2> QED BY <2>3 DEF Contract!Next
<1>9. ASSUME NEW t \in AppThreads, BeginDestroy(t)
      PROVE  Contract!Next
  <2>1. /\ pc[t] = "python" /\ connected' = FALSE
        /\ Teardown(t, "destroy", "all", Kinds)
        /\ UNCHANGED <<job, live>>
    BY <1>9 DEF BeginDestroy, InPython
  <2>2. Contract!Close
    BY <2>1, ContractTeardown DEF Contract!Close
  <2> QED BY <2>2 DEF Contract!Next
<1>10. ASSUME NEW t \in AppThreads, FinishDrain(t)
       PROVE  UNCHANGED Contract!vars
  <2>1. /\ pc[t] = "draining" /\ pc'[t] \in {"returning", "dropping"}
        /\ \A u \in Threads : u # t => pc'[u] = pc[u]
        /\ \A u \in AppThreads : u # t => call'[u] = call[u]
        /\ UNCHANGED <<job, sub, connected, live>>
    BY <1>10 DEF FinishDrain, TypeInv, TypeOK
  <2>2. Offered' = Offered
    BY <2>1, OfferedKept
  <2>3. Delivered' = Delivered
    BY <2>1, DeliveredKept
  <2> QED BY <2>1, <2>2, <2>3, ContractStutter
<1>11. ASSUME NEW n \in NativeThreads, NEW k \in Kinds, BeginDelivery(n, k)
       PROVE  Contract!Next
  BY <1>11, ContractDeliver
<1>12. ASSUME NEW n \in NativeThreads, EnterCallback(n) \/ PreemptCallback(n)
       PROVE  UNCHANGED Contract!vars
  <2>1. /\ pc[n] \in DeliveringPc /\ pc'[n] \in DeliveringPc
        /\ \A u \in Threads : u # n => pc'[u] = pc[u]
        /\ UNCHANGED <<call, job, sub, connected, live>>
    BY <1>12 DEF EnterCallback, PreemptCallback, TypeInv, TypeOK, DeliveringPc
  <2>2. Offered' = Offered
    BY <2>1, OfferedKept
  <2>3. Delivered' = Delivered
    BY <2>1, DeliveredKept
  <2> QED BY <2>1, <2>2, <2>3, ContractStutter
<1>13. ASSUME NEW n \in NativeThreads, FinishCallback(n)
       PROVE  Contract!Next
  BY <1>13, ContractReturn
<1>14. ASSUME NEW t \in Threads, DeleterAcquire(t)
       PROVE  UNCHANGED Contract!vars
  <2>1. /\ pc[t] = "dropping" /\ pc'[t] = "deleting"
        /\ \A u \in Threads : u # t => pc'[u] = pc[u]
        /\ UNCHANGED <<call, job, sub, connected, live>>
    BY <1>14 DEF DeleterAcquire, TypeInv, TypeOK
  <2>2. Offered' = Offered
    BY <2>1, OfferedKept
  <2>3. Delivered' = Delivered
    BY <2>1, DeliveredKept DEF DeliveringPc
  <2> QED BY <2>1, <2>2, <2>3, ContractStutter
<1>15. ASSUME NEW t \in Threads, DeleterRun(t)
       PROVE  Contract!Next
  BY <1>15, ContractDeleterRun
<1> HIDE DEF Threads
<1> QED
  BY <1>1, <1>2, <1>3, <1>4, <1>5, <1>6, <1>7, <1>8, <1>9, <1>10, <1>11, <1>12, <1>13,
     <1>14, <1>15 DEF Next, AppNext, NativeNext, DeleterNext

(* The bindings keep the contract of callbacks in every interleaving: what *)
(* is delivered is registered, and a function is deleted when neither a    *)
(* slot nor a trampoline nor a call in native code can reach it.           *)
THEOREM ImplementsContract == Spec => KeepsCallbackContract
<1>1. Init => TypeInv /\ Ownership /\ Contract!Init
  BY InitTypeInv, InitOwnership, ContractInit
<1>2. TypeInv /\ Ownership /\ [Next]_vars => (TypeInv /\ Ownership)'
  BY NextTypeInv, NextOwnership
<1>3. TypeInv /\ Ownership /\ [Next]_vars => [Contract!Next]_(Contract!vars)
  BY ContractStep
<1> QED BY <1>1, <1>2, <1>3, PTL DEF Spec, KeepsCallbackContract, Contract!Spec
=============================================================================
