--------------------------- MODULE CallbackBridge ---------------------------
(***************************************************************************)
(* The bridge between Python callables and the native SDK                  *)
(* (src/src/MotionSdkPython.cpp).                                          *)
(*                                                                         *)
(* A binding that registers a callback wraps the Python function in a      *)
(* PyCallback (a shared_ptr whose deleter takes the GIL) and gives native  *)
(* code a trampoline that captures it.  Native threads run the trampoline, *)
(* which takes the GIL around the call.  A binding either keeps the GIL    *)
(* during the native call or releases it (py::gil_scoped_release).         *)
(*                                                                         *)
(* Native code is not part of the repository.  What the model takes of it: *)
(* a delivery copies the stored std::function; stopping a subscription,    *)
(* closing the session and destroying the client remove the function first *)
(* and then, for the kinds in Drains, wait for the deliveries of it.       *)
(***************************************************************************)
EXTENDS Naturals, FiniteSets

CONSTANTS
  AppThreads,    \* Python threads that call the SDK
  NativeThreads, \* SDK threads that deliver callbacks
  Kinds,         \* the callback registrations in use
  Callbacks,     \* identities of PyCallback objects
  Drains,        \* the kinds whose teardown waits for deliveries in flight
  ExplicitClose, \* the application closes the session before it drops the client
  NoThread, NoCallback

MediaKinds  == {"rawVideo", "encodedVideo", "rawAudio"}
SetterKinds == {"connect", "observed", "event"}

Threads == AppThreads \cup NativeThreads

ASSUME ConstantsAssumption ==
  /\ AppThreads \cap NativeThreads = {}
  /\ Kinds \subseteq MediaKinds \cup SetterKinds
  /\ Drains \subseteq Kinds
  /\ Kinds \cap Threads = {}
  /\ ExplicitClose \in BOOLEAN
  /\ NoThread \notin Threads
  /\ NoCallback \notin Callbacks

VARIABLES
  gil,       \* the thread that holds the interpreter lock
  pc,        \* where each thread is
  call,      \* the binding an application thread is in
  job,       \* the callback a native thread is delivering
  sub,       \* the function native code stores for each kind
  holders,   \* who owns a copy of each PyCallback
  live,      \* the PyCallbacks whose Python function has not been deleted
  connected, \* the session delivers callbacks
  client     \* the client object exists

vars == <<gil, pc, call, job, sub, holders, live, connected, client>>

Op == {"none", "subscribe", "stop", "shutdown", "destroy"}

(* What a call owns (cbs) and which callbacks its teardown waits for.      *)
Call == [op : Op, kind : Kinds \cup {"all"}, cbs : SUBSET Callbacks,
         waits : SUBSET Callbacks]

NoCall == [op |-> "none", kind |-> "all", cbs |-> {}, waits |-> {}]

AppPc    == {"python", "native", "draining", "dropping", "deleting", "returning"}
NativePc == {"idle", "acquiring", "running", "dropping", "deleting"}

(* Which bindings carry py::gil_scoped_release.                            *)
ReleasesGilExceptAudioStop(op, kind) ==
  op = "shutdown" \/ (op = "subscribe" /\ kind = "rawAudio")

ReleasesGil(op, kind) ==
  \/ op = "shutdown"
  \/ op \in {"subscribe", "stop"} /\ kind = "rawAudio"

GilAfterEntry(t, op, kind) == IF ReleasesGil(op, kind) THEN NoThread ELSE t

(* The references a thread gives up, and the callbacks it held last.       *)
Without(t, cbs) == [c \in Callbacks |-> IF c \in cbs THEN holders[c] \ {t}
                                                     ELSE holders[c]]
LastHeldBy(t, cbs) == {c \in cbs : holders[c] = {t}}

NoJob == [kind |-> "all", cb |-> NoCallback]

Delivering(n, c) == pc[n] # "idle" /\ job[n].cb = c

(* Native code serialises connect with a disconnect in progress.           *)
Closing(t) == pc[t] # "python" /\ call[t].op \in {"shutdown", "destroy"}

Init ==
  /\ gil = NoThread
  /\ pc = [t \in Threads |-> IF t \in AppThreads THEN "python" ELSE "idle"]
  /\ call = [t \in AppThreads |-> NoCall]
  /\ job = [n \in NativeThreads |-> NoJob]
  /\ sub = [k \in Kinds |-> NoCallback]
  /\ holders = [c \in Callbacks |-> {}]
  /\ live = {}
  /\ connected = FALSE
  /\ client = FALSE

-----------------------------------------------------------------------------
(* Python threads and the interpreter lock.                                *)

InPython(t) == pc[t] = "python" /\ gil = t

AcquireGil(t) ==
  /\ pc[t] = "python"
  /\ gil = NoThread
  /\ gil' = t
  /\ UNCHANGED <<pc, call, job, sub, holders, live, connected, client>>

YieldGil(t) ==
  /\ InPython(t)
  /\ gil' = NoThread
  /\ UNCHANGED <<pc, call, job, sub, holders, live, connected, client>>

CreateClient(t) ==
  /\ InPython(t)
  /\ ~client
  /\ client' = TRUE
  /\ UNCHANGED <<gil, pc, call, job, sub, holders, live, connected>>

Connect(t) ==
  /\ InPython(t)
  /\ client
  /\ \A u \in AppThreads : ~Closing(u)
  /\ connected' = TRUE
  /\ UNCHANGED <<gil, pc, call, job, sub, holders, live, client>>

-----------------------------------------------------------------------------
(* A binding that registers a callback: start_raw_audio_frame and the      *)
(* video variants, and the set_*_callback setters.                         *)

BeginSubscribe(t, k, c) ==
  /\ InPython(t)
  /\ client
  /\ c \notin live
  /\ live' = live \cup {c}
  /\ holders' = [holders EXCEPT ![c] = {t}]
  /\ call' = [call EXCEPT ![t] = [op |-> "subscribe", kind |-> k, cbs |-> {c},
                                  waits |-> {}]]
  /\ pc' = [pc EXCEPT ![t] = "native"]
  /\ gil' = GilAfterEntry(t, "subscribe", k)
  /\ UNCHANGED <<job, sub, connected, client>>

(* The trampoline captures the PyCallback by value; native code stores it  *)
(* and gives up the function it replaces.                                  *)
InstallCapturedByReference(t) ==
  LET k   == call[t].kind
      new == CHOOSE c \in call[t].cbs : TRUE
  IN /\ pc[t] = "native"
     /\ k \in SetterKinds \/ sub[k] = NoCallback
     /\ sub' = [sub EXCEPT ![k] = new]
     /\ pc' = [pc EXCEPT ![t] = "returning"]
     /\ UNCHANGED <<gil, call, job, holders, live, connected, client>>

Install(t) ==
  LET k   == call[t].kind
      new == CHOOSE c \in call[t].cbs : TRUE
      old == {sub[k]} \ {NoCallback}
  IN /\ pc[t] = "native"
     /\ k \in SetterKinds \/ sub[k] = NoCallback
     /\ sub' = [sub EXCEPT ![k] = new]
     /\ holders' = [c \in Callbacks |->
                      IF c = new THEN holders[c] \cup {k}
                      ELSE IF c \in old THEN (holders[c] \ {k}) \cup {t}
                      ELSE holders[c]]
     /\ call' = [call EXCEPT ![t].cbs = @ \cup old]
     /\ pc' = [pc EXCEPT ![t] = "returning"]
     /\ UNCHANGED <<gil, job, live, connected, client>>

(* startXxx returns false: native code keeps nothing.                      *)
Refuse(t) ==
  /\ pc[t] = "native"
  /\ call[t].kind \in MediaKinds
  /\ pc' = [pc EXCEPT ![t] = "returning"]
  /\ UNCHANGED <<gil, call, job, sub, holders, live, connected, client>>

(* The scope of the binding ends: the GIL is taken back before the local   *)
(* PyCallback is destroyed.                                                *)
EndCallLeaks(t) ==
  /\ pc[t] = "returning"
  /\ gil \in {NoThread, t}
  /\ gil' = t
  /\ call' = [call EXCEPT ![t] = NoCall]
  /\ pc' = [pc EXCEPT ![t] = "python"]
  /\ UNCHANGED <<job, sub, holders, live, connected, client>>

EndCallDeletes(t) ==
  /\ pc[t] = "returning"
  /\ gil \in {NoThread, t}
  /\ gil' = t
  /\ live' = live \ call[t].cbs
  /\ holders' = Without(t, call[t].cbs)
  /\ call' = [call EXCEPT ![t] = NoCall]
  /\ pc' = [pc EXCEPT ![t] = "python"]
  /\ UNCHANGED <<job, sub, connected, client>>

EndCall(t) ==
  /\ pc[t] = "returning"
  /\ gil \in {NoThread, t}
  /\ gil' = t
  /\ live' = live \ LastHeldBy(t, call[t].cbs)
  /\ holders' = Without(t, call[t].cbs)
  /\ call' = [call EXCEPT ![t] = NoCall]
  /\ pc' = [pc EXCEPT ![t] = "python"]
  /\ UNCHANGED <<job, sub, connected, client>>

-----------------------------------------------------------------------------
(* Teardown: native code moves the stored functions out of their slots,    *)
(* waits for the deliveries of those that drain, then destroys them.       *)

Teardown(t, op, kind, ks) ==
  LET gone(k)  == {sub[k]} \ {NoCallback}
      moved    == UNION {gone(k) : k \in ks}
      awaited  == UNION {gone(k) : k \in Drains \cap
                           (IF op = "stop" THEN ks ELSE Kinds)}
  IN /\ sub' = [k \in Kinds |-> IF k \in ks THEN NoCallback ELSE sub[k]]
     /\ holders' = [c \in Callbacks |-> IF c \in moved
                      THEN (holders[c] \ ks) \cup {t} ELSE holders[c]]
     /\ call' = [call EXCEPT ![t] = [op |-> op, kind |-> kind, cbs |-> moved,
                                     waits |-> awaited]]
     /\ pc' = [pc EXCEPT ![t] = "draining"]
     /\ gil' = GilAfterEntry(t, op, kind)

(* stop_raw_video_frame, stop_encoded_video_frame, stop_raw_audio_frame.   *)
BeginStop(t, k) ==
  /\ InPython(t)
  /\ client
  /\ k \in MediaKinds
  /\ Teardown(t, "stop", k, {k})
  /\ UNCHANGED <<job, live, connected, client>>

(* MediaBusClient.shutdown and disconnect: deliveries end, the functions   *)
(* given to setters stay with the client.                                  *)
BeginShutdown(t) ==
  /\ InPython(t)
  /\ client
  /\ connected' = FALSE
  /\ Teardown(t, "shutdown", "all", Kinds \cap MediaKinds)
  /\ UNCHANGED <<job, live, client>>

(* Python drops the last reference to the client object: the shared_ptr    *)
(* holder is destroyed by tp_dealloc, with the GIL held.  A thread inside  *)
(* a call keeps the object alive.                                          *)
BeginDestroy(t) ==
  /\ InPython(t)
  /\ client
  /\ \A u \in AppThreads : pc[u] = "python"
  /\ ExplicitClose =>
       /\ ~connected
       /\ \A k \in Kinds \cap MediaKinds : sub[k] = NoCallback
  /\ client' = FALSE
  /\ connected' = FALSE
  /\ Teardown(t, "destroy", "all", Kinds)
  /\ UNCHANGED <<job, live>>

DrainedAtOnce(t) == TRUE

Drained(t) == \A n \in NativeThreads : \A c \in call[t].waits : ~Delivering(n, c)

FinishDrain(t) ==
  LET last == LastHeldBy(t, call[t].cbs)
  IN /\ pc[t] = "draining"
     /\ Drained(t)
     /\ holders' = Without(t, call[t].cbs \ last)
     /\ call' = [call EXCEPT ![t].cbs = last]
     /\ pc' = [pc EXCEPT ![t] = IF last = {} THEN "returning" ELSE "dropping"]
     /\ UNCHANGED <<gil, job, sub, live, connected, client>>

-----------------------------------------------------------------------------
(* The deleter of PyCallback, on whichever thread drops the last copy.     *)

Owned(t) == IF t \in AppThreads THEN call[t].cbs ELSE {job[t].cb}

KeepsGil(t) == t \in AppThreads /\ ~ReleasesGil(call[t].op, call[t].kind)

DeleterWithoutGil(t) ==
  /\ pc[t] = "dropping"
  /\ pc' = [pc EXCEPT ![t] = "deleting"]
  /\ UNCHANGED <<gil, call, job, sub, holders, live, connected, client>>

DeleterAcquire(t) ==
  /\ pc[t] = "dropping"
  /\ gil \in {NoThread, t}
  /\ gil' = t
  /\ pc' = [pc EXCEPT ![t] = "deleting"]
  /\ UNCHANGED <<call, job, sub, holders, live, connected, client>>

DeleterRun(t) ==
  /\ pc[t] = "deleting"
  /\ live' = live \ Owned(t)
  /\ holders' = Without(t, Owned(t))
  /\ gil' = IF KeepsGil(t) THEN t ELSE NoThread
  /\ IF t \in AppThreads
     THEN /\ call' = [call EXCEPT ![t].cbs = {}]
          /\ pc' = [pc EXCEPT ![t] = "returning"]
          /\ UNCHANGED job
     ELSE /\ job' = [job EXCEPT ![t] = NoJob]
          /\ pc' = [pc EXCEPT ![t] = "idle"]
          /\ UNCHANGED call
  /\ UNCHANGED <<sub, connected, client>>

-----------------------------------------------------------------------------
(* The trampoline on a native thread.                                      *)

BeginDelivery(n, k) ==
  /\ pc[n] = "idle"
  /\ connected
  /\ sub[k] # NoCallback
  /\ job' = [job EXCEPT ![n] = [kind |-> k, cb |-> sub[k]]]
  /\ holders' = [holders EXCEPT ![sub[k]] = @ \cup {n}]
  /\ pc' = [pc EXCEPT ![n] = "acquiring"]
  /\ UNCHANGED <<gil, call, sub, live, connected, client>>

EnterCallback(n) ==
  /\ pc[n] = "acquiring"
  /\ gil = NoThread
  /\ gil' = n
  /\ pc' = [pc EXCEPT ![n] = "running"]
  /\ UNCHANGED <<call, job, sub, holders, live, connected, client>>

(* The interpreter switches threads inside the callback.                   *)
PreemptCallback(n) ==
  /\ pc[n] = "running"
  /\ gil' = NoThread
  /\ pc' = [pc EXCEPT ![n] = "acquiring"]
  /\ UNCHANGED <<call, job, sub, holders, live, connected, client>>

(* The callback returns or raises (error_already_set is discarded): the    *)
(* GIL is released on both paths and native code drops its copy.           *)
FinishCallbackKeepsGil(n) ==
  LET c == job[n].cb IN
  /\ pc[n] = "running"
  /\ IF holders[c] = {n}
     THEN /\ pc' = [pc EXCEPT ![n] = "dropping"]
          /\ UNCHANGED <<job, holders>>
     ELSE /\ pc' = [pc EXCEPT ![n] = "idle"]
          /\ job' = [job EXCEPT ![n] = NoJob]
          /\ holders' = Without(n, {c})
  /\ UNCHANGED <<gil, call, sub, live, connected, client>>

FinishCallback(n) ==
  LET c == job[n].cb IN
  /\ pc[n] = "running"
  /\ gil' = NoThread
  /\ IF holders[c] = {n}
     THEN /\ pc' = [pc EXCEPT ![n] = "dropping"]
          /\ UNCHANGED <<job, holders>>
     ELSE /\ pc' = [pc EXCEPT ![n] = "idle"]
          /\ job' = [job EXCEPT ![n] = NoJob]
          /\ holders' = Without(n, {c})
  /\ UNCHANGED <<call, sub, live, connected, client>>

-----------------------------------------------------------------------------

AppNext(t) ==
  \/ AcquireGil(t) \/ YieldGil(t) \/ CreateClient(t) \/ Connect(t)
  \/ \E k \in Kinds, c \in Callbacks : BeginSubscribe(t, k, c)
  \/ Install(t) \/ Refuse(t) \/ EndCall(t)
  \/ \E k \in Kinds : BeginStop(t, k)
  \/ BeginShutdown(t) \/ BeginDestroy(t) \/ FinishDrain(t)

NativeNext(n) ==
  \/ \E k \in Kinds : BeginDelivery(n, k)
  \/ EnterCallback(n) \/ PreemptCallback(n) \/ FinishCallback(n)

DeleterNext(t) == DeleterAcquire(t) \/ DeleterRun(t)

Next ==
  \/ \E t \in AppThreads : AppNext(t)
  \/ \E n \in NativeThreads : NativeNext(n)
  \/ \E t \in Threads : DeleterNext(t)

Spec == Init /\ [][Next]_vars

(* CPython hands the lock to a waiting thread (the eval loop answers a     *)
(* drop request by a forced switch), so a waiter that finds the lock free  *)
(* again and again gets it; a Python thread that has it gives it up; a     *)
(* callback is documented not to block, so it ends although preempted.     *)
Fairness ==
  /\ \A t \in AppThreads :
       /\ SF_vars(YieldGil(t))
       /\ WF_vars(Install(t) \/ Refuse(t))
       /\ SF_vars(EndCall(t))
       /\ WF_vars(FinishDrain(t))
  /\ \A n \in NativeThreads :
       /\ SF_vars(EnterCallback(n))
       /\ SF_vars(FinishCallback(n))
  /\ \A t \in Threads :
       /\ SF_vars(DeleterAcquire(t))
       /\ WF_vars(DeleterRun(t))

FairSpec == Spec /\ Fairness
-----------------------------------------------------------------------------

(* The types of the state: a thread is where its role allows, and what it  *)
(* calls or delivers names a kind and a callback.                          *)
TypeOK ==
  /\ gil \in Threads \cup {NoThread}
  /\ pc \in [Threads -> AppPc \cup NativePc]
  /\ \A t \in AppThreads : pc[t] \in AppPc
  /\ \A n \in NativeThreads : pc[n] \in NativePc
  /\ call \in [AppThreads -> Call]
  /\ job \in [NativeThreads -> [kind : Kinds \cup {"all"},
                                cb : Callbacks \cup {NoCallback}]]
  /\ sub \in [Kinds -> Callbacks \cup {NoCallback}]
  /\ holders \in [Callbacks -> SUBSET (Threads \cup Kinds)]
  /\ live \subseteq Callbacks
  /\ connected \in BOOLEAN
  /\ client \in BOOLEAN

(* A Python function runs, and is deleted, only by the thread that holds   *)
(* the GIL: the trampolines' gil_scoped_acquire and PyCallback's deleter.  *)
PythonOnlyUnderGil ==
  \A t \in Threads : pc[t] \in {"running", "deleting"} => gil = t

(* No function that native code stores or delivers has been deleted: the   *)
(* trampoline owns its PyCallback.                                         *)
NoDanglingCallback ==
  /\ \A k \in Kinds : sub[k] # NoCallback => sub[k] \in live
  /\ \A n \in NativeThreads : pc[n] # "idle" => job[n].cb \in live

(* Every live PyCallback is stored, in delivery or owned by a call that    *)
(* has not returned: none is leaked.                                       *)
NoLeakedCallback ==
  \A c \in live :
    \/ \E k \in Kinds : sub[k] = c
    \/ \E n \in NativeThreads : Delivering(n, c)
    \/ \E t \in AppThreads : pc[t] # "python" /\ c \in call[t].cbs

(* Once a stop, shutdown or destruction that removed a media callback has  *)
(* returned, no thread is inside that callback any more, if native code    *)
(* waits for the kind: a delivery in flight is of a stored function or of  *)
(* one that a teardown still waits for.                                    *)
QuietAfterTeardown ==
  \A n \in NativeThreads :
    (pc[n] # "idle" /\ job[n].kind \in Drains \cap MediaKinds) =>
      \/ sub[job[n].kind] = job[n].cb
      \/ \E t \in AppThreads : pc[t] = "draining" /\ job[n].cb \in call[t].waits

(* No thread keeps the GIL while it waits for a delivery, which needs the  *)
(* GIL to end: the wait cycle py::gil_scoped_release is there to prevent.  *)
NoGilWaitCycle ==
  \A t \in AppThreads : (pc[t] = "draining" /\ gil = t) => Drained(t)

(* Every binding that was entered returns to Python.                       *)
EveryCallReturns ==
  \A t \in AppThreads : (pc[t] # "python") ~> (pc[t] = "python")

(* Every delivery that native code starts ends and frees its thread.       *)
EveryDeliveryEnds ==
  \A n \in NativeThreads : (pc[n] # "idle") ~> (pc[n] = "idle")

(* The contract sees a callable from the binding's entry until native code *)
(* decides on it, in its slot, and in the trampoline that calls it.        *)
Offered == {c \in Callbacks : \E t \in AppThreads :
                                pc[t] = "native" /\ c \in call[t].cbs}

Delivered == [n \in NativeThreads |->
                IF pc[n] \in {"acquiring", "running"} THEN job[n].cb ELSE NoCallback]

Contract == INSTANCE CallbackContract
              WITH offered <- Offered, delivered <- Delivered, Replaceable <- SetterKinds

(* The bridge keeps the contract of callbacks: what is delivered is what   *)
(* is registered at that time, a Python function is deleted once, by the   *)
(* EndCall or DeleterRun that drops its last copy, and nothing can reach   *)
(* it then: no slot, no trampoline, no registration in progress.           *)
KeepsCallbackContract == Contract!Spec
=============================================================================
