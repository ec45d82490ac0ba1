# Verification of the uniubi robot SDK for Python

The repository binds a native robot SDK to Python (pybind11) and comes with the
programs that drive a robot through it. The TLA+ modules here model what is
hard in it: callbacks that cross the interpreter lock, memory that frames
share, byte arithmetic over blocks from another process, and programs in which
a user, a control thread and an asynchronous robot session meet.

Paths are relative to the repository's root (`src/` in `PROJECT.json`). The
native SDK is closed source: what it does is modelled from how this code uses
it, as nondeterministic actions of the environment.

## Inventory

### Callback bridge (`src/MotionSdkPython.cpp`)

*State*: the Python function behind each registration (a `PyCallback`, a shared
pointer whose deleter takes the GIL), the trampoline that native code stores,
the GIL. *Operations*: `set_*_callback`, `start_*`/`stop_*` of three media
channels, `connect`, `disconnect`, `shutdown`, destruction, and the deliveries
of native threads. *Interaction*: Python threads call in with the GIL, which a
binding keeps or releases; native threads call out and need it. *Hard*: a
callback replaced or stopped while it runs, the last reference dropped on any
thread, a subscription that fails, waiting for a delivery with the GIL.
*Correct if*: no function is used after its deletion or leaked, Python runs
under the GIL only, nothing is delivered after a teardown that drains, and no
binding waits for what needs its own lock.

### Frame ownership (`src/MediaFrameBindings.cpp`)

*State*: blocks of the native frame pools, handles on them, the Python objects
that own a handle or an address. *Operations*: frames from bytes and an info,
reading and setting a frame's info, `view`, `plane_view`, `row_view`, the buffer
protocol, `reset`, deallocation, `AudioRawBackStream.write` without the GIL.
*Hard*: objects go in any order, `row_view` owns nothing and relies on
`keep_alive`, an info carries addresses and no handle, a write races with the drop
of its frame. *Correct if*: a view reads the block its handle keeps, handles and
owners balance, unreachable blocks return to the pool.

### Metadata readers (`src/MediaFrameBindings.cpp`)

*State*: offsets and counts, `uint32_t`, over a block another process wrote.
*Operations*: `metadata_items`, `metadata_dict`, `get_imu_metadata`. *Hard*:
sums that wrap, a second walk without checks. *Correct if*: no byte outside the
block is read and the second walk finds what the first accepted.

### Plane geometry (`src/MediaFrameBindings.cpp`, `examples/example_media_frames.py`)

Shape, strides and address of each plane per pixel format, computed from
optional fields, and the example that saves a frame row by row. Sequential.
*Hard*: odd sizes, padding, defaults in other units than the fields. *Correct
if*: rows begin where the producer put them and a saved file holds the pixels.

### Low-level policy console (`examples/example_lowlevel_tensorrt.py`)

*State*: the loop's mode, hold pose and last action under a lock; the noted
posture; the session. *Operations*: `stand`, `walk`, `stop`, `lay`, `restore`,
`quit`, and the control thread's cycle. *Interaction*: both threads send frames
through one client; enabling and disabling are requests that are answered
later. *Hard*: `pause()` sets the mode and sleeps, it does not wait for the
thread; three variables describe the robot's pose; the session can be lost.
*Correct if*: one thread sends at a time, each frame continues the pose the
robot has, built-in control gets a robot that lies, the loop has ended before
what it uses.

### High-level console (`examples/example_highlevel.py`)

*State*: `controlled`, `action_active`, the session, `_stopping`. *Operations*:
`take`, `release`, `start`, `set`, `send`, `zero`, `stop`, `estop`, `quit`,
signals. *Hard*: requests that time out but are carried out, control granted
late or lost, a signal within a timed send. *Correct if*: the robot is at rest
when a timed send ends and when control is given back, control is given back
on exit, a signal ends the program.

### Low-level templates (`examples/example_lowlevel.py`, `examples/release_control_to_dv500.py`)

*State*: a `threading.Event` set on state changes. *Operation*: waiting for a
state with a deadline. *Hard*: reading the state and clearing the event are two
steps. *Correct if*: the answer is what the state is and a lost wake-up costs
little.

### Life of the example programs (`examples/*.py`, `robot_motion_sdk/__init__.py`)

*State*: what native code holds for a program (service, session, media bus,
streams, playback, observation, motor control, motion mode, control thread, GPU
buffers) and the variables by which the program knows. *Operations*: the SDK
calls of `main()` in their order and the releases of its `finally` blocks. *Hard*:
any call can be refused or raise, Ctrl+C can fall between a call and the
assignment that notes it, `create_media_bus_client` wraps `None`, one release
that fails must not stop the others. *Correct if*: what was opened is given back,
inner things first, and exit code 0 vouches for it.

### Media capture (`examples/example_media_frames*.py`, `examples/example_audio_capture.py`)

*State*: a buffer per channel under one lock, the flag `accepting`, the lists of
subscribed channels, errors. *Interaction*: callbacks of several SDK threads
append bounded copies; the main thread decides that the capture is complete,
stops the streams and saves without the lock. *Hard*: streams start one after
the other, repeat or break frames, fail to stop, deliver nothing. *Correct if*:
success means complete files in order that nothing was recorded behind, and
every capture ends.

### Audio queue (`examples/example_audio.py`)

A callback counts a frame and puts a copy into a bounded queue, the main thread
writes. *Hard*: frames between the last look and the stop, Ctrl+C in a write, a
full queue. *Correct if*: exit code 0 means that the file is what was heard.

### TRC observer (`examples/example_highlevel_trc.py`)

A callback prints the changes of a remote controller's buttons and axes. *Hard*:
axes that drift slowly, samples that are invalid in between. *Correct if*: who
reads the output knows the buttons and, up to the threshold, the axes.

### The rest

| component | status |
|---|---|
| session client bindings | forward to native code; modelled as far as they hold callbacks |
| service singleton | `initial` and `shutdown` as the programs call them |
| value bindings (`MotorCtrlAction`, `TRCStickFrame`, ...) | field by field conversions and list setters: not modelled |
| Python wrappers (`robot_motion_sdk/`) | modelled as callers of the bindings; the others rename and forward |
| pybind11, packaging | vendored, or without behaviour at run time |

The hazards, each at its line, are in `PROJECT.json`.

## Modules

| module | models | kind |
|---|---|---|
| `CallbackBridge` | callbacks, the GIL, teardown | safety and liveness, refinement of `CallbackContract` |
| `CallbackContract` | what a registration promises (abstract) | |
| `FrameViews` | handles, views and memoryviews | safety and liveness |
| `Metadata` | TLV and IMU readers, words modulo `W` | safety |
| `PlaneGeometry` | plane views and the row by row dump | safety, against a reference definition |
| `PolicyLoop` | console, control thread, session, time | safety and liveness |
| `HighLevelConsole` | console, requests, control, signals | safety and liveness |
| `StateWait` | event wait with lost wake-ups, time | safety, refinement of `WaitContract` |
| `WaitContract` | what a wait promises (abstract) | |
| `ExamplePrograms` | each program's calls and releases, as data | |
| `Lifecycle` | a run of any of these programs | safety |
| `FrameCapture` | both capture programs, their callbacks and files | safety and liveness |
| `AudioQueue` | the PCM queue between callback and file | safety |
| `TrcObserver` | the observer's callback and its output | safety |

`MC<module>` gives TLC its constants, `<module>Proofs` holds theorems;
`ProgramProofs` has those of `Lifecycle` and of `StateWait`. `MCPrograms` chooses
one of `Lifecycle` and `StateWait` for a behaviour, `MCConsumers` one of
`FrameCapture`, `AudioQueue` and `TrcObserver` (the parts of such a choice never run
together, so their product would show nothing more), and `ConsumersProofs` has the
theorems of the three. `PolicyLoop` uses a wait only through its contract: its
operator `WaitState` answers, some time later, with the state the session has at
that moment, and `StateWait` is shown to do so.

### How state and actions correspond to the code

**CallbackBridge.** `gil` is CPython's lock, `sub[k]` the function native code
stores for registration `k`, `holders[c]` the owners of the copies of a
`PyCallback`, `live` those not deleted. A binding is a sequence of steps:
`BeginSubscribe`, `BeginStop`, `BeginShutdown` or `BeginDestroy` enters native
code with or without the lock as its `call_guard` or `gil_scoped_release` says;
`Install` or `Refuse` is the native result; `FinishDrain` follows the wait for
deliveries; `EndCall` returns. A delivery is `BeginDelivery` (copies the stored
function), `EnterCallback` (`gil_scoped_acquire`), `FinishCallback`. Who drops
the last copy becomes a deleter: `DeleterAcquire`, `DeleterRun`.
`CallbackContract` forgets threads, lock and copies. What it sees of the bridge is
`sub`, `connected` and `live` themselves, the functions of calls that are in native
code (`Offered`) and those of trampolines that have not ended (`Delivered`).

**FrameViews.** `obj[o]` records for a Python object the handle it owns, the block
it reads and the object it keeps alive; `user` is what the program still refers to.
A frame info (`TakeInfo`) has the addresses of its frame and no handle. When a frame
is made with it or is given it (`MakeFrame`, `SetInfo`), native `setFrameInfo` may
keep these addresses or not; a frame that does, and what is made of its planes,
`Borrows`: it holds one block and reads another. `Drop` removes a reference at any
time, `Dealloc` is reference counting, `BeginWrite`/`EndWrite` bracket the call
without the GIL.

**Metadata.** The reader is a machine with one step per item: `ReadHeader`,
`ValidateItem`, `EndValidation`, `ExtractItem`, `EndExtraction`, and for IMU
blocks `GetImu` and one step per sample. The block is arbitrary: its content is
chosen when it is read first and then kept.

**PlaneGeometry.** `Shape`, `PlaneStride`, `planeAddress`, `NewView`, `rowView`
are the functions of the code. `Frames` is what a producer may deliver, and
`PixelRowBytes`, `PixelRows`, `StoredAt` say where pixels are, from the pixel
formats alone; the properties compare the two. A producer reports the strides and
addresses of any planes and may store more rows than the frame has. A dump ends
saved, failed, or by an exception.

**PolicyLoop.** One action per step between two lock regions or SDK calls of
either thread. `Tick` ends a control period of 20 ms. `body` is the pose that
the accepted frames led to: it is what the properties compare the program's
notes (`posture`, `mode`, `hold`) with. A prepared session accepts a frame or
refuses it; neither thread looks at the answer (the loop's counters of sent and
failed frames are only printed). `from` is the pose that the next frame of a transition starts
from: measured, or what the code takes when there is no observation (`Assumed`).
`lapsed`, `refused`, `assumed`, `jumped`, `rewalked` record history. `HandOver` may
fail after the mode was restored, the answer that came too late; `restored` ends with
the next grant of low-level control. Ctrl+C in a command leads to the `finally` clause
(`Interrupt`), Ctrl+C in that clause ends the process (`InterruptCleanup`, `mpc` is
`"aborted"`). `InferFails` is an exception of the inference: the control thread is
gone while `mode` stays `"walk"`, so the console reports a running policy that
sends nothing; the commands and the exit still work (`EveryCommandEnds`,
`LoopEndsFirst`).

**HighLevelConsole.** One step per request; each request is answered, carried out
without an answer, or fails (`Outcomes`). The prompt polls for input (`BeginLine`)
and then reads a line, which a signal does not end (`"readline"`, `LineEnds`): a
command that was begun is carried out after the signal. `speed` is the velocity of
the robot, `"foreign"` once someone else has control. The other variables of
`history` record reports and how control ended.

**StateWait.** `CheckState`, `Clear` and `Wake` are the steps of the loop, `Change`
and `OnConnect` the SDK thread, `Tick` time, which passes only while the waiter
sleeps. `wait_for_state` of the DV500 script sleeps 50 ms also when less is
left, and so past its deadline: `LeastSleep`, which a sleep keeps to or not
(`Sleeps`), as the programs differ in it.

**ExamplePrograms and Lifecycle.** A program is a sequence of steps and a sequence
of groups of releases. A step says what its SDK call opens, which variable is set
after it, and where a false answer and an exception lead; a release says which
variable guards it and whether the program counts its failure; groups stand for the
`try` blocks of the cleanup, and `onRaise` for what is behind them. `Lifecycle`
interprets any of the twelve programs: `Perform`, `Refuse`, `Raise`, `Interrupt` and
the rest are what can happen to a call, `Release`, `ReleaseRefused`, `ReleaseRaises`
to a release. `at` is the step of the setup; `undoing`, `group` and `item` say which
release is next, in the `finally` blocks or in what the program does when it fails
before its `try` (`Releases`). `open` is native code's side, `noted` the program's;
every property compares the two. One channel stands for several channels of the same
kind, two where their order matters.

**FrameCapture.** `gated` is `_capture_all`, which records between two moves of
`accepting`; otherwise it is `example_audio_capture.py`, which records from each
subscription on. `data[ch]` is the buffer of a channel, a unit being a piece of
a frame, so that a file shows holes and repetitions. `Take` and `Reject` are a
whole callback (it holds the lock throughout), the others are the main thread's
steps from one SDK call, lock region or file to the next. `live` are the streams
that native code delivers: a stop that fails, or any stop of a video stream,
leaves one.

**AudioQueue.** `CountFrame` and `PutFrame` are the two halves of the callback
(the statistics under their lock, then the queue), `Get`, `Write`, `QueueEmpty`
are `flush()`, inside the loop and after the stop. Frames are numbered in the
order they are heard, so `written` says which are missing.

**TrcObserver.** `previous` is the variable of the callback, `shown` what a
reader of the output believes; an action per branch of `on_motion`.

## Runs

| run | shows | instance |
|---|---|---|
| `callback_bridge` | lifetimes, GIL discipline, quiet teardown, no wait cycle; refines `CallbackContract` | 2 Python threads, 2 native threads, 3 callbacks, 3 registrations |
| `callback_bridge_live` | every call returns, every delivery ends | 1 Python thread, 2 native threads, 2 callbacks |
| `frame_views` | views read owned memory, blocks return | 2 blocks, 3 objects |
| `frame_views_doc` | *violation*: a view is usable after its callback | as above |
| `metadata` | reads in bounds, walks agree | 6-bit words, up to 3 items |
| `plane_geometry` | rows are pixel rows and stay in the frame, saved files are complete | widths 1..4, heights 1..3, padding 0 and 3, 0 and 2 extra rows |
| `policy_loop` | one sender, continuous frames, clean walks, orderly end; commands end | cycles up to one period, transitions of 2 frames, join of 5 periods |
| `policy_reconnect` | *violation*: a jump after control was lost | as above |
| `highlevel_console` | rest before release, timed sends, exit, signals | no bound: the state is finite |
| `console_quit` | *violation*: a walking robot is released | as above |
| `programs` | what a program opened it gives back, inner things first; exit code 0 vouches; a lost wake-up costs one sleep; the wait refines `WaitContract` | all twelve programs, without a bound; waits with timeout 5, cap 3, least sleep 2, 3 changes |
| `consumers` | success means complete and final files, all that was heard is written, the output follows, captures end | captures of 2 channels and 2 units each; a queue of 2, 4 frames; 2 buttons, an axis 0..4 with threshold 2 |

**Bounds.** Two Python and two native threads are what a race of a teardown
with a delivery, and of two deliveries of a replaced function, take; three
callbacks let one be stored while another is delivered and a third is being
installed. Three objects are a frame, the view and the row or memoryview on it,
all of whose orders of disappearance matter; a second block is what a wrong
address would read: one that a row without its plane view goes on reading, or the frame
that an info came from. Six-bit words make every sum wrap, with headers of twelve
and eight bytes. Sizes up to 4 by 3 contain odd and even, and one pixel. A
cycle is in flight for less than the pause of two periods, so one period is the
interesting maximum, and five periods the shortest join that `JoinAssumption`
allows with it; two transition frames have a first and a last. A cap of three in a
timeout of five leaves a last, shorter sleep, after sleeps cut short by changes even one
of a single unit, which the least sleep of two takes past the deadline.
`MaxChanges` bounds the changes during one wait: a session that changed for ever
while no time passed would keep the waiter awake.
`Lifecycle` has no constants: `programs` visits every state it has. Two channels,
an audio and a video one (or two audio ones), are what a partial start, a partial
stop and an unequal progress take; two units with frames of one or two pieces and
two timestamps give full, cut, repeated and late frames. A queue of two overflows
with three of the four frames. An axis of five values with threshold two drifts
by steps below the threshold and crosses it.

**Symmetry** is used in `callback_bridge` only, which checks invariants.

**Deadlock** is checked where the system goes on for ever. The consoles, the
example programs and a frame that has been saved come to an end.

## Fairness

- `CallbackBridge`: CPython's eval loop honours a drop request with a forced
  switch, so a waiter that finds the lock free again and again gets it: strong
  fairness of acquiring. A Python thread that holds the lock gives it up. A
  callback ends (README 4: "user callbacks must not block"). Native code returns
  from calls: weak fairness. Nobody is obliged to call or to deliver.
- `FrameViews`: reference counting deallocates, callbacks and writes return, a
  block without handles returns to its pool. The program need not drop anything.
- `PolicyLoop`: both threads are scheduled and time passes. The SDK need not
  answer, the user need not type: waits have deadlines.
- `HighLevelConsole`: the console takes its next step; requests have timeouts.
  A line that was begun ends: a terminal delivers whole lines, and who writes into
  a pipe finishes or closes it. Without this `SignalEndsProgram` fails, because `readline()`
  (line 78) is retried after the handler. Nobody need begin to type, and the SDK
  need not answer.
- `FrameCapture`: the main thread runs and time passes. Streams need not deliver,
  and nobody need press Ctrl+C: the recording has a deadline.
- `StateWait`: the waiter, the callback and time go on. The session need not
  reach any state.

## Disagreements of code and documents

1. `frame_views_doc`. The README (line 412) and a comment of
   `example_media_frames.py` (line 560) say that views are valid only during the
   callback. The views copy the handle, so a view that a program keeps stays valid,
   and keeps its block from the pool: `ViewsReadOwnedMemory` is about all of a
   view's life. The exception are views with borrowed addresses.
2. `policy_reconnect`. `transition_to_stand` enables control before it pauses
   the loop, and `walk` enables it without a pause. When the session was lost
   while the loop was active, the loop's next frame is accepted from whatever
   pose the robot fell to; the help promises to stand up smoothly from the
   measured pose. `FramesContinuePose` shows what else can make a frame jump:
   a refused frame of the transition before, and a start pose that nobody measured.
3. `console_quit`. `stop` resets `action_active`, but the velocity can still be
   set; `quit` then releases control without clearing it, which the README and
   the help say it does. `ReleaseClearsStartedAction` shows the limits: with a
   known action nothing goes wrong.

Smaller ones, which no run is spent on:

4. `restore` pauses the loop before it verifies the pose, and leaves it paused
   when it refuses (`example_lowlevel_tensorrt.py:620`). The README of the examples
   says it verifies and then stops the loop.
5. The templates clear the event after they read the state
   (`example_lowlevel.py:69-76`); the comment says every change wakes the main
   thread. `OverlooksAtMostOneSleep` says what that costs with a capped sleep.
   `example_lowlevel.py` sleeps to its deadline: there a lost wake-up may cost all
   the timeout, and only `KeepsWaitContract` holds (the answer is right in the end).
6. `create_media_bus_client` never returns `None`, as the README's
   `media is None` checks suppose: it wraps what native code returned
   (`__init__.py:357`, `:497`), and `setup()` raises. In `example_audio.py` and
   `example_audio_rawback.py` the `media.shutdown()` of the cleanup then raises as
   well, and disconnect and `service.shutdown()` are skipped.
7. In `example_media_frames_lowlevel.py` a `disconnect()` that raises skips
   `service.shutdown()` (line 825 is behind no `except`, unlike its high-level
   twin).
8. `example_audio.py` does not look at the answer of `stop_raw_audio_frame`, and
   Ctrl+C between taking a copy and writing it loses that copy with exit code 0;
   `SavesWhatWasHeard` allows for these two cases and no other.
9. The help of the policy console says `stand` starts from the measured pose;
   without an observation within 500 ms it starts from the crouch (lines 347-351).
   Refused frames of a transition are not looked at (line 380): the next accepted
   one moves the robot by what was skipped.

One more depends on native code: `stop_raw_audio_frame` releases the GIL,
`stop_raw_video_frame` and `stop_encoded_video_frame` do not. If native code
waits for video deliveries as it is prepared for with audio, the stop waits for
ever (`NoGilWaitCycle` fails once `Drains` contains a video kind).

`PlaneGeometry` documents limits rather than disagreements. The default strides
of 16-bit formats count pixels, those of chroma planes of an odd width round
down (`LooseDefault`): rows there are not pixel rows. Chroma without an address is
looked for behind as many rows as the frame shows, at the stride of the luma
or, if only that is known, of the chroma: it is missed if more rows are stored (`ChromaTooNear`)
or the strides differ (`ChromaTooFar`). `RowsStayInFrame` holds in all these cases but
the last: the pixels are wrong, the memory is the frame's. An NV12 frame
of odd width is saved without the last byte of each chroma row.

What `NothingLeftOpen` leaves out: a setup that fails before the program's `try`
(`unprotected`: the client of `example_lowlevel.py` and of the release script is
made there), Ctrl+C inside a cleanup, what native code refused to take back, and,
in the programs that are not in `Shielded`, releases that follow one that raised.
Therefore it does not catch item 6: `example_audio.py` and
`example_audio_rawback.py`, where a `media.shutdown()` that raises does harm, are not
shielded.

## Proofs

TLAPS proves, for every value of the constants:

- `CallbackBridgeProofs`: type correctness, the five invariants of the run and the
  refinement.
  The central invariant is `Ownership`: who owns a copy of which function in
  which step. `OwnsAlone` is what makes it inductive: a thread about to delete
  is the only holder, so no delivery or registration can share the function any
  more. `NoWaitUnderGil` assumes `OnlyAudioDrains` and `ExplicitClose`.
  `ImplementsContract` needs no assumption: each step of the bridge is a step of
  `CallbackContract` or a stutter. Most are immediate from what a step leaves alone;
  the two that delete, `EndCall` and `DeleterRun`, are its `Delete` only because
  `Ownership` rules out that a slot, a delivery or another call still has what one
  thread holds last, and `Install` is its `Register` because a call in native code
  owns its function alone.
- `FrameViewsProofs`: views read memory in use unless they borrow addresses,
  handles balance, writes keep their frame, with no assumption on `setFrameInfo`.
  Invariant `Owning`: an object without a handle is tied to one with a handle,
  on the block that it reads unless that one borrows.
- `MetadataProofs`: all four invariants for every word size, `2^32` included.
  The invariant says that the items seen form a chain (each begins where the
  one before ends, padding included), so the second walk, which computes
  offsets again without checks, is at an element of it. `AcceptedItem` is the
  arithmetic: what passes the checks cannot have wrapped.
- `PolicyLoopProofs`: type correctness and the five invariants. A cycle in
  flight during a pause is as old as the pause (`PauseOutlastsCycle`), therefore
  the loop is quiet afterwards; then the posture tells the mode, and until
  control lapses or a frame of the transition is refused the mode tells the pose.
  `TransitionContinues` is about the frames of a transition: each starts where the
  one before led to, so that the first jump of one needs a refused frame or an assumed start.
  Assumes `CycleAssumption` (a cycle
  ends within the two periods of the pause) and `JoinAssumption` (the join
  outlasts two cycles): the code enforces neither, its timeouts suggest both.
- `HighLevelConsoleProofs`: type correctness and the three invariants. `Motion`
  says why motion of the robot is always reported, attributed to an action or
  blind; `Leaving` who can have control in each step of the exit.
- `ProgramProofs`, about the wait: type correctness, `OverlooksAtMostOneSleep` for
  every timeout, cap and least sleep (what was overlooked and what is left of the sleep add up
  to one sleep), and `ImplementsWait`: each step of the wait is a step of
  `WaitContract` or a stutter.
- `ProgramProofs`, about the life of the programs: `NothingLeftOpen`,
  `SuccessMeansClosed` and `InnerFirst`. `Lifecycle` has no constants, so its run
  is exhaustive for these twelve tables; the proof says *why* they are right, and
  what a thirteenth would have to satisfy. It has two halves.
  `WellMade(p)` is a condition on the table of a program alone, without any of its
  behaviours: each step of the setup that opens something sets its variable or
  finds it set (`GoodStep`); for all that can be open by then the cleanup has a
  release that is tried whatever those before it do, under that variable
  (`Covers`), and before it a sheltered one for what lives inside (`Precedes`);
  what the exit code vouches for is watched (`GoodVouch`). `WellMadePrograms`
  proves it of every program, table by table.
  The other half is about a run of any well-made program. `LifeIInv` adds to the
  types what the three properties rest on: in the setup, all that is open is noted
  or excused (`SetupInv`); in the cleanup, all that is still open has a pending
  release whose variable is set (`Kept`), and no release is pending whose inner
  resources are open and not tried, unless theirs is pending before it
  (`Ordered`); at the end nothing is pending (`DoneInv`), and what was not taken
  back has been counted as a failure (`VouchInv`). A resource that is only
  *about* to be open counts too: the motion mode, once a session of a low-level
  media program exists that can still connect (`MayBeOpen`). Without it `Kept` is
  not inductive, because `SessionUp` can come in the middle of the cleanup.

- `PlaneGeometryProofs`: all four invariants, for frames of every size, padding
  and set of addresses. `StrideIsStored`, `AddressIsStored` and `ViewsFit` compare
  the code with where the pixels are, format by format, and `RowsAreInTheFrame`
  bounds what the loose defaults can show; `ViewInv` ties the view in
  use to its frame, and `WrittenInv` counts: the rows written are those of the
  planes before, and those before the row. `RowAtItsPlace` and `DumpIsComplete`
  turn the count into the whole picture.
- `ConsumersProofs`: type correctness and every invariant of the three modules,
  and `ResultIsFinal`. `TrcIInv`: what is compared with is what was shown.
  `QueueIInv`: written, held, queued, lost and in delivery make up what was heard,
  in order, as long as nothing was dropped (`Conserved`), and each stage of the
  writer knows what is empty (`Stages`). `CaptureIInv`: the gated program accepts
  only while it records and with every stream live, and has nothing recorded
  early (`Gate`); units of a channel follow each other (`InOrder`); the counted
  program, when it stops without an error, has every channel full, so a late
  callback changes nothing (`Sealed`); and files are what was recorded (`Kept`).

Only model-checked: the liveness properties and the liveness part of the
refinement of `WaitContract`, which are out of the prover's reach, and the
properties of the violation runs, which do not hold. Every invariant and every
action property of the passing runs is a theorem, and so is the refinement of
`CallbackContract`, which has no liveness part.

## Not modelled

Native code beyond the actions named external in `PROJECT.json`; the contents
of frames, poses and observations; logging; JSON conversion; the field by field
value bindings and their list setters; the statistics of the media previews and
the pacing of the playback; argument parsing; weak memory (the GIL and the locks
order every shared access of the Python code; a `reset()` of a frame that another
thread is writing is a race inside the native frame, which the model lets happen
and says nothing about).

What is assumed of native code: a block is not reused while a handle on it
exists, `reset()` leaves a frame without an info, `setFrameInfo` may keep addresses, a
producer that does not report the stride of semi-planar chroma stores it as it does
the luma. Nobody keeps the block that a borrowed address points to:
`ViewsReadOwnedMemory` excludes it (`Borrows`) instead of assuming it away.

Two hazards have no property. A producer that writes a block it has delivered
defeats the checks of the metadata readers (`MediaFrameBindings.cpp:569`): native code
decides. And `walk` while walking lets an old action in
(`example_lowlevel_tensorrt.py:477`): it happens, `WalkStartsFromZero` exempts it.

## Plan

Done, in this order: `CallbackBridge` with `CallbackContract`, `FrameViews`,
`Metadata`, `PolicyLoop`, `PlaneGeometry`, `StateWait` with `WaitContract`,
`HighLevelConsole`, `ExamplePrograms` with `Lifecycle`, `FrameCapture`,
`AudioQueue`, `TrcObserver`; and the proofs of all their invariants and action
properties.

Next:

1. The list setters of `MotorCtrlAction` and `TRCStickFrame`, with the step that
   fails after the first effect.
2. An abstract specification of who may drive the robot, implemented by
   `PolicyLoop`.
