------------------------------ MODULE ProgramProofs --------------------------
(****************************************************************************)
(* Proofs about the example programs: that each of them gives back what it  *)
(* opened, in order, and that its exit code says so (Lifecycle); how long   *)
(* its wait for a state can overlook it, and that the wait keeps its        *)
(* contract (StateWait). The argument about Lifecycle has two halves. The   *)
(* first is about the tables of ExamplePrograms: a program is well made if  *)
(* its releases cover what its setup can open, and every program is. The    *)
(* second is about the steps of a well-made program.                        *)
(****************************************************************************)
EXTENDS Lifecycle, StateWait, TLAPS

(****************************************************************************)
(* What a well-made program is.                                             *)
(****************************************************************************)
Handles == {Always, "initialized", "client", "media", "capturing", "playback",
            "output", "attempted", "loop", "stream", "input", "outputBuffer"}
             \cup Streams

Modes == {"tolerated", "marked", "ignored", "never"} \cup Exits

SetupStep ==
  [opens : Resources \cup {None}, closes : {None, "audio", "motors", "mode"},
   notes : Handles \cup {None}, forgets : {None, "audio"},
   refused : Modes, raised : Exits,
   waits : BOOLEAN, optional : BOOLEAN, mayLeave : BOOLEAN]

Releasing == [res : Resources, handle : Handles, watched : BOOLEAN]

ReleaseGroup ==
  [onRaise : {"swallowed", "passed", "ends"}, items : Seq(Releasing)]

\* The variable by which program p knows that r is open.
Keeper(p, r) ==
  CASE r = "service" -> IF p = "audioCapture" THEN "initialized" ELSE Always
    [] r = "session" -> IF p \in {"lowLevel", "release", "policy"} THEN Always ELSE "client"
    [] r = "bus" -> "media"
    [] r = "observation" -> "attempted"
    [] r = "mode" -> "client"
    [] r = "motors" -> Always
    [] OTHER -> r

\* What takes r along for sure when it is released.
Host(r) == IF r \in Streams THEN "bus" ELSE r

\* A variable that is set once the step is behind.
Sure(s) ==
  s.notes \notin {None, "audio"} /\ ~s.optional /\ s.refused \notin {"tolerated", "marked"}

CanOpen(p, n, r) ==
  \/ \E k \in 1 .. n : Programs[p].setup[k].opens = r
  \/ Programs[p].restores /\ r = "mode"

\* A release that is tried whatever those before it do, unless the cleanup ends.
Reached(list, g, i) == i = 1 \/ list[g].onRaise = "ends"

Covers(list, g, i, h, r) ==
  /\ r \in Closed(list[g].items[i].res)
  /\ list[g].items[i].handle = h
  /\ Reached(list, g, i)

Sheltered(list, g, i) ==
  \/ Reached(list, g, i)
  \/ /\ list[g].items[i].res \in Streams
     /\ \A j \in 1 .. i : list[g].items[j].res \in Streams

Before(g2, i2, g, i) == g2 < g \/ (g2 = g /\ i2 < i)

Precedes(p, list, g2, i2, g, i, d) ==
  /\ Before(g2, i2, g, i)
  /\ list[g2].items[i2].res = d
  /\ list[g2].items[i2].handle = Keeper(p, d)
  /\ Sheltered(list, g2, i2)

-----------------------------------------------------------------------------
Setup(p) == Programs[p].setup

GoodStep(p, i, s) ==
       /\ s.refused = "nothing" => i = 1
       /\ s.opens # None /\ Keeper(p, s.opens) \notin {s.notes, Always} =>
            \E k \in 1 .. i - 1 : Sure(Setup(p)[k]) /\ Setup(p)[k].notes = Keeper(p, s.opens)
       /\ s.forgets # None => s.closes = "audio" /\ s.notes = None /\ s.opens = None
       /\ s.refused = "ignored" => s.opens = None
       /\ s.opens = "session" /\ Programs[p].restores =>
            \E k \in 1 .. i - 1 : Sure(Setup(p)[k]) /\ Setup(p)[k].notes = "client"
       /\ s.opens \in Streams =>
            \E k \in 1 .. i - 1 : Sure(Setup(p)[k]) /\ Setup(p)[k].notes = "media"

GoodSetup(p) ==
  /\ Setup(p) \in Seq(SetupStep) /\ Setup(p) # <<>>
  /\ \A i \in 1 .. Len(Setup(p)) : GoodStep(p, i, Setup(p)[i])

ListShape(p, list) ==
  /\ list \in Seq(ReleaseGroup)
  /\ \A g \in 1 .. Len(list) :
       list[g].items # <<>> /\ (p \in Shielded => list[g].onRaise # "ends")

GoodList(p, list, n) ==
  /\ \A r \in Resources : CanOpen(p, n, r) =>
       \E g \in 1 .. Len(list) : \E i \in 1 .. Len(list[g].items) :
         Covers(list, g, i, Keeper(p, Host(r)), r)
  /\ \A g \in 1 .. Len(list) : \A i \in 1 .. Len(list[g].items) :
       \A d \in Inner(list[g].items[i].res) : CanOpen(p, n, d) =>
       \E g2 \in 1 .. Len(list) : \E i2 \in 1 .. Len(list[g2].items) :
         Precedes(p, list, g2, i2, g, i, d)

GoodVouch(p) ==
  /\ Vouched(p) # {} =>
       /\ ~Programs[p].interruptOk
       /\ \A i \in 1 .. Len(Setup(p)) :
            Setup(p)[i].refused \in {"tolerated", "marked", "ignored"} =>
              Closed(Setup(p)[i].closes) \cap Vouched(p) = {}
       /\ \A list \in {Programs[p].cleanup, Programs[p].undo} :
            \A g \in 1 .. Len(list) : \A i \in 1 .. Len(list[g].items) :
              Closed(list[g].items[i].res) \cap Vouched(p) # {} => list[g].items[i].watched

\* The one program that vouches for what it did not open itself.
GoodHandOver(p) ==
  p = "release" =>
    /\ Programs[p].handles /\ ~Programs[p].restores
    /\ \A i \in 1 .. Len(Setup(p)) : ~Setup(p)[i].mayLeave
    /\ LET last == Setup(p)[Len(Setup(p))] IN
         /\ last.closes = "mode" /\ last.notes = None
         /\ ~last.optional /\ last.refused \in Exits

Undoes(s) == "undo" \in {s.refused, s.raised}

WellMade(p) ==
  /\ Programs[p].reviews \in BOOLEAN /\ Programs[p].interruptOk \in BOOLEAN
  /\ GoodSetup(p)
  /\ ListShape(p, Programs[p].cleanup) /\ ListShape(p, Programs[p].undo)
  /\ GoodList(p, Programs[p].cleanup, Len(Setup(p)))
  /\ \A i \in 1 .. Len(Setup(p)) : Undoes(Setup(p)[i]) =>
        GoodList(p, Programs[p].undo, i - 1)
  /\ GoodVouch(p) /\ GoodHandOver(p)

-----------------------------------------------------------------------------
Excused(r) == \E o \in excused : r \in Closed(o)

MayBeOpen ==
  open \cup (IF Prog.restores /\ "session" \in open /\ ~up THEN {"mode"} ELSE {})

Own == MayBeOpen \ Inherited

Pending(g, i) == group < g \/ (group = g /\ item <= i)

SetupInv ==
  InSetup =>
    /\ aborted = "no" /\ ~unprotected /\ ~undoing /\ group = 1 /\ item = 1
    /\ at = 1 => Own = {}
    /\ \A r \in Own :
         CanOpen(program, at - 1, r) /\ (r \in excused \/ Keeper(program, r) \in noted)
    /\ \A k \in 1 .. at - 1 : Sure(Prog.setup[k]) => Prog.setup[k].notes \in noted

Kept ==
  phase = "cleanup" => \A r \in Own :
    \/ Excused(r)
    \/ /\ Keeper(program, Host(r)) \in noted
       /\ \E g \in 1 .. Len(Releases) : \E i \in 1 .. Len(Releases[g].items) :
            Pending(g, i) /\ Covers(Releases, g, i, Keeper(program, Host(r)), r)

Ordered ==
  phase = "cleanup" =>
    \A g \in 1 .. Len(Releases) : \A i \in 1 .. Len(Releases[g].items) :
      \A d \in Inner(Releases[g].items[i].res) \cap Own :
        Pending(g, i) =>
        \/ Tried(d)
        \/ /\ Keeper(program, d) \in noted
           /\ \E g2 \in 1 .. Len(Releases) : \E i2 \in 1 .. Len(Releases[g2].items) :
                Pending(g2, i2) /\ Precedes(program, Releases, g2, i2, g, i, d)

DoneInv ==
  /\ phase = "done" /\ ~unprotected /\ aborted = "no" => \A r \in Own : Excused(r)
  /\ aborted = "raise" => program \notin Shielded

VouchInv ==
  /\ \A o \in excused : Closed(o) \cap Vouched(program) # {} => failed
  /\ Vouched(program) # {} /\ (unprotected \/ aborted # "no") => failed
  /\ program = "release" /\ "mode" \in open /\ ~failed => InSetup

LifeTypeOK ==
  /\ program \in Names
  /\ phase \in {"setup", "cleanup", "done"}
  /\ at \in 1 .. Len(Prog.setup)
  /\ undoing \in BOOLEAN /\ up \in BOOLEAN /\ nullMedia \in BOOLEAN
  /\ failed \in BOOLEAN /\ unprotected \in BOOLEAN
  /\ aborted \in {"no", "raise", "interrupt"}
  /\ group \in 1 .. Len(Releases) + 1 /\ item \in Nat \ {0}
  /\ phase = "cleanup" /\ group <= Len(Releases) => item <= Len(Releases[group].items)
  /\ open \subseteq Resources /\ excused \subseteq Resources /\ noted \subseteq Handles
  /\ Always \in noted

LifeIInv == LifeTypeOK /\ SetupInv /\ Kept /\ Ordered /\ DoneInv /\ VouchInv

-----------------------------------------------------------------------------
(****************************************************************************)
(* The tables: all programs are well made. First the vocabulary in which    *)
(* the tables are described.                                                *)
(****************************************************************************)
-----------------------------------------------------------------------------
\* A step that opens o and notes n, and what a refusal and an exception lead to.
Acts(s, o, n, refused, raised) ==
  /\ s \in SetupStep /\ s.opens = o /\ s.notes = n
  /\ s.refused = refused /\ s.raised = raised
  /\ s.closes = None /\ s.forgets = None

\* ... and that is neither optional nor left by a signal.
Is(s, o, n, refused, raised) ==
  Acts(s, o, n, refused, raised) /\ s.optional = FALSE /\ s.mayLeave = FALSE

\* By step i, program p has set h.
Knows(p, i, h) == \E k \in 1 .. i - 1 : Sure(Setup(p)[k]) /\ Setup(p)[k].notes = h

\* The group x stands at place g.
At(list, g, x) == g \in 1 .. Len(list) /\ list[g] = x

\* A group of n releases.
Several(list, g, how, s, n) ==
  /\ At(list, g, Group(how, s)) /\ how \in {"swallowed", "passed", "ends"}
  /\ s \in Seq(Releasing) /\ Len(s) = n /\ s # <<>>

\* The group at place g has n releases.
Groups(list, g, n, onRaise) ==
  /\ list[g] \in ReleaseGroup /\ Len(list[g].items) = n /\ list[g].onRaise = onRaise
  /\ list[g].items # <<>>

\* The release at place (g, i) is of r, if h is set.
Gives(list, g, i, r, h) ==
  /\ g \in 1 .. Len(list) /\ i \in 1 .. Len(list[g].items)
  /\ list[g].items[i] \in Releasing
  /\ list[g].items[i].res = r /\ list[g].items[i].handle = h

\* Some release of the list closes r for sure if h is set.
Takes(list, h, r) ==
  \E g \in 1 .. Len(list) : \E i \in 1 .. Len(list[g].items) : Covers(list, g, i, h, r)

\* Some release of d comes before (g, i), whatever raises.
Leads(list, d, h, g, i) ==
  \E g2 \in 1 .. Len(list) : \E i2 \in 1 .. Len(list[g2].items) :
    /\ Before(g2, i2, g, i) /\ Sheltered(list, g2, i2)
    /\ list[g2].items[i2].res = d /\ list[g2].items[i2].handle = h

(* The constructors of steps: what a step of each kind opens, notes and    *)
(* leads to.                                                               *)
LEMMA Steps ==
  /\ Is(Check, None, None, "cleanup", "cleanup")
  /\ \A r \in Resources : Is(Opens(r), r, None, "cleanup", "cleanup")
  /\ \A h \in Handles : Is(Notes(h), None, h, "never", "cleanup")
  /\ \A r \in Streams : Is(Subscribe(r), r, r, "cleanup", "cleanup")
<1>1. Is(Check, None, None, "cleanup", "cleanup")
  BY DEF Is, Acts, Check, SetupStep, None, Modes, Exits
<1>2. ASSUME NEW r \in Resources PROVE Is(Opens(r), r, None, "cleanup", "cleanup")
  BY <1>1 DEF Is, Acts, Opens, SetupStep
<1>3. ASSUME NEW h \in Handles PROVE Is(Notes(h), None, h, "never", "cleanup")
  BY <1>1 DEF Is, Acts, Notes, SetupStep, Modes
<1>4. ASSUME NEW r \in Streams PROVE Is(Subscribe(r), r, r, "cleanup", "cleanup")
  <2>1. r \in Resources /\ r \in Handles
    BY DEF Resources, Handles
  <2>2. Is(Opens(r), r, None, "cleanup", "cleanup")
    BY <1>2, <2>1
  <2> QED  BY <2>1, <2>2 DEF Is, Acts, Subscribe, SetupStep
<1> QED  BY <1>1, <1>2, <1>3, <1>4

(* Another answer to a refusal changes nothing else in a step.             *)
LEMMA Going ==
  ASSUME NEW s, NEW o, NEW n, NEW refused, NEW raised, Is(s, o, n, refused, raised),
         NEW how \in Modes
  PROVE  Is(Goes(s, how), o, n, how, raised)
BY DEF Is, Acts, Goes, SetupStep

(* The steps that most programs share.                                     *)
LEMMA NamedSteps ==
  /\ Is(Initial, "service", None, "cleanup", "cleanup")
  /\ Is(NewClient, None, "client", "never", "cleanup")
  /\ Is(Connect, "session", None, "cleanup", "cleanup")
  /\ Is(WaitConnected, None, None, "cleanup", "cleanup")
  /\ Is(NewMedia, None, "media", "never", "cleanup")
  /\ Is(SetupMedia, "bus", None, "cleanup", "cleanup")
  /\ Is(Body, None, None, "never", "cleanup")
<1>1. Is(WaitConnected, None, None, "cleanup", "cleanup")
  BY Steps DEF Is, Acts, WaitConnected, SetupStep
<1>2. Is(Body, None, None, "never", "cleanup")
  BY Steps, Going DEF Body, Modes
<1> QED
  BY <1>1, <1>2, Steps
     DEF Initial, NewClient, Connect, NewMedia, SetupMedia, Resources, Handles

\* A program without options.
Plain(P, a, b) ==
  /\ P.setup = a /\ P.cleanup = b /\ P.undo = <<>>
  /\ P.handles = FALSE
  /\ P.interruptOk = FALSE
  /\ P.restores = FALSE
  /\ P.reviews = FALSE
  /\ DOMAIN P = {"setup", "cleanup", "undo", "handles", "interruptOk", "restores", "reviews"}

\* The three tables of a program.
Table(p, setup, cleanup, undo) ==
  Programs[p].setup = setup /\ Programs[p].cleanup = cleanup /\ Programs[p].undo = undo

\* The options of a program.
Flags(p, handles, interruptOk, restores, reviews) ==
  /\ Programs[p].handles = handles /\ Programs[p].interruptOk = interruptOk
  /\ Programs[p].restores = restores /\ Programs[p].reviews = reviews

(* The program that its setup and cleanup make.                            *)
LEMMA ProgramIs ==
  ASSUME NEW a, NEW b
  PROVE  Plain(Program(a, b), a, b)
BY DEF Program, Plain

\* The release of r under h.
Piece(x, r, h) == x \in Releasing /\ x.res = r /\ x.handle = h

(* A release, watched or not, releases what it names.                      *)
LEMMA ItemIs ==
  ASSUME NEW r \in Resources, NEW h \in Handles
  PROVE  /\ Piece(Item(r, h), r, h)
         /\ Piece(Watched(r, h), r, h)
         /\ Watched(r, h).watched = TRUE
<1>1. Piece(Item(r, h), r, h)
  BY DEF Item, Releasing, Piece
<1> QED  BY <1>1 DEF Watched, Releasing, Piece

\* A group of one release.
Alone(list, g, how, r, h) == Groups(list, g, 1, how) /\ Gives(list, g, 1, r, h)

(* The resources and the variables of the programs.                        *)
LEMMA Known ==
  /\ "service" \in Resources /\ "session" \in Resources /\ "bus" \in Resources
  /\ "playback" \in Resources /\ "output" \in Resources /\ "observation" \in Resources
  /\ "mode" \in Resources /\ "motors" \in Resources /\ "loop" \in Resources
  /\ "stream" \in Resources /\ "input" \in Resources /\ "outputBuffer" \in Resources
  /\ "video" \in Resources /\ "encoded" \in Resources /\ "audio" \in Resources
  /\ "audio2" \in Resources 
  /\ Always \in Handles /\ "initialized" \in Handles /\ "client" \in Handles
  /\ "media" \in Handles /\ "capturing" \in Handles /\ "playback" \in Handles
  /\ "output" \in Handles /\ "attempted" \in Handles /\ "loop" \in Handles
  /\ "stream" \in Handles /\ "input" \in Handles /\ "outputBuffer" \in Handles
  /\ "video" \in Handles
  /\ "encoded" \in Handles
  /\ "audio" \in Handles
  /\ "audio2" \in Handles
BY DEF Resources, Handles, Streams

(* A group of one release.                                                 *)
LEMMA OneItem ==
  ASSUME NEW list, NEW g \in 1 .. Len(list),
         NEW how \in {"swallowed", "passed", "ends"},
         NEW x \in Releasing, list[g] = Group(how, <<x>>)
  PROVE  /\ Groups(list, g, 1, how)
         /\ 1 \in 1 .. Len(list[g].items) /\ list[g].items[1] = x
<1>1. /\ Group(how, <<x>>) \in ReleaseGroup /\ Group(how, <<x>>).onRaise = how
      /\ Len(Group(how, <<x>>).items) = 1 /\ Group(how, <<x>>).items[1] = x
  BY DEF Group, ReleaseGroup
<1> QED  BY <1>1 DEF Groups

\* A resource and the variable of its release.
Fits(r, h) == r \in Resources /\ h \in Handles

(* The releases that occur: which resource, under which variable.          *)
LEMMA Pairs ==
  /\ Fits("service", Always)
  /\ Fits("service", "initialized")
  /\ Fits("session", Always)
  /\ Fits("session", "client") /\ Fits("bus", "media") /\ Fits("bus", "capturing")
  /\ Fits("mode", "client")
  /\ Fits("motors", Always)
  /\ Fits("observation", "attempted")
  /\ Fits("playback", "playback") /\ Fits("output", "output") /\ Fits("loop", "loop")
  /\ Fits("input", "input") /\ Fits("outputBuffer", "outputBuffer")
  /\ Fits("stream", "stream") /\ Fits("video", "video") /\ Fits("encoded", "encoded")
  /\ Fits("audio", "audio") /\ Fits("audio2", "audio2")
BY Known DEF Fits

\* A failure of the release at (g, i) fails the program.
Watches(list, g, i) == list[g].items[i].watched = TRUE

\* A group of one release.
Single(how, r, h) == Group(how, <<Item(r, h)>>)

\* A group of one watched release.
SingleWatched(how, r, h) == Group(how, <<Watched(r, h)>>)

(* A group of one release that nobody watches.                             *)
LEMMA OneRelease ==
  ASSUME NEW list, NEW g, NEW how \in {"swallowed", "passed", "ends"},
         NEW r, NEW h, Fits(r, h), At(list, g, Single(how, r, h))
  PROVE  Alone(list, g, how, r, h)
<1> DEFINE x == Item(r, h)
<1>1. x \in Releasing /\ x.res = r /\ x.handle = h /\ list[g] = Group(how, <<x>>)
      /\ g \in 1 .. Len(list)
  BY ItemIs DEF At, Single, SingleWatched, Piece, Fits
<1> HIDE DEF x
<1> QED  BY <1>1, OneItem DEF Gives, Alone

(* A group of one watched release.                                         *)
LEMMA OneWatchedRelease ==
  ASSUME NEW list, NEW g, NEW how \in {"swallowed", "passed", "ends"},
         NEW r, NEW h, Fits(r, h), At(list, g, SingleWatched(how, r, h))
  PROVE  Alone(list, g, how, r, h) /\ Watches(list, g, 1)
<1> DEFINE x == Watched(r, h)
<1>1. /\ x \in Releasing /\ x.res = r /\ x.handle = h /\ x.watched = TRUE
      /\ list[g] = Group(how, <<x>>) /\ g \in 1 .. Len(list)
  BY ItemIs DEF At, Single, SingleWatched, Piece, Fits
<1> HIDE DEF x
<1> QED  BY <1>1, OneItem DEF Gives, Alone, Watches

(* A step before the try leads nowhere when it fails.                      *)
LEMMA OutsideIs ==
  ASSUME NEW s, NEW o, NEW n, NEW refused, NEW raised, Is(s, o, n, refused, raised)
  PROVE  Is(Outside(s), o, n, IF refused = "cleanup" THEN "nothing" ELSE refused, "nothing")
BY DEF Is, Acts, Outside, SetupStep, Modes, Exits

(* An option changes nothing else in a step.                               *)
LEMMA OptionalIs ==
  ASSUME NEW s, NEW o, NEW n, NEW refused, NEW raised,
         Acts(s, o, n, refused, raised)
  PROVE  Acts(Optional(s), o, n, refused, raised)
BY DEF Acts, Optional, SetupStep

(* A step that opens and forgets nothing is in order wherever it stands.   *)
LEMMA PlainStep ==
  ASSUME NEW p, NEW i, NEW s, s.opens = None, s.forgets = None,
         s.refused # "nothing"
  PROVE  GoodStep(p, i, s)
<1>1. None \notin Streams /\ None # "session"
  BY DEF None, Streams
<1> QED  BY <1>1 DEF GoodStep

(* A step that opens something is in order if the variable for it is set   *)
(* by then, by the step itself or by one before.                           *)
LEMMA OpeningStep ==
  ASSUME NEW p, NEW i, NEW s, NEW o, NEW n, NEW refused, NEW raised,
         Acts(s, o, n, refused, raised), refused # "ignored", refused = "nothing" =>
             i = 1,
         Keeper(p, o) \in {n, Always} \/ Knows(p, i, Keeper(p, o)),
         o = "session" /\ Programs[p].restores => Knows(p, i, "client"),
         o \in Streams => Knows(p, i, "media")
  PROVE  GoodStep(p, i, s)
BY DEF Acts, GoodStep, Knows

(* A step that has no false answer has set its variable once it is behind. *)
LEMMA SureOf ==
  ASSUME NEW s, NEW h, NEW refused, NEW raised, Is(s, None, h, refused, raised),
         h \notin {None, "audio"}, refused \notin {"tolerated", "marked"}
  PROVE  Sure(s) /\ s.notes = h
BY DEF Is, Acts, Sure

(* The variable that keeps each resource, resource by resource.            *)
LEMMA KeeperTable ==
  ASSUME NEW p \in Names
  PROVE  /\ Keeper(p, "service") = IF p = "audioCapture" THEN "initialized" ELSE Always
         /\ Keeper(p, "session") =
              IF p \in {"lowLevel", "release", "policy"} THEN Always ELSE "client"
         /\ Keeper(p, "bus") = "media" /\ Keeper(p, "observation") = "attempted"
         /\ Keeper(p, "mode") = "client" /\ Keeper(p, "motors") = Always
         /\ Keeper(p, "loop") = "loop" /\ Keeper(p, "playback") = "playback"
         /\ Keeper(p, "output") = "output"
         /\ \A r \in {"stream", "input", "outputBuffer"} : Keeper(p, r) = r
         /\ \A r \in Streams : Keeper(p, r) = r
<1>1. \A r \in Streams : Keeper(p, r) = r
  BY DEF Keeper, Streams
<1> QED  BY <1>1 DEF Keeper

(* Streams go with their bus.                                              *)
LEMMA Hosts ==
  /\ \A r \in Streams : Host(r) = "bus"
  /\ \A r \in Resources \ Streams : Host(r) = r
BY DEF Host, Resources

(* What lives in each resource.                                            *)
LEMMA Nested ==
  /\ Inner("service") = {"session"}
  /\ Inner("session") = {"bus", "observation", "mode", "loop"}
  /\ Inner("bus") = Streams \cup {"playback"}
  /\ \A r \in {"stream", "input", "outputBuffer"} : Inner(r) = {"loop"}
  /\ \A r \in Streams \cup {"playback", "output", "observation", "mode", "motors", "loop"} :
       Inner(r) = {}
BY DEF Inner, Streams

(* What each release closes.                                               *)
LEMMA Closing ==
  /\ Closed("bus") = {"bus"} \cup Streams
  /\ Closed("session") = {"session", "motors"}
  /\ \A r \in (Resources \cup {None}) \ {"bus", "session"} : Closed(r) = {r}
<1>1. Closed("bus") = {"bus"} \cup Streams  BY DEF Closed
<1>2. Closed("session") = {"session", "motors"}  BY DEF Closed
<1>3. ASSUME NEW r \in (Resources \cup {None}) \ {"bus", "session"}
      PROVE  Closed(r) = {r}
  <2>1. r # "bus" /\ r # "session"  OBVIOUS
  <2> QED BY <2>1 DEF Closed
<1> QED BY <1>1, <1>2, <1>3

(* A release that is reached takes what it closes.                         *)
LEMMA TakenBy ==
  ASSUME NEW list, NEW g, NEW i, NEW x, NEW h, NEW r \in Closed(x),
         Gives(list, g, i, x, h), Reached(list, g, i)
  PROVE  Takes(list, h, r)
BY DEF Takes, Covers, Gives

(* A sheltered release stands before another.                              *)
LEMMA LedBy ==
  ASSUME NEW list, NEW g, NEW i, NEW d, NEW h, NEW g2, NEW i2,
         Gives(list, g2, i2, d, h), Before(g2, i2, g, i), Sheltered(list, g2, i2)
  PROVE  Leads(list, d, h, g, i)
BY DEF Leads, Gives

(* The group that stops the three streams.                                 *)
LEMMA StopAllIs ==
  ASSUME NEW list, NEW g, At(list, g, StopAll)
  PROVE  /\ Groups(list, g, 3, "swallowed")
         /\ Gives(list, g, 1, "encoded", "encoded")
         /\ Gives(list, g, 2, "video", "video")
         /\ Gives(list, g, 3, "audio", "audio")
<1> DEFINE E == Item("encoded", "encoded")
           V == Item("video", "video")
           A == Item("audio", "audio")
<1>1. \A r \in Streams :
        Item(r, r) \in Releasing /\ Item(r, r).res = r /\ Item(r, r).handle = r
  BY ItemIs DEF Resources, Handles, Piece
<1>2. /\ E \in Releasing /\ E.res = "encoded" /\ E.handle = "encoded"
      /\ V \in Releasing /\ V.res = "video" /\ V.handle = "video"
      /\ A \in Releasing /\ A.res = "audio" /\ A.handle = "audio"
  BY <1>1 DEF Streams
<1>3. StopAll = Group("swallowed", <<E, V, A>>)
  BY DEF StopAll
<1> HIDE DEF E, V, A
<1>4. <<E, V, A>> \in Seq(Releasing)
  BY <1>2
<1>5. /\ StopAll \in ReleaseGroup
      /\ StopAll.onRaise = "swallowed"
      /\ StopAll.items = <<E, V, A>>
  BY <1>3, <1>4 DEF Group, ReleaseGroup
<1>6. /\ Len(list[g].items) = 3
      /\ list[g].items[1] = E
      /\ list[g].items[2] = V
      /\ list[g].items[3] = A
  BY <1>5 DEF At
<1> QED  BY <1>2, <1>5, <1>6 DEF Groups, Gives, At

(* A group of several releases.                                            *)
LEMMA ManyReleases ==
  ASSUME NEW list, NEW g, NEW how, NEW s, NEW n, Several(list, g, how, s, n)
  PROVE  Groups(list, g, n, how) /\ list[g].items = s
BY DEF At, Several, Group, Groups, ReleaseGroup

(* A release of a resource under its variable.                             *)
LEMMA ItemFits ==
  ASSUME NEW r, NEW h, Fits(r, h)
  PROVE  Piece(Item(r, h), r, h)
BY ItemIs DEF Fits

(* A sequence with a length has an element.                                *)
LEMMA NonEmpty ==
  ASSUME NEW s, Len(s) # 0
  PROVE  s # <<>>
OBVIOUS

-----------------------------------------------------------------------------
(****************************************************************************)
(* Each setup: its steps, what it can open and which variables are set by   *)
(* then; each list of releases; then program by program.                    *)
(****************************************************************************)
(* The steps that build the inference engine.                              *)
LEMMA EngineSteps ==
  /\ \A r \in {"stream", "input", "outputBuffer"} : Is(Buffer(r), r, r, "undo", "undo")
  /\ Is([Check EXCEPT !.refused = "undo", !.raised = "undo"], None, None, "undo", "undo")
<1>1. ASSUME NEW r \in {"stream", "input", "outputBuffer"}
      PROVE  Is(Buffer(r), r, r, "undo", "undo")
  <2>1. Is(Opens(r), r, None, "cleanup", "cleanup") /\ r \in Handles
    BY Steps, Known
  <2> QED  BY <2>1 DEF Is, Acts, Buffer, SetupStep, Modes, Exits
<1>2. Is([Check EXCEPT !.refused = "undo", !.raised = "undo"], None, None, "undo", "undo")
  BY Steps DEF Is, Acts, SetupStep, Modes, Exits
<1> QED  BY <1>1, <1>2

(* The steps of the media examples.                                        *)
LEMMA MediaSteps ==
  /\ MediaSetup \in Seq(SetupStep) /\ Len(MediaSetup) = 12
  /\ Is(MediaSetup[1], "service", None, "cleanup", "cleanup")
  /\ Is(MediaSetup[2], None, None, "cleanup", "cleanup")
  /\ Is(MediaSetup[3], None, "client", "never", "cleanup")
  /\ Is(MediaSetup[4], "session", None, "cleanup", "cleanup")
  /\ Is(MediaSetup[5], None, None, "cleanup", "cleanup")
  /\ Is(MediaSetup[6], None, "media", "never", "cleanup")
  /\ Is(MediaSetup[7], "bus", None, "cleanup", "cleanup")
  /\ Is(MediaSetup[8], None, None, "never", "cleanup")
  /\ Is(MediaSetup[9], "video", "video", "tolerated", "cleanup")
  /\ Is(MediaSetup[10], "encoded", "encoded", "tolerated", "cleanup")
  /\ Is(MediaSetup[11], "audio", "audio", "tolerated", "cleanup")
  /\ Is(MediaSetup[12], None, None, "never", "cleanup")
<1>1. \A r \in Streams : Is(Goes(Subscribe(r), "tolerated"), r, r, "tolerated", "cleanup")
  BY Steps, Going DEF Modes
<1>2. \A k \in 1 .. 12 : MediaSetup[k] \in SetupStep
  BY <1>1, Steps, NamedSteps DEF MediaSetup, Streams, Is, Acts
<1>3. Len(MediaSetup) = 12 /\ MediaSetup \in Seq(SetupStep)
  BY <1>2, <1>1, Steps, NamedSteps DEF MediaSetup, Streams, Is, Acts
<1> QED  BY <1>3, <1>1, Steps, NamedSteps DEF MediaSetup, Streams

(* The steps of the capture of all channels.                               *)
LEMMA CaptureAllSteps ==
  /\ CaptureAllSetup \in Seq(SetupStep) /\ Len(CaptureAllSetup) = 12
  /\ Is(CaptureAllSetup[1], "service", None, "cleanup", "cleanup")
  /\ Is(CaptureAllSetup[2], None, None, "cleanup", "cleanup")
  /\ Is(CaptureAllSetup[3], None, "client", "never", "cleanup")
  /\ Is(CaptureAllSetup[4], "session", None, "cleanup", "cleanup")
  /\ Is(CaptureAllSetup[5], None, None, "cleanup", "cleanup")
  /\ Is(CaptureAllSetup[6], None, "media", "never", "cleanup")
  /\ Is(CaptureAllSetup[7], "bus", None, "cleanup", "cleanup")
  /\ Is(CaptureAllSetup[8], None, None, "never", "cleanup")
  /\ Is(CaptureAllSetup[9], None, "capturing", "never", "cleanup")
  /\ Is(CaptureAllSetup[10], "audio", "audio", "marked", "cleanup")
  /\ Is(CaptureAllSetup[11], "video", "video", "marked", "cleanup")
  /\ Is(CaptureAllSetup[12], None, None, "never", "cleanup")
<1>1. \A r \in Streams : Is(Goes(Subscribe(r), "marked"), r, r, "marked", "cleanup")
  BY Steps, Going DEF Modes
<1>2. Is(Notes("capturing"), None, "capturing", "never", "cleanup")
  BY Steps, Known
<1>3. \A k \in 1 .. 12 : CaptureAllSetup[k] \in SetupStep
  BY <1>1, <1>2, Steps, NamedSteps
     DEF CaptureAllSetup, MediaSetup, Streams, Is, Acts
<1>4. Len(CaptureAllSetup) = 12 /\ CaptureAllSetup \in Seq(SetupStep)
  BY <1>3, <1>1, <1>2, Steps, NamedSteps
     DEF CaptureAllSetup, MediaSetup, Streams, Is, Acts
<1> QED  BY <1>4, <1>1, <1>2, Steps, NamedSteps
            DEF CaptureAllSetup, MediaSetup, Streams

(* The steps of the four-channel audio capture.                            *)
LEMMA AudioCaptureSteps ==
  /\ AudioCaptureSetup \in Seq(SetupStep) /\ Len(AudioCaptureSetup) = 11
  /\ Is(AudioCaptureSetup[1], None, "initialized", "never", "cleanup")
  /\ Is(AudioCaptureSetup[2], "service", None, "cleanup", "cleanup")
  /\ Is(AudioCaptureSetup[3], None, None, "cleanup", "cleanup")
  /\ Is(AudioCaptureSetup[4], None, "client", "never", "cleanup")
  /\ Is(AudioCaptureSetup[5], "session", None, "cleanup", "cleanup")
  /\ Is(AudioCaptureSetup[6], None, None, "cleanup", "cleanup")
  /\ Is(AudioCaptureSetup[7], None, "media", "never", "cleanup")
  /\ Is(AudioCaptureSetup[8], "bus", None, "cleanup", "cleanup")
  /\ Is(AudioCaptureSetup[9], "audio", "audio", "cleanup", "cleanup")
  /\ Is(AudioCaptureSetup[10], "audio2", "audio2", "cleanup", "cleanup")
  /\ Is(AudioCaptureSetup[11], None, None, "cleanup", "cleanup")
<1>1. Is(Notes("initialized"), None, "initialized", "never", "cleanup")
  BY Steps, Known
<1>2. \A k \in 1 .. 11 : AudioCaptureSetup[k] \in SetupStep
  BY <1>1, Steps, NamedSteps DEF AudioCaptureSetup, Streams, Is, Acts
<1>3. Len(AudioCaptureSetup) = 11 /\ AudioCaptureSetup \in Seq(SetupStep)
  BY <1>2, <1>1, Steps, NamedSteps DEF AudioCaptureSetup, Streams, Is, Acts
<1> QED  BY <1>3, <1>1, Steps, NamedSteps DEF AudioCaptureSetup, Streams

(* The steps of the raw-data playback.                                     *)
LEMMA RawBackSteps ==
  /\ RawBackSetup \in Seq(SetupStep) /\ Len(RawBackSetup) = 13
  /\ Is(RawBackSetup[1], "service", None, "cleanup", "cleanup")
  /\ Is(RawBackSetup[2], None, None, "cleanup", "cleanup")
  /\ Is(RawBackSetup[3], None, "client", "never", "cleanup")
  /\ Is(RawBackSetup[4], "session", None, "cleanup", "cleanup")
  /\ Is(RawBackSetup[5], None, None, "cleanup", "cleanup")
  /\ Is(RawBackSetup[6], None, "media", "never", "cleanup")
  /\ Is(RawBackSetup[7], "bus", None, "cleanup", "cleanup")
  /\ Acts(RawBackSetup[8], "audio", "audio", "cleanup", "cleanup")
  /\ Is(RawBackSetup[9], None, "playback", "cleanup", "cleanup")
  /\ Is(RawBackSetup[10], "playback", None, "cleanup", "cleanup")
  /\ Is(RawBackSetup[11], None, None, "cleanup", "cleanup")
  /\ Is(RawBackSetup[12], None, None, "cleanup", "cleanup")
  /\ Is(RawBackSetup[13], None, None, "cleanup", "cleanup")
<1>1. Acts(Optional(Subscribe("audio")), "audio", "audio", "cleanup", "cleanup")
  BY Steps, OptionalIs DEF Streams, Is
<1>2. Is(Goes(Notes("playback"), "cleanup"), None, "playback", "cleanup", "cleanup")
  BY Steps, Going, Known DEF Modes, Exits
<1>3. Is(Opens("playback"), "playback", None, "cleanup", "cleanup")
  BY Steps, Known
<1>4. \A k \in 1 .. 13 : RawBackSetup[k] \in SetupStep
  BY <1>1, <1>2, <1>3, Steps, NamedSteps DEF RawBackSetup, Is, Acts
<1>5. Len(RawBackSetup) = 13 /\ RawBackSetup \in Seq(SetupStep)
  BY <1>4, <1>1, <1>2, <1>3, Steps, NamedSteps DEF RawBackSetup, Is, Acts
<1> QED  BY <1>5, <1>1, <1>2, <1>3, Steps, NamedSteps DEF RawBackSetup

(* The steps of the shared-memory audio example.                           *)
LEMMA AudioShmSteps ==
  /\ AudioShmSetup \in Seq(SetupStep) /\ Len(AudioShmSetup) = 13
  /\ Is(AudioShmSetup[1], "service", None, "cleanup", "cleanup")
  /\ Is(AudioShmSetup[2], None, None, "cleanup", "cleanup")
  /\ Is(AudioShmSetup[3], None, "client", "never", "cleanup")
  /\ Is(AudioShmSetup[4], "session", None, "cleanup", "cleanup")
  /\ Is(AudioShmSetup[5], None, None, "cleanup", "cleanup")
  /\ Is(AudioShmSetup[6], None, "media", "never", "cleanup")
  /\ Is(AudioShmSetup[7], "bus", None, "cleanup", "cleanup")
  /\ Is(AudioShmSetup[8], None, None, "cleanup", "cleanup")
  /\ Acts(AudioShmSetup[9], "output", "output", "never", "cleanup")
  /\ Is(AudioShmSetup[10], "audio", "audio", "cleanup", "cleanup")
  /\ Is(AudioShmSetup[11], None, None, "never", "cleanup")
  /\ AudioShmSetup[12].opens = None
  /\ AudioShmSetup[12].notes = None
  /\ AudioShmSetup[12].closes = "audio"
  /\ AudioShmSetup[12].forgets = "audio"
  /\ AudioShmSetup[12].refused = "ignored"
  /\ AudioShmSetup[12].raised = "cleanup"
  /\ AudioShmSetup[12].optional = FALSE /\ AudioShmSetup[12].mayLeave = FALSE
  /\ Is(AudioShmSetup[13], None, None, "cleanup", "cleanup")
<1>1. Acts(Optional(Goes([Opens("output") EXCEPT !.notes = "output"], "never")),
            "output", "output", "never", "cleanup")
  <2>1. Is([Opens("output") EXCEPT !.notes = "output"], "output", "output", "cleanup", "cleanup")
    BY Steps, Known DEF Is, Acts, SetupStep
  <2> QED  BY <2>1, Going, OptionalIs DEF Is, Modes
<1>2. LET s == [Check EXCEPT !.closes = "audio", !.forgets = "audio", !.refused = "ignored"] IN
      /\ s \in SetupStep /\ s.opens = None /\ s.notes = None /\ s.closes = "audio"
      /\ s.forgets = "audio" /\ s.refused = "ignored" /\ s.raised = "cleanup"
      /\ s.optional = FALSE /\ s.mayLeave = FALSE
  BY Steps DEF Is, Acts, SetupStep, Modes
<1>3. \A k \in 1 .. 13 : AudioShmSetup[k] \in SetupStep
  BY <1>1, <1>2, Steps, NamedSteps DEF AudioShmSetup, Streams, Is, Acts
<1>4. Len(AudioShmSetup) = 13 /\ AudioShmSetup \in Seq(SetupStep)
  BY <1>3, <1>1, <1>2, Steps, NamedSteps DEF AudioShmSetup, Streams, Is, Acts
<1> QED  BY <1>4, <1>1, <1>2, Steps, NamedSteps DEF AudioShmSetup, Streams

(* The steps of the TRC observer.                                          *)
LEMMA TrcSteps ==
  /\ TrcSetup \in Seq(SetupStep) /\ Len(TrcSetup) = 8
  /\ Is(TrcSetup[1], "service", None, "nothing", "nothing")
  /\ Is(TrcSetup[2], None, None, "cleanup", "cleanup")
  /\ Is(TrcSetup[3], None, "client", "never", "cleanup")
  /\ Is(TrcSetup[4], "session", None, "cleanup", "cleanup")
  /\ Acts(TrcSetup[5], None, None, "cleanup", "cleanup")
  /\ Is(TrcSetup[6], None, "attempted", "never", "cleanup")
  /\ Is(TrcSetup[7], "observation", None, "cleanup", "cleanup")
  /\ Is(TrcSetup[8], None, None, "never", "cleanup")
<1>1. Is(Outside(Initial), "service", None, "nothing", "nothing")
  BY NamedSteps, OutsideIs
<1>2. Acts([WaitConnected EXCEPT !.mayLeave = TRUE], None, None, "cleanup", "cleanup")
  BY NamedSteps DEF Is, Acts, SetupStep
<1>3. Is(Notes("attempted"), None, "attempted", "never", "cleanup")
  BY Steps, Known
<1>4. Is(Opens("observation"), "observation", None, "cleanup", "cleanup")
  BY Steps, Known
<1>5. \A k \in 1 .. 8 : TrcSetup[k] \in SetupStep
  <2>1. \A k \in {1, 6, 7} : TrcSetup[k] \in SetupStep
    BY <1>1, <1>3, <1>4 DEF TrcSetup, Is, Acts
  <2>2. \A k \in {2, 3, 4, 8} : TrcSetup[k] \in SetupStep
    BY Steps, NamedSteps DEF TrcSetup, Is, Acts
  <2>3. TrcSetup[5] \in SetupStep
    BY <1>2 DEF TrcSetup, Acts
  <2> QED  BY <2>1, <2>2, <2>3
<1>6. Len(TrcSetup) = 8 /\ TrcSetup \in Seq(SetupStep)
  BY <1>5, <1>1, <1>2, <1>3, <1>4, Steps, NamedSteps DEF TrcSetup, Is, Acts
<1> QED  BY <1>6, <1>1, <1>2, <1>3, <1>4, Steps, NamedSteps DEF TrcSetup

(* The steps of the low-level template.                                    *)
LEMMA LowLevelSteps ==
  /\ LowLevelSetup \in Seq(SetupStep) /\ Len(LowLevelSetup) = 9
  /\ Is(LowLevelSetup[1], "service", None, "nothing", "nothing")
  /\ Is(LowLevelSetup[2], None, "client", "never", "nothing")
  /\ Is(LowLevelSetup[3], "session", None, "cleanup", "cleanup")
  /\ Is(LowLevelSetup[4], None, None, "cleanup", "cleanup")
  /\ Is(LowLevelSetup[5], "motors", None, "cleanup", "cleanup")
  /\ Is(LowLevelSetup[6], None, None, "cleanup", "cleanup")
  /\ Is(LowLevelSetup[7], None, None, "cleanup", "cleanup")
  /\ Is(LowLevelSetup[8], None, None, "never", "cleanup")
  /\ LowLevelSetup[9].opens = None
  /\ LowLevelSetup[9].notes = None
  /\ LowLevelSetup[9].closes = "motors"
  /\ LowLevelSetup[9].forgets = None
  /\ LowLevelSetup[9].refused = "ignored"
  /\ LowLevelSetup[9].raised = "cleanup"
  /\ LowLevelSetup[9].optional = FALSE /\ LowLevelSetup[9].mayLeave = FALSE
<1>1. Is(Outside(Initial), "service", None, "nothing", "nothing")
  BY NamedSteps, OutsideIs
<1>2. Is(Outside(NewClient), None, "client", "never", "nothing")
  BY NamedSteps, OutsideIs
<1>3. Is(Opens("motors"), "motors", None, "cleanup", "cleanup")
  BY Steps, Known
<1>4. LET s == [Check EXCEPT !.closes = "motors", !.refused = "ignored"] IN
      /\ s \in SetupStep /\ s.opens = None /\ s.notes = None /\ s.closes = "motors"
      /\ s.forgets = None /\ s.refused = "ignored" /\ s.raised = "cleanup"
      /\ s.optional = FALSE /\ s.mayLeave = FALSE
  BY Steps DEF Is, Acts, SetupStep, Modes
<1>5. \A k \in 1 .. 9 : LowLevelSetup[k] \in SetupStep
  BY <1>1, <1>2, <1>3, <1>4, Steps, NamedSteps DEF LowLevelSetup, Is, Acts
<1>6. Len(LowLevelSetup) = 9 /\ LowLevelSetup \in Seq(SetupStep)
  BY <1>5, <1>1, <1>2, <1>3, <1>4, Steps, NamedSteps DEF LowLevelSetup, Is, Acts
<1> QED  BY <1>6, <1>1, <1>2, <1>3, <1>4, Steps, NamedSteps DEF LowLevelSetup

(* The steps of the release script.                                        *)
LEMMA ReleaseSteps ==
  /\ ReleaseSetup \in Seq(SetupStep) /\ Len(ReleaseSetup) = 7
  /\ Is(ReleaseSetup[1], "service", None, "nothing", "nothing")
  /\ Is(ReleaseSetup[2], None, "client", "never", "nothing")
  /\ Is(ReleaseSetup[3], "session", None, "cleanup", "cleanup")
  /\ Is(ReleaseSetup[4], None, None, "cleanup", "cleanup")
  /\ Acts(ReleaseSetup[5], None, None, "cleanup", "cleanup")
  /\ ReleaseSetup[5].mayLeave = FALSE
  /\ Is(ReleaseSetup[6], None, None, "cleanup", "cleanup")
  /\ ReleaseSetup[7].opens = None
  /\ ReleaseSetup[7].notes = None
  /\ ReleaseSetup[7].closes = "mode"
  /\ ReleaseSetup[7].forgets = None
  /\ ReleaseSetup[7].refused = "cleanup"
  /\ ReleaseSetup[7].raised = "cleanup"
  /\ ReleaseSetup[7].optional = FALSE /\ ReleaseSetup[7].mayLeave = FALSE
<1>1. Is(Outside(Initial), "service", None, "nothing", "nothing")
  BY NamedSteps, OutsideIs
<1>2. Is(Outside(NewClient), None, "client", "never", "nothing")
  BY NamedSteps, OutsideIs
<1>3. Acts(Optional(Check), None, None, "cleanup", "cleanup")
  BY Steps, OptionalIs DEF Is
<1>4. Optional(Check).mayLeave = FALSE
  BY Steps DEF Is, Acts, Optional, SetupStep
<1>5. LET s == [Check EXCEPT !.closes = "mode"] IN
      /\ s \in SetupStep /\ s.opens = None /\ s.notes = None /\ s.closes = "mode"
      /\ s.forgets = None /\ s.refused = "cleanup" /\ s.raised = "cleanup"
      /\ s.optional = FALSE /\ s.mayLeave = FALSE
  BY Steps DEF Is, Acts, SetupStep, Modes
<1>6. \A k \in 1 .. 7 : ReleaseSetup[k] \in SetupStep
  BY <1>1, <1>2, <1>3, <1>4, <1>5, Steps, NamedSteps DEF ReleaseSetup, Is, Acts
<1>7. Len(ReleaseSetup) = 7 /\ ReleaseSetup \in Seq(SetupStep)
  BY <1>6, <1>1, <1>2, <1>3, <1>4, <1>5, Steps, NamedSteps
     DEF ReleaseSetup, Is, Acts
<1> QED  BY <1>7, <1>1, <1>2, <1>3, <1>4, <1>5, Steps, NamedSteps DEF ReleaseSetup

(* The steps of the policy console.                                        *)
LEMMA PolicySteps ==
  /\ PolicySetup \in Seq(SetupStep) /\ Len(PolicySetup) = 11
  /\ Is(PolicySetup[1], "stream", "stream", "undo", "undo")
  /\ Is(PolicySetup[2], "input", "input", "undo", "undo")
  /\ Is(PolicySetup[3], "outputBuffer", "outputBuffer", "undo", "undo")
  /\ Is(PolicySetup[4], None, None, "undo", "undo")
  /\ Is(PolicySetup[5], "service", None, "undo", "nothing")
  /\ Is(PolicySetup[6], None, "client", "never", "nothing")
  /\ Is(PolicySetup[7], "session", None, "cleanup", "cleanup")
  /\ Is(PolicySetup[8], None, None, "cleanup", "cleanup")
  /\ Is(PolicySetup[9], None, None, "cleanup", "cleanup")
  /\ Is(PolicySetup[10], "loop", "loop", "never", "cleanup")
  /\ Acts(PolicySetup[11], "motors", None, "never", "cleanup")
<1>1. Is([Outside(Initial) EXCEPT !.refused = "undo"], "service", None, "undo", "nothing")
  <2>1. Is(Outside(Initial), "service", None, "nothing", "nothing")
    BY NamedSteps, OutsideIs
  <2> QED  BY <2>1 DEF Is, Acts, SetupStep, Modes, Exits
<1>2. Is(Outside(NewClient), None, "client", "never", "nothing")
  BY NamedSteps, OutsideIs
<1>3. Is([Goes(Opens("loop"), "never") EXCEPT !.notes = "loop"], "loop", "loop", "never", "cleanup")
  <2>1. Is(Goes(Opens("loop"), "never"), "loop", None, "never", "cleanup")
    BY Steps, Going, Known DEF Modes
  <2> QED  BY <2>1, Known DEF Is, Acts, SetupStep
<1>4. Acts(Optional(Goes(Opens("motors"), "never")), "motors", None, "never", "cleanup")
  <2>1. Is(Goes(Opens("motors"), "never"), "motors", None, "never", "cleanup")
    BY Steps, Going, Known DEF Modes
  <2> QED  BY <2>1, OptionalIs DEF Is
<1>5. \A k \in 1 .. 11 : PolicySetup[k] \in SetupStep
  BY EngineSteps, <1>1, <1>2, <1>3, <1>4, Steps, NamedSteps
     DEF PolicySetup, EngineSetup, Is, Acts
<1>6. Len(PolicySetup) = 11 /\ PolicySetup \in Seq(SetupStep)
  BY <1>5, EngineSteps, <1>1, <1>2, <1>3, <1>4, Steps, NamedSteps
     DEF PolicySetup, EngineSetup, Is, Acts
<1> QED  BY <1>6, EngineSteps, <1>1, <1>2, <1>3, <1>4, Steps, NamedSteps
            DEF PolicySetup, EngineSetup

(* The steps of the engine validation.                                     *)
LEMMA ValidateSteps ==
  /\ ValidateSetup \in Seq(SetupStep) /\ Len(ValidateSetup) = 5
  /\ Is(ValidateSetup[1], "stream", "stream", "undo", "undo")
  /\ Is(ValidateSetup[2], "input", "input", "undo", "undo")
  /\ Is(ValidateSetup[3], "outputBuffer", "outputBuffer", "undo", "undo")
  /\ Is(ValidateSetup[4], None, None, "undo", "undo")
  /\ Is(ValidateSetup[5], None, None, "cleanup", "cleanup")
<1>1. \A k \in 1 .. 5 : ValidateSetup[k] \in SetupStep
  BY EngineSteps, Steps, NamedSteps DEF ValidateSetup, EngineSetup, Is, Acts
<1>2. Len(ValidateSetup) = 5 /\ ValidateSetup \in Seq(SetupStep)
  BY <1>1, EngineSteps, Steps, NamedSteps DEF ValidateSetup, EngineSetup, Is, Acts
<1> QED  BY <1>2, EngineSteps, Steps, NamedSteps DEF ValidateSetup, EngineSetup

(* The setup of the media examples sets the variable of all it opens in    *)
(* time, and what it can open.                                             *)
LEMMA MediaSetupGood ==
  ASSUME NEW p \in {"media", "mediaLow"}, Setup(p) = MediaSetup
  PROVE  /\ GoodSetup(p)
         /\ \A r \in Resources : CanOpen(p, 12, r) =>
              \/ r \in {"service", "session", "bus", "video", "encoded", "audio"}
              \/ (Programs[p].restores /\ r = "mode")
<1>1. p \in Names
  BY DEF Names
<1>2. \A i \in 4 .. 12 : Knows(p, i, "client")
  <2>1. Sure(MediaSetup[3]) /\ MediaSetup[3].notes = "client"
    BY MediaSteps, SureOf DEF None
  <2> QED  BY <2>1 DEF Knows
<1>3. \A i \in 7 .. 12 : Knows(p, i, "media")
  <2>1. Sure(MediaSetup[6]) /\ MediaSetup[6].notes = "media"
    BY MediaSteps, SureOf DEF None
  <2> QED  BY <2>1 DEF Knows
<1>4. \A i \in {1, 4, 7, 9, 10, 11} : GoodStep(p, i, MediaSetup[i])
  BY <1>1, <1>2, <1>3, MediaSteps, OpeningStep, KeeperTable DEF Is, Streams
<1>5. \A i \in {2, 3, 5, 6, 8, 12} : GoodStep(p, i, MediaSetup[i])
  BY MediaSteps, PlainStep DEF Is, Acts
<1>6. GoodSetup(p)
  <2>1. \A i \in 1 .. 12 : GoodStep(p, i, MediaSetup[i])
    BY <1>4, <1>5
  <2>2. MediaSetup # <<>> /\ MediaSetup \in Seq(SetupStep) /\ Len(MediaSetup) = 12
    <3>1. Len(MediaSetup) = 12 /\ MediaSetup \in Seq(SetupStep)
      BY MediaSteps
    <3>2. Len(MediaSetup) # 0
      BY <3>1
    <3> QED  BY <3>1, <3>2, NonEmpty
  <2> QED  BY <2>1, <2>2 DEF GoodSetup
<1>7. \A k \in 1 .. 12 :
        MediaSetup[k].opens \in {None, "service", "session", "bus", "video", "encoded", "audio"}
  BY MediaSteps DEF Is, Acts
<1>8. None \notin Resources
  BY DEF None, Resources, Streams
<1> QED  BY <1>6, <1>7, <1>8 DEF CanOpen, Setup

(* The setup of the capture of all channels sets the variable of all it    *)
(* opens in time, and what it can open.                                    *)
LEMMA CaptureAllSetupGood ==
  ASSUME NEW p \in {"captureAll", "captureLow"}, Setup(p) = CaptureAllSetup
  PROVE  /\ GoodSetup(p)
         /\ \A r \in Resources : CanOpen(p, 12, r) =>
              \/ r \in {"service", "session", "bus", "video", "audio"}
              \/ (Programs[p].restores /\ r = "mode")
<1>1. p \in Names
  BY DEF Names
<1>2. \A i \in 4 .. 12 : Knows(p, i, "client")
  <2>1. Sure(CaptureAllSetup[3]) /\ CaptureAllSetup[3].notes = "client"
    BY CaptureAllSteps, SureOf DEF None
  <2> QED  BY <2>1 DEF Knows
<1>3. \A i \in 7 .. 12 : Knows(p, i, "media")
  <2>1. Sure(CaptureAllSetup[6]) /\ CaptureAllSetup[6].notes = "media"
    BY CaptureAllSteps, SureOf DEF None
  <2> QED  BY <2>1 DEF Knows
<1>4. \A i \in {1, 4, 7, 10, 11} : GoodStep(p, i, CaptureAllSetup[i])
  BY <1>1, <1>2, <1>3, CaptureAllSteps, OpeningStep, KeeperTable DEF Is, Streams
<1>5. \A i \in {2, 3, 5, 6, 8, 9, 12} : GoodStep(p, i, CaptureAllSetup[i])
  BY CaptureAllSteps, PlainStep DEF Is, Acts
<1>6. GoodSetup(p)
  <2>1. \A i \in 1 .. 12 : GoodStep(p, i, CaptureAllSetup[i])
    BY <1>4, <1>5
  <2>2. /\ CaptureAllSetup # <<>>
        /\ CaptureAllSetup \in Seq(SetupStep)
        /\ Len(CaptureAllSetup) = 12
    <3>1. Len(CaptureAllSetup) = 12 /\ CaptureAllSetup \in Seq(SetupStep)
      BY CaptureAllSteps
    <3>2. Len(CaptureAllSetup) # 0
      BY <3>1
    <3> QED  BY <3>1, <3>2, NonEmpty
  <2> QED  BY <2>1, <2>2 DEF GoodSetup
<1>7. \A k \in 1 .. 12 :
        CaptureAllSetup[k].opens \in {None, "service", "session", "bus", "video", "audio"}
  BY CaptureAllSteps DEF Is, Acts
<1>8. None \notin Resources
  BY DEF None, Resources, Streams
<1> QED  BY <1>6, <1>7, <1>8 DEF CanOpen, Setup

(* The setup of the four-channel audio capture sets the variable of all it *)
(* opens in time, and what it can open.                                    *)
LEMMA AudioCaptureSetupGood ==
  ASSUME Setup("audioCapture") = AudioCaptureSetup,
         Programs["audioCapture"].restores = FALSE
  PROVE  /\ GoodSetup("audioCapture")
         /\ \A r \in Resources : CanOpen("audioCapture", 11, r) =>
              r \in {"service", "session", "bus", "audio", "audio2"}
<1>1. "audioCapture" \in Names
  BY DEF Names
<1>2. \A i \in 2 .. 11 : Knows("audioCapture", i, "initialized")
  <2>1. Sure(AudioCaptureSetup[1]) /\ AudioCaptureSetup[1].notes = "initialized"
    BY AudioCaptureSteps, SureOf DEF None
  <2> QED  BY <2>1 DEF Knows
<1>3. \A i \in 5 .. 11 : Knows("audioCapture", i, "client")
  <2>1. Sure(AudioCaptureSetup[4]) /\ AudioCaptureSetup[4].notes = "client"
    BY AudioCaptureSteps, SureOf DEF None
  <2> QED  BY <2>1 DEF Knows
<1>4. \A i \in 8 .. 11 : Knows("audioCapture", i, "media")
  <2>1. Sure(AudioCaptureSetup[7]) /\ AudioCaptureSetup[7].notes = "media"
    BY AudioCaptureSteps, SureOf DEF None
  <2> QED  BY <2>1 DEF Knows
<1>5. \A i \in {2, 5, 8, 9, 10} : GoodStep("audioCapture", i, AudioCaptureSetup[i])
  BY <1>1, <1>2, <1>3, <1>4, AudioCaptureSteps, OpeningStep, KeeperTable
     DEF Is, Streams
<1>6. \A i \in {1, 3, 4, 6, 7, 11} : GoodStep("audioCapture", i, AudioCaptureSetup[i])
  BY AudioCaptureSteps, PlainStep DEF Is, Acts
<1>7. GoodSetup("audioCapture")
  <2>1. \A i \in 1 .. 11 : GoodStep("audioCapture", i, AudioCaptureSetup[i])
    BY <1>5, <1>6
  <2>2. /\ AudioCaptureSetup # <<>>
        /\ AudioCaptureSetup \in Seq(SetupStep)
        /\ Len(AudioCaptureSetup) = 11
    <3>1. Len(AudioCaptureSetup) = 11 /\ AudioCaptureSetup \in Seq(SetupStep)
      BY AudioCaptureSteps
    <3>2. Len(AudioCaptureSetup) # 0
      BY <3>1
    <3> QED  BY <3>1, <3>2, NonEmpty
  <2> QED  BY <2>1, <2>2 DEF GoodSetup
<1>8. \A k \in 1 .. 11 :
        AudioCaptureSetup[k].opens \in {None, "service", "session", "bus", "audio", "audio2"}
  BY AudioCaptureSteps DEF Is, Acts
<1>9. None \notin Resources
  BY DEF None, Resources, Streams
<1> QED  BY <1>7, <1>8, <1>9 DEF CanOpen, Setup

(* The setup of the raw-data playback sets the variable of all it opens in *)
(* time, and what it can open.                                             *)
LEMMA RawBackSetupGood ==
  ASSUME Setup("rawBack") = RawBackSetup, Programs["rawBack"].restores = FALSE
  PROVE  /\ GoodSetup("rawBack")
         /\ \A r \in Resources : CanOpen("rawBack", 13, r) =>
              r \in {"service", "session", "bus", "audio", "playback"}
<1>1. "rawBack" \in Names
  BY DEF Names
<1>2. \A i \in 4 .. 13 : Knows("rawBack", i, "client")
  <2>1. Sure(RawBackSetup[3]) /\ RawBackSetup[3].notes = "client"
    BY RawBackSteps, SureOf DEF None
  <2> QED  BY <2>1 DEF Knows
<1>3. \A i \in 7 .. 13 : Knows("rawBack", i, "media")
  <2>1. Sure(RawBackSetup[6]) /\ RawBackSetup[6].notes = "media"
    BY RawBackSteps, SureOf DEF None
  <2> QED  BY <2>1 DEF Knows
<1>4. \A i \in 10 .. 13 : Knows("rawBack", i, "playback")
  <2>1. Sure(RawBackSetup[9]) /\ RawBackSetup[9].notes = "playback"
    BY RawBackSteps, SureOf DEF None
  <2> QED  BY <2>1 DEF Knows
<1>5. \A i \in {1, 4, 7, 8, 10} : GoodStep("rawBack", i, RawBackSetup[i])
  <2>1. \A i \in {1, 4, 7, 8} : GoodStep("rawBack", i, RawBackSetup[i])
    BY <1>1, <1>2, <1>3, <1>4, RawBackSteps, OpeningStep, KeeperTable
       DEF Is, Streams
  <2>2. \A i \in {10} : GoodStep("rawBack", i, RawBackSetup[i])
    BY <1>1, <1>2, <1>3, <1>4, RawBackSteps, OpeningStep, KeeperTable
       DEF Is, Streams
  <2> QED  BY <2>1, <2>2
<1>6. \A i \in {2, 3, 5, 6, 9, 11, 12, 13} : GoodStep("rawBack", i, RawBackSetup[i])
  BY RawBackSteps, PlainStep DEF Is, Acts
<1>7. GoodSetup("rawBack")
  <2>1. \A i \in 1 .. 13 : GoodStep("rawBack", i, RawBackSetup[i])
    BY <1>5, <1>6
  <2>2. RawBackSetup # <<>> /\ RawBackSetup \in Seq(SetupStep) /\ Len(RawBackSetup) = 13
    <3>1. Len(RawBackSetup) = 13 /\ RawBackSetup \in Seq(SetupStep)
      BY RawBackSteps
    <3>2. Len(RawBackSetup) # 0
      BY <3>1
    <3> QED  BY <3>1, <3>2, NonEmpty
  <2> QED  BY <2>1, <2>2 DEF GoodSetup
<1>8. \A k \in 1 .. 13 :
        RawBackSetup[k].opens \in {None, "service", "session", "bus", "audio", "playback"}
  BY RawBackSteps DEF Is, Acts
<1>9. None \notin Resources
  BY DEF None, Resources, Streams
<1> QED  BY <1>7, <1>8, <1>9 DEF CanOpen, Setup

(* The setup of the shared-memory audio example sets the variable of all   *)
(* it opens in time, and what it can open.                                 *)
LEMMA AudioShmSetupGood ==
  ASSUME Setup("audioShm") = AudioShmSetup, Programs["audioShm"].restores = FALSE
  PROVE  /\ GoodSetup("audioShm")
         /\ \A r \in Resources : CanOpen("audioShm", 13, r) =>
              r \in {"service", "session", "bus", "audio", "output"}
<1>1. "audioShm" \in Names
  BY DEF Names
<1>2. \A i \in 4 .. 13 : Knows("audioShm", i, "client")
  <2>1. Sure(AudioShmSetup[3]) /\ AudioShmSetup[3].notes = "client"
    BY AudioShmSteps, SureOf DEF None
  <2> QED  BY <2>1 DEF Knows
<1>3. \A i \in 7 .. 13 : Knows("audioShm", i, "media")
  <2>1. Sure(AudioShmSetup[6]) /\ AudioShmSetup[6].notes = "media"
    BY AudioShmSteps, SureOf DEF None
  <2> QED  BY <2>1 DEF Knows
<1>4. \A i \in {1, 4, 7, 9, 10} : GoodStep("audioShm", i, AudioShmSetup[i])
  BY <1>1, <1>2, <1>3, AudioShmSteps, OpeningStep, KeeperTable DEF Is, Streams
<1>5. \A i \in {2, 3, 5, 6, 8, 11, 13} : GoodStep("audioShm", i, AudioShmSetup[i])
  BY AudioShmSteps, PlainStep DEF Is, Acts
<1>6. GoodStep("audioShm", 12, AudioShmSetup[12])
  BY AudioShmSteps DEF GoodStep, None, Streams
<1>7. GoodSetup("audioShm")
  <2>1. \A i \in 1 .. 13 : GoodStep("audioShm", i, AudioShmSetup[i])
    BY <1>4, <1>5, <1>6
  <2>2. /\ AudioShmSetup # <<>>
        /\ AudioShmSetup \in Seq(SetupStep)
        /\ Len(AudioShmSetup) = 13
    <3>1. Len(AudioShmSetup) = 13 /\ AudioShmSetup \in Seq(SetupStep)
      BY AudioShmSteps
    <3>2. Len(AudioShmSetup) # 0
      BY <3>1
    <3> QED  BY <3>1, <3>2, NonEmpty
  <2> QED  BY <2>1, <2>2 DEF GoodSetup
<1>8. \A k \in 1 .. 13 :
        AudioShmSetup[k].opens \in {None, "service", "session", "bus", "audio", "output"}
  BY AudioShmSteps DEF Is, Acts
<1>9. None \notin Resources
  BY DEF None, Resources, Streams
<1> QED  BY <1>7, <1>8, <1>9 DEF CanOpen, Setup

(* The setup of the TRC observer sets the variable of all it opens in      *)
(* time, and what it can open.                                             *)
LEMMA TrcSetupGood ==
  ASSUME Setup("trc") = TrcSetup, Programs["trc"].restores = FALSE
  PROVE  /\ GoodSetup("trc")
         /\ \A r \in Resources : CanOpen("trc", 8, r) =>
              r \in {"service", "session", "observation"}
<1>1. "trc" \in Names
  BY DEF Names
<1>2. \A i \in 4 .. 8 : Knows("trc", i, "client")
  <2>1. Sure(TrcSetup[3]) /\ TrcSetup[3].notes = "client"
    BY TrcSteps, SureOf DEF None
  <2> QED  BY <2>1 DEF Knows
<1>3. \A i \in 7 .. 8 : Knows("trc", i, "attempted")
  <2>1. Sure(TrcSetup[6]) /\ TrcSetup[6].notes = "attempted"
    BY TrcSteps, SureOf DEF None
  <2> QED  BY <2>1 DEF Knows
<1>4. \A i \in {1, 4, 7} : GoodStep("trc", i, TrcSetup[i])
  BY <1>1, <1>2, <1>3, TrcSteps, OpeningStep, KeeperTable DEF Is, Streams
<1>5. \A i \in {2, 3, 5, 6, 8} : GoodStep("trc", i, TrcSetup[i])
  BY TrcSteps, PlainStep DEF Is, Acts
<1>6. GoodSetup("trc")
  <2>1. \A i \in 1 .. 8 : GoodStep("trc", i, TrcSetup[i])
    BY <1>4, <1>5
  <2>2. TrcSetup # <<>> /\ TrcSetup \in Seq(SetupStep) /\ Len(TrcSetup) = 8
    <3>1. Len(TrcSetup) = 8 /\ TrcSetup \in Seq(SetupStep)
      BY TrcSteps
    <3>2. Len(TrcSetup) # 0
      BY <3>1
    <3> QED  BY <3>1, <3>2, NonEmpty
  <2> QED  BY <2>1, <2>2 DEF GoodSetup
<1>7. \A k \in 1 .. 8 : TrcSetup[k].opens \in {None, "service", "session", "observation"}
  BY TrcSteps DEF Is, Acts
<1>8. None \notin Resources
  BY DEF None, Resources, Streams
<1> QED  BY <1>6, <1>7, <1>8 DEF CanOpen, Setup

(* The setup of the low-level template sets the variable of all it opens   *)
(* in time, and what it can open.                                          *)
LEMMA LowLevelSetupGood ==
  ASSUME Setup("lowLevel") = LowLevelSetup, Programs["lowLevel"].restores = FALSE
  PROVE  /\ GoodSetup("lowLevel")
         /\ \A r \in Resources : CanOpen("lowLevel", 9, r) =>
              r \in {"service", "session", "motors"}
<1>1. "lowLevel" \in Names
  BY DEF Names
<1>2. \A i \in {1, 3, 5} : GoodStep("lowLevel", i, LowLevelSetup[i])
  BY <1>1, LowLevelSteps, OpeningStep, KeeperTable DEF Is, Streams
<1>3. \A i \in {2, 4, 6, 7, 8, 9} : GoodStep("lowLevel", i, LowLevelSetup[i])
  BY LowLevelSteps, PlainStep DEF Is, Acts
<1>4. GoodSetup("lowLevel")
  <2>1. \A i \in 1 .. 9 : GoodStep("lowLevel", i, LowLevelSetup[i])
    BY <1>2, <1>3
  <2>2. /\ LowLevelSetup # <<>>
        /\ LowLevelSetup \in Seq(SetupStep)
        /\ Len(LowLevelSetup) = 9
    <3>1. Len(LowLevelSetup) = 9 /\ LowLevelSetup \in Seq(SetupStep)
      BY LowLevelSteps
    <3>2. Len(LowLevelSetup) # 0
      BY <3>1
    <3> QED  BY <3>1, <3>2, NonEmpty
  <2> QED  BY <2>1, <2>2 DEF GoodSetup
<1>5. \A k \in 1 .. 9 : LowLevelSetup[k].opens \in {None, "service", "session", "motors"}
  BY LowLevelSteps DEF Is, Acts
<1>6. None \notin Resources
  BY DEF None, Resources, Streams
<1> QED  BY <1>4, <1>5, <1>6 DEF CanOpen, Setup

(* The setup of the release script sets the variable of all it opens in    *)
(* time, and what it can open.                                             *)
LEMMA ReleaseSetupGood ==
  ASSUME Setup("release") = ReleaseSetup, Programs["release"].restores = FALSE
  PROVE  /\ GoodSetup("release")
         /\ \A r \in Resources : CanOpen("release", 7, r) =>
              r \in {"service", "session"}
<1>1. "release" \in Names
  BY DEF Names
<1>2. \A i \in {1, 3} : GoodStep("release", i, ReleaseSetup[i])
  BY <1>1, ReleaseSteps, OpeningStep, KeeperTable DEF Is, Streams
<1>3. \A i \in {2, 4, 5, 6, 7} : GoodStep("release", i, ReleaseSetup[i])
  BY ReleaseSteps, PlainStep DEF Is, Acts
<1>4. GoodSetup("release")
  <2>1. \A i \in 1 .. 7 : GoodStep("release", i, ReleaseSetup[i])
    BY <1>2, <1>3
  <2>2. ReleaseSetup # <<>> /\ ReleaseSetup \in Seq(SetupStep) /\ Len(ReleaseSetup) = 7
    <3>1. Len(ReleaseSetup) = 7 /\ ReleaseSetup \in Seq(SetupStep)
      BY ReleaseSteps
    <3>2. Len(ReleaseSetup) # 0
      BY <3>1
    <3> QED  BY <3>1, <3>2, NonEmpty
  <2> QED  BY <2>1, <2>2 DEF GoodSetup
<1>5. \A k \in 1 .. 7 : ReleaseSetup[k].opens \in {None, "service", "session"}
  BY ReleaseSteps DEF Is, Acts
<1>6. None \notin Resources
  BY DEF None, Resources, Streams
<1> QED  BY <1>4, <1>5, <1>6 DEF CanOpen, Setup

(* The setup of the policy console sets the variable of all it opens in    *)
(* time, and what it can open.                                             *)
LEMMA PolicySetupGood ==
  ASSUME Setup("policy") = PolicySetup, Programs["policy"].restores = FALSE
  PROVE  /\ GoodSetup("policy")
         /\ \A r \in Resources : CanOpen("policy", 11, r) =>
              r \in {"service", "session", "motors", "loop", "stream", "input", "outputBuffer"}
<1>1. "policy" \in Names
  BY DEF Names
<1>2. \A i \in {1, 2, 3, 5, 7, 10, 11} : GoodStep("policy", i, PolicySetup[i])
  <2>1. \A i \in {1, 2, 3} : GoodStep("policy", i, PolicySetup[i])
    BY <1>1, PolicySteps, OpeningStep, KeeperTable DEF Is, Streams
  <2>2. \A i \in {5, 7, 10, 11} : GoodStep("policy", i, PolicySetup[i])
    BY <1>1, PolicySteps, OpeningStep, KeeperTable DEF Is, Streams
  <2> QED  BY <2>1, <2>2
<1>3. \A i \in {4, 6, 8, 9} : GoodStep("policy", i, PolicySetup[i])
  BY PolicySteps, PlainStep DEF Is, Acts
<1>4. GoodSetup("policy")
  <2>1. \A i \in 1 .. 11 : GoodStep("policy", i, PolicySetup[i])
    BY <1>2, <1>3
  <2>2. PolicySetup # <<>> /\ PolicySetup \in Seq(SetupStep) /\ Len(PolicySetup) = 11
    <3>1. Len(PolicySetup) = 11 /\ PolicySetup \in Seq(SetupStep)
      BY PolicySteps
    <3>2. Len(PolicySetup) # 0
      BY <3>1
    <3> QED  BY <3>1, <3>2, NonEmpty
  <2> QED  BY <2>1, <2>2 DEF GoodSetup
<1>5. \A k \in 1 .. 11 :
        PolicySetup[k].opens \in {None, "service", "session", "motors", "loop", "stream", "input", "outputBuffer"}
  BY PolicySteps DEF Is, Acts
<1>6. None \notin Resources
  BY DEF None, Resources, Streams
<1> QED  BY <1>4, <1>5, <1>6 DEF CanOpen, Setup

(* The setup of the engine validation sets the variable of all it opens in *)
(* time, and what it can open.                                             *)
LEMMA ValidateSetupGood ==
  ASSUME Setup("validate") = ValidateSetup, Programs["validate"].restores = FALSE
  PROVE  /\ GoodSetup("validate")
         /\ \A r \in Resources : CanOpen("validate", 5, r) =>
              r \in {"stream", "input", "outputBuffer"}
<1>1. "validate" \in Names
  BY DEF Names
<1>2. \A i \in {1, 2, 3} : GoodStep("validate", i, ValidateSetup[i])
  BY <1>1, ValidateSteps, OpeningStep, KeeperTable DEF Is, Streams
<1>3. \A i \in {4, 5} : GoodStep("validate", i, ValidateSetup[i])
  BY ValidateSteps, PlainStep DEF Is, Acts
<1>4. GoodSetup("validate")
  <2>1. \A i \in 1 .. 5 : GoodStep("validate", i, ValidateSetup[i])
    BY <1>2, <1>3
  <2>2. /\ ValidateSetup # <<>>
        /\ ValidateSetup \in Seq(SetupStep)
        /\ Len(ValidateSetup) = 5
    <3>1. Len(ValidateSetup) = 5 /\ ValidateSetup \in Seq(SetupStep)
      BY ValidateSteps
    <3>2. Len(ValidateSetup) # 0
      BY <3>1
    <3> QED  BY <3>1, <3>2, NonEmpty
  <2> QED  BY <2>1, <2>2 DEF GoodSetup
<1>5. \A k \in 1 .. 5 : ValidateSetup[k].opens \in {None, "stream", "input", "outputBuffer"}
  BY ValidateSteps DEF Is, Acts
<1>6. None \notin Resources
  BY DEF None, Resources, Streams
<1> QED  BY <1>4, <1>5, <1>6 DEF CanOpen, Setup

\* The cleanup of the inference engine.
EngineCleanup == <<Group("ends", CloseEngine)>>

(* The releases of the media examples.                                     *)
LEMMA MediaReleases ==
  /\ MediaCleanup \in Seq(ReleaseGroup) /\ Len(MediaCleanup) = 4
  /\ Groups(MediaCleanup, 1, 3, "swallowed")
  /\ Gives(MediaCleanup, 1, 1, "encoded", "encoded")
  /\ Gives(MediaCleanup, 1, 2, "video", "video")
  /\ Gives(MediaCleanup, 1, 3, "audio", "audio")
  /\ Groups(MediaCleanup, 2, 1, "swallowed")
  /\ Gives(MediaCleanup, 2, 1, "bus", "media")
  /\ Groups(MediaCleanup, 3, 1, "swallowed")
  /\ Gives(MediaCleanup, 3, 1, "session", "client")
  /\ Groups(MediaCleanup, 4, 1, "swallowed")
  /\ Gives(MediaCleanup, 4, 1, "service", Always)
<1>1. /\ Len(MediaCleanup) = 4
      /\ At(MediaCleanup, 1, StopAll)
      /\ At(MediaCleanup, 2, Single("swallowed", "bus", "media"))
      /\ At(MediaCleanup, 3, Single("swallowed", "session", "client"))
      /\ At(MediaCleanup, 4, Single("swallowed", "service", Always))
  BY DEF MediaCleanup, Single, At
<1>2. /\ Groups(MediaCleanup, 1, 3, "swallowed")
      /\ Gives(MediaCleanup, 1, 1, "encoded", "encoded")
      /\ Gives(MediaCleanup, 1, 2, "video", "video")
      /\ Gives(MediaCleanup, 1, 3, "audio", "audio")
  BY <1>1, StopAllIs
<1>3. Alone(MediaCleanup, 2, "swallowed", "bus", "media")
  BY <1>1, Pairs, OneRelease
<1>4. Alone(MediaCleanup, 3, "swallowed", "session", "client")
  BY <1>1, Pairs, OneRelease
<1>5. Alone(MediaCleanup, 4, "swallowed", "service", Always)
  BY <1>1, Pairs, OneRelease
<1>6. MediaCleanup \in Seq(ReleaseGroup)
  <2>1. \A g \in 1 .. 4 : MediaCleanup[g] \in ReleaseGroup
    BY <1>2, <1>3, <1>4, <1>5 DEF Groups, Alone
  <2> QED  BY <2>1, <1>1 DEF At, MediaCleanup
<1> QED  BY <1>1, <1>2, <1>3, <1>4, <1>5, <1>6 DEF Alone

(* The releases of the capture of all channels.                            *)
LEMMA CaptureAllReleases ==
  /\ CaptureAllCleanup \in Seq(ReleaseGroup) /\ Len(CaptureAllCleanup) = 5
  /\ Groups(CaptureAllCleanup, 1, 2, "passed")
  /\ Gives(CaptureAllCleanup, 1, 1, "audio", "audio")
  /\ Gives(CaptureAllCleanup, 1, 2, "video", "video")
  /\ Groups(CaptureAllCleanup, 2, 1, "passed")
  /\ Gives(CaptureAllCleanup, 2, 1, "bus", "capturing")
  /\ Groups(CaptureAllCleanup, 3, 1, "swallowed")
  /\ Gives(CaptureAllCleanup, 3, 1, "bus", "media")
  /\ Groups(CaptureAllCleanup, 4, 1, "swallowed")
  /\ Gives(CaptureAllCleanup, 4, 1, "session", "client")
  /\ Groups(CaptureAllCleanup, 5, 1, "swallowed")
  /\ Gives(CaptureAllCleanup, 5, 1, "service", Always)
<1> DEFINE s == <<Item("audio", "audio"), Item("video", "video")>>
<1>1. /\ Piece(Item("audio", "audio"), "audio", "audio")
      /\ Piece(Item("video", "video"), "video", "video")
  BY ItemFits, Pairs
<1>2. /\ s \in Seq(Releasing) /\ Len(s) = 2 /\ s # <<>>
      /\ Piece(s[1], "audio", "audio")
      /\ Piece(s[2], "video", "video")
  BY <1>1 DEF Piece
<1>3. /\ Len(CaptureAllCleanup) = 5
      /\ At(CaptureAllCleanup, 1, Group("passed", s))
      /\ At(CaptureAllCleanup, 2, Single("passed", "bus", "capturing"))
      /\ At(CaptureAllCleanup, 3, Single("swallowed", "bus", "media"))
      /\ At(CaptureAllCleanup, 4, Single("swallowed", "session", "client"))
      /\ At(CaptureAllCleanup, 5, Single("swallowed", "service", Always))
  BY DEF CaptureAllCleanup, MediaCleanup, Single, At
<1> HIDE DEF s
<1>4. /\ Groups(CaptureAllCleanup, 1, 2, "passed")
      /\ Gives(CaptureAllCleanup, 1, 1, "audio", "audio")
      /\ Gives(CaptureAllCleanup, 1, 2, "video", "video")
  <2>1. Groups(CaptureAllCleanup, 1, 2, "passed") /\ CaptureAllCleanup[1].items = s
    <3>1. Several(CaptureAllCleanup, 1, "passed", s, 2)
      BY <1>2, <1>3 DEF Several
    <3> QED  BY <3>1, ManyReleases
  <2> QED  BY <2>1, <1>2, <1>3 DEF Gives, Piece, At
<1>5. Alone(CaptureAllCleanup, 2, "passed", "bus", "capturing")
  BY <1>3, Pairs, OneRelease
<1>6. Alone(CaptureAllCleanup, 3, "swallowed", "bus", "media")
  BY <1>3, Pairs, OneRelease
<1>7. Alone(CaptureAllCleanup, 4, "swallowed", "session", "client")
  BY <1>3, Pairs, OneRelease
<1>8. Alone(CaptureAllCleanup, 5, "swallowed", "service", Always)
  BY <1>3, Pairs, OneRelease
<1>9. CaptureAllCleanup \in Seq(ReleaseGroup)
  <2>1. \A g \in 1 .. 5 : CaptureAllCleanup[g] \in ReleaseGroup
    BY <1>4, <1>5, <1>6, <1>7, <1>8 DEF Groups, Alone
  <2> QED  BY <2>1, <1>3 DEF At, CaptureAllCleanup, MediaCleanup
<1> QED  BY <1>3, <1>4, <1>5, <1>6, <1>7, <1>8, <1>9 DEF Alone

(* The releases of the low-level media example.                            *)
LEMMA MediaLowReleases ==
  /\ MediaLowCleanup \in Seq(ReleaseGroup) /\ Len(MediaLowCleanup) = 5
  /\ Groups(MediaLowCleanup, 1, 3, "swallowed")
  /\ Gives(MediaLowCleanup, 1, 1, "encoded", "encoded")
  /\ Gives(MediaLowCleanup, 1, 2, "video", "video")
  /\ Gives(MediaLowCleanup, 1, 3, "audio", "audio")
  /\ Groups(MediaLowCleanup, 2, 1, "swallowed")
  /\ Gives(MediaLowCleanup, 2, 1, "bus", "media")
  /\ Groups(MediaLowCleanup, 3, 1, "swallowed")
  /\ Gives(MediaLowCleanup, 3, 1, "mode", "client")
  /\ Watches(MediaLowCleanup, 3, 1)
  /\ Groups(MediaLowCleanup, 4, 1, "ends")
  /\ Gives(MediaLowCleanup, 4, 1, "session", "client")
  /\ Groups(MediaLowCleanup, 5, 1, "swallowed")
  /\ Gives(MediaLowCleanup, 5, 1, "service", Always)
<1>1. /\ Len(MediaLowCleanup) = 5
      /\ At(MediaLowCleanup, 1, StopAll)
      /\ At(MediaLowCleanup, 2, Single("swallowed", "bus", "media"))
      /\ At(MediaLowCleanup, 3, SingleWatched("swallowed", "mode", "client"))
      /\ At(MediaLowCleanup, 4, Single("ends", "session", "client"))
      /\ At(MediaLowCleanup, 5, Single("swallowed", "service", Always))
  BY DEF MediaLowCleanup, Single, SingleWatched, At
<1>2. /\ Groups(MediaLowCleanup, 1, 3, "swallowed")
      /\ Gives(MediaLowCleanup, 1, 1, "encoded", "encoded")
      /\ Gives(MediaLowCleanup, 1, 2, "video", "video")
      /\ Gives(MediaLowCleanup, 1, 3, "audio", "audio")
  BY <1>1, StopAllIs
<1>3. Alone(MediaLowCleanup, 2, "swallowed", "bus", "media")
  BY <1>1, Pairs, OneRelease
<1>4. /\ Alone(MediaLowCleanup, 3, "swallowed", "mode", "client")
      /\ Watches(MediaLowCleanup, 3, 1)
  BY <1>1, Pairs, OneWatchedRelease
<1>5. Alone(MediaLowCleanup, 4, "ends", "session", "client")
  BY <1>1, Pairs, OneRelease
<1>6. Alone(MediaLowCleanup, 5, "swallowed", "service", Always)
  BY <1>1, Pairs, OneRelease
<1>7. MediaLowCleanup \in Seq(ReleaseGroup)
  <2>1. \A g \in 1 .. 5 : MediaLowCleanup[g] \in ReleaseGroup
    BY <1>2, <1>3, <1>4, <1>5, <1>6 DEF Groups, Alone
  <2> QED  BY <2>1, <1>1 DEF At, MediaLowCleanup
<1> QED  BY <1>1, <1>2, <1>3, <1>4, <1>5, <1>6, <1>7 DEF Alone

(* The releases of the low-level capture of all channels.                  *)
LEMMA CaptureAllLowReleases ==
  /\ CaptureAllLowCleanup \in Seq(ReleaseGroup) /\ Len(CaptureAllLowCleanup) = 6
  /\ Groups(CaptureAllLowCleanup, 1, 2, "passed")
  /\ Gives(CaptureAllLowCleanup, 1, 1, "audio", "audio")
  /\ Gives(CaptureAllLowCleanup, 1, 2, "video", "video")
  /\ Groups(CaptureAllLowCleanup, 2, 1, "passed")
  /\ Gives(CaptureAllLowCleanup, 2, 1, "bus", "capturing")
  /\ Groups(CaptureAllLowCleanup, 3, 1, "swallowed")
  /\ Gives(CaptureAllLowCleanup, 3, 1, "bus", "media")
  /\ Groups(CaptureAllLowCleanup, 4, 1, "swallowed")
  /\ Gives(CaptureAllLowCleanup, 4, 1, "mode", "client")
  /\ Watches(CaptureAllLowCleanup, 4, 1)
  /\ Groups(CaptureAllLowCleanup, 5, 1, "ends")
  /\ Gives(CaptureAllLowCleanup, 5, 1, "session", "client")
  /\ Groups(CaptureAllLowCleanup, 6, 1, "swallowed")
  /\ Gives(CaptureAllLowCleanup, 6, 1, "service", Always)
<1> DEFINE s == <<Item("audio", "audio"), Item("video", "video")>>
<1>1. /\ Piece(Item("audio", "audio"), "audio", "audio")
      /\ Piece(Item("video", "video"), "video", "video")
  BY ItemFits, Pairs
<1>2. /\ s \in Seq(Releasing) /\ Len(s) = 2 /\ s # <<>>
      /\ Piece(s[1], "audio", "audio")
      /\ Piece(s[2], "video", "video")
  BY <1>1 DEF Piece
<1>3. /\ Len(CaptureAllLowCleanup) = 6
      /\ At(CaptureAllLowCleanup, 1, Group("passed", s))
      /\ At(CaptureAllLowCleanup, 2, Single("passed", "bus", "capturing"))
      /\ At(CaptureAllLowCleanup, 3, Single("swallowed", "bus", "media"))
      /\ At(CaptureAllLowCleanup, 4, SingleWatched("swallowed", "mode", "client"))
      /\ At(CaptureAllLowCleanup, 5, Single("ends", "session", "client"))
      /\ At(CaptureAllLowCleanup, 6, Single("swallowed", "service", Always))
  BY DEF CaptureAllLowCleanup, CaptureAllCleanup, MediaLowCleanup, Single,
         SingleWatched, At
<1> HIDE DEF s
<1>4. /\ Groups(CaptureAllLowCleanup, 1, 2, "passed")
      /\ Gives(CaptureAllLowCleanup, 1, 1, "audio", "audio")
      /\ Gives(CaptureAllLowCleanup, 1, 2, "video", "video")
  <2>1. /\ Groups(CaptureAllLowCleanup, 1, 2, "passed")
        /\ CaptureAllLowCleanup[1].items = s
    <3>1. Several(CaptureAllLowCleanup, 1, "passed", s, 2)
      BY <1>2, <1>3 DEF Several
    <3> QED  BY <3>1, ManyReleases
  <2> QED  BY <2>1, <1>2, <1>3 DEF Gives, Piece, At
<1>5. Alone(CaptureAllLowCleanup, 2, "passed", "bus", "capturing")
  BY <1>3, Pairs, OneRelease
<1>6. Alone(CaptureAllLowCleanup, 3, "swallowed", "bus", "media")
  BY <1>3, Pairs, OneRelease
<1>7. /\ Alone(CaptureAllLowCleanup, 4, "swallowed", "mode", "client")
      /\ Watches(CaptureAllLowCleanup, 4, 1)
  BY <1>3, Pairs, OneWatchedRelease
<1>8. Alone(CaptureAllLowCleanup, 5, "ends", "session", "client")
  BY <1>3, Pairs, OneRelease
<1>9. Alone(CaptureAllLowCleanup, 6, "swallowed", "service", Always)
  BY <1>3, Pairs, OneRelease
<1>10. CaptureAllLowCleanup \in Seq(ReleaseGroup)
  <2>1. \A g \in 1 .. 6 : CaptureAllLowCleanup[g] \in ReleaseGroup
    BY <1>4, <1>5, <1>6, <1>7, <1>8, <1>9 DEF Groups, Alone
  <2> QED  BY <2>1, <1>3
              DEF At, CaptureAllLowCleanup, CaptureAllCleanup, MediaLowCleanup
<1> QED  BY <1>3, <1>4, <1>5, <1>6, <1>7, <1>8, <1>9, <1>10 DEF Alone

(* The releases of the four-channel audio capture.                         *)
LEMMA AudioCaptureReleases ==
  /\ AudioCaptureCleanup \in Seq(ReleaseGroup) /\ Len(AudioCaptureCleanup) = 5
  /\ Groups(AudioCaptureCleanup, 1, 1, "swallowed")
  /\ Gives(AudioCaptureCleanup, 1, 1, "audio2", "audio2")
  /\ Watches(AudioCaptureCleanup, 1, 1)
  /\ Groups(AudioCaptureCleanup, 2, 1, "swallowed")
  /\ Gives(AudioCaptureCleanup, 2, 1, "audio", "audio")
  /\ Watches(AudioCaptureCleanup, 2, 1)
  /\ Groups(AudioCaptureCleanup, 3, 1, "swallowed")
  /\ Gives(AudioCaptureCleanup, 3, 1, "bus", "media")
  /\ Watches(AudioCaptureCleanup, 3, 1)
  /\ Groups(AudioCaptureCleanup, 4, 1, "swallowed")
  /\ Gives(AudioCaptureCleanup, 4, 1, "session", "client")
  /\ Watches(AudioCaptureCleanup, 4, 1)
  /\ Groups(AudioCaptureCleanup, 5, 1, "swallowed")
  /\ Gives(AudioCaptureCleanup, 5, 1, "service", "initialized")
  /\ Watches(AudioCaptureCleanup, 5, 1)
<1>1. /\ Len(AudioCaptureCleanup) = 5
      /\ At(AudioCaptureCleanup, 1, SingleWatched("swallowed", "audio2", "audio2"))
      /\ At(AudioCaptureCleanup, 2, SingleWatched("swallowed", "audio", "audio"))
      /\ At(AudioCaptureCleanup, 3, SingleWatched("swallowed", "bus", "media"))
      /\ At(AudioCaptureCleanup, 4, SingleWatched("swallowed", "session", "client"))
      /\ At(AudioCaptureCleanup, 5, SingleWatched("swallowed", "service", "initialized"))
  BY DEF AudioCaptureCleanup, SingleWatched, At
<1>2. /\ Alone(AudioCaptureCleanup, 1, "swallowed", "audio2", "audio2")
      /\ Watches(AudioCaptureCleanup, 1, 1)
  BY <1>1, Pairs, OneWatchedRelease
<1>3. /\ Alone(AudioCaptureCleanup, 2, "swallowed", "audio", "audio")
      /\ Watches(AudioCaptureCleanup, 2, 1)
  BY <1>1, Pairs, OneWatchedRelease
<1>4. /\ Alone(AudioCaptureCleanup, 3, "swallowed", "bus", "media")
      /\ Watches(AudioCaptureCleanup, 3, 1)
  BY <1>1, Pairs, OneWatchedRelease
<1>5. /\ Alone(AudioCaptureCleanup, 4, "swallowed", "session", "client")
      /\ Watches(AudioCaptureCleanup, 4, 1)
  BY <1>1, Pairs, OneWatchedRelease
<1>6. /\ Alone(AudioCaptureCleanup, 5, "swallowed", "service", "initialized")
      /\ Watches(AudioCaptureCleanup, 5, 1)
  BY <1>1, Pairs, OneWatchedRelease
<1>7. AudioCaptureCleanup \in Seq(ReleaseGroup)
  <2>1. \A g \in 1 .. 5 : AudioCaptureCleanup[g] \in ReleaseGroup
    BY <1>2, <1>3, <1>4, <1>5, <1>6 DEF Groups, Alone
  <2> QED  BY <2>1, <1>1 DEF At, AudioCaptureCleanup
<1> QED  BY <1>1, <1>2, <1>3, <1>4, <1>5, <1>6, <1>7 DEF Alone

(* The releases of the raw-data playback.                                  *)
LEMMA RawBackReleases ==
  /\ RawBackCleanup \in Seq(ReleaseGroup) /\ Len(RawBackCleanup) = 1
  /\ Groups(RawBackCleanup, 1, 5, "ends")
  /\ Gives(RawBackCleanup, 1, 1, "playback", "playback")
  /\ Gives(RawBackCleanup, 1, 2, "audio", "audio")
  /\ Gives(RawBackCleanup, 1, 3, "bus", "media")
  /\ Gives(RawBackCleanup, 1, 4, "session", "client")
  /\ Gives(RawBackCleanup, 1, 5, "service", Always)
<1> DEFINE s == <<Item("playback", "playback"), Item("audio", "audio"),
                   Item("bus", "media"), Item("session", "client"), Item("service", Always)>>
<1>1. /\ Piece(Item("playback", "playback"), "playback", "playback")
      /\ Piece(Item("audio", "audio"), "audio", "audio")
      /\ Piece(Item("bus", "media"), "bus", "media")
      /\ Piece(Item("session", "client"), "session", "client")
      /\ Piece(Item("service", Always), "service", Always)
  BY ItemFits, Pairs
<1>2. /\ s \in Seq(Releasing) /\ Len(s) = 5 /\ s # <<>>
      /\ Piece(s[1], "playback", "playback")
      /\ Piece(s[2], "audio", "audio")
      /\ Piece(s[3], "bus", "media")
      /\ Piece(s[4], "session", "client")
      /\ Piece(s[5], "service", Always)
  BY <1>1 DEF Piece
<1>3. /\ Len(RawBackCleanup) = 1
      /\ At(RawBackCleanup, 1, Group("ends", s))
  BY DEF RawBackCleanup, At
<1> HIDE DEF s
<1>4. /\ Groups(RawBackCleanup, 1, 5, "ends")
      /\ Gives(RawBackCleanup, 1, 1, "playback", "playback")
      /\ Gives(RawBackCleanup, 1, 2, "audio", "audio")
      /\ Gives(RawBackCleanup, 1, 3, "bus", "media")
      /\ Gives(RawBackCleanup, 1, 4, "session", "client")
      /\ Gives(RawBackCleanup, 1, 5, "service", Always)
  <2>1. Groups(RawBackCleanup, 1, 5, "ends") /\ RawBackCleanup[1].items = s
    <3>1. Several(RawBackCleanup, 1, "ends", s, 5)
      BY <1>2, <1>3 DEF Several
    <3> QED  BY <3>1, ManyReleases
  <2> QED  BY <2>1, <1>2, <1>3 DEF Gives, Piece, At
<1>5. RawBackCleanup \in Seq(ReleaseGroup)
  <2>1. \A g \in 1 .. 1 : RawBackCleanup[g] \in ReleaseGroup
    BY <1>4 DEF Groups, Alone
  <2> QED  BY <2>1, <1>3 DEF At, RawBackCleanup
<1> QED  BY <1>3, <1>4, <1>5 DEF Alone

(* The releases of the shared-memory audio example.                        *)
LEMMA AudioShmReleases ==
  /\ AudioShmCleanup \in Seq(ReleaseGroup) /\ Len(AudioShmCleanup) = 1
  /\ Groups(AudioShmCleanup, 1, 5, "ends")
  /\ Gives(AudioShmCleanup, 1, 1, "audio", "audio")
  /\ Gives(AudioShmCleanup, 1, 2, "bus", "media")
  /\ Gives(AudioShmCleanup, 1, 3, "output", "output")
  /\ Gives(AudioShmCleanup, 1, 4, "session", "client")
  /\ Gives(AudioShmCleanup, 1, 5, "service", Always)
<1> DEFINE s == <<Item("audio", "audio"), Item("bus", "media"),
                   Item("output", "output"), Item("session", "client"), Item("service", Always)>>
<1>1. /\ Piece(Item("audio", "audio"), "audio", "audio")
      /\ Piece(Item("bus", "media"), "bus", "media")
      /\ Piece(Item("output", "output"), "output", "output")
      /\ Piece(Item("session", "client"), "session", "client")
      /\ Piece(Item("service", Always), "service", Always)
  BY ItemFits, Pairs
<1>2. /\ s \in Seq(Releasing) /\ Len(s) = 5 /\ s # <<>>
      /\ Piece(s[1], "audio", "audio")
      /\ Piece(s[2], "bus", "media")
      /\ Piece(s[3], "output", "output")
      /\ Piece(s[4], "session", "client")
      /\ Piece(s[5], "service", Always)
  BY <1>1 DEF Piece
<1>3. /\ Len(AudioShmCleanup) = 1
      /\ At(AudioShmCleanup, 1, Group("ends", s))
  BY DEF AudioShmCleanup, At
<1> HIDE DEF s
<1>4. /\ Groups(AudioShmCleanup, 1, 5, "ends")
      /\ Gives(AudioShmCleanup, 1, 1, "audio", "audio")
      /\ Gives(AudioShmCleanup, 1, 2, "bus", "media")
      /\ Gives(AudioShmCleanup, 1, 3, "output", "output")
      /\ Gives(AudioShmCleanup, 1, 4, "session", "client")
      /\ Gives(AudioShmCleanup, 1, 5, "service", Always)
  <2>1. Groups(AudioShmCleanup, 1, 5, "ends") /\ AudioShmCleanup[1].items = s
    <3>1. Several(AudioShmCleanup, 1, "ends", s, 5)
      BY <1>2, <1>3 DEF Several
    <3> QED  BY <3>1, ManyReleases
  <2> QED  BY <2>1, <1>2, <1>3 DEF Gives, Piece, At
<1>5. AudioShmCleanup \in Seq(ReleaseGroup)
  <2>1. \A g \in 1 .. 1 : AudioShmCleanup[g] \in ReleaseGroup
    BY <1>4 DEF Groups, Alone
  <2> QED  BY <2>1, <1>3 DEF At, AudioShmCleanup
<1> QED  BY <1>3, <1>4, <1>5 DEF Alone

(* The releases of the TRC observer.                                       *)
LEMMA TrcReleases ==
  /\ TrcCleanup \in Seq(ReleaseGroup) /\ Len(TrcCleanup) = 3
  /\ Groups(TrcCleanup, 1, 1, "passed")
  /\ Gives(TrcCleanup, 1, 1, "observation", "attempted")
  /\ Watches(TrcCleanup, 1, 1)
  /\ Groups(TrcCleanup, 2, 1, "passed") /\ Gives(TrcCleanup, 2, 1, "session", "client")
  /\ Groups(TrcCleanup, 3, 1, "passed") /\ Gives(TrcCleanup, 3, 1, "service", Always)
<1>1. /\ Len(TrcCleanup) = 3
      /\ At(TrcCleanup, 1, SingleWatched("passed", "observation", "attempted"))
      /\ At(TrcCleanup, 2, Single("passed", "session", "client"))
      /\ At(TrcCleanup, 3, Single("passed", "service", Always))
  BY DEF TrcCleanup, Single, SingleWatched, At
<1>2. /\ Alone(TrcCleanup, 1, "passed", "observation", "attempted")
      /\ Watches(TrcCleanup, 1, 1)
  BY <1>1, Pairs, OneWatchedRelease
<1>3. Alone(TrcCleanup, 2, "passed", "session", "client")
  BY <1>1, Pairs, OneRelease
<1>4. Alone(TrcCleanup, 3, "passed", "service", Always)
  BY <1>1, Pairs, OneRelease
<1>5. TrcCleanup \in Seq(ReleaseGroup)
  <2>1. \A g \in 1 .. 3 : TrcCleanup[g] \in ReleaseGroup
    BY <1>2, <1>3, <1>4 DEF Groups, Alone
  <2> QED  BY <2>1, <1>1 DEF At, TrcCleanup
<1> QED  BY <1>1, <1>2, <1>3, <1>4, <1>5 DEF Alone

(* The releases of the low-level template.                                 *)
LEMMA LowLevelReleases ==
  /\ LowLevelCleanup \in Seq(ReleaseGroup) /\ Len(LowLevelCleanup) = 2
  /\ Groups(LowLevelCleanup, 1, 1, "swallowed")
  /\ Gives(LowLevelCleanup, 1, 1, "session", Always)
  /\ Groups(LowLevelCleanup, 2, 1, "swallowed")
  /\ Gives(LowLevelCleanup, 2, 1, "service", Always)
<1>1. /\ Len(LowLevelCleanup) = 2
      /\ At(LowLevelCleanup, 1, Single("swallowed", "session", Always))
      /\ At(LowLevelCleanup, 2, Single("swallowed", "service", Always))
  BY DEF LowLevelCleanup, Single, At
<1>2. Alone(LowLevelCleanup, 1, "swallowed", "session", Always)
  BY <1>1, Pairs, OneRelease
<1>3. Alone(LowLevelCleanup, 2, "swallowed", "service", Always)
  BY <1>1, Pairs, OneRelease
<1>4. LowLevelCleanup \in Seq(ReleaseGroup)
  <2>1. \A g \in 1 .. 2 : LowLevelCleanup[g] \in ReleaseGroup
    BY <1>2, <1>3 DEF Groups, Alone
  <2> QED  BY <2>1, <1>1 DEF At, LowLevelCleanup
<1> QED  BY <1>1, <1>2, <1>3, <1>4 DEF Alone

(* The releases of the release script.                                     *)
LEMMA ReleaseReleases ==
  /\ ReleaseCleanup \in Seq(ReleaseGroup) /\ Len(ReleaseCleanup) = 1
  /\ Groups(ReleaseCleanup, 1, 2, "ends")
  /\ Gives(ReleaseCleanup, 1, 1, "session", Always)
  /\ Gives(ReleaseCleanup, 1, 2, "service", Always)
<1> DEFINE s == <<Item("session", Always), Item("service", Always)>>
<1>1. /\ Piece(Item("session", Always), "session", Always)
      /\ Piece(Item("service", Always), "service", Always)
  BY ItemFits, Pairs
<1>2. /\ s \in Seq(Releasing) /\ Len(s) = 2 /\ s # <<>>
      /\ Piece(s[1], "session", Always)
      /\ Piece(s[2], "service", Always)
  BY <1>1 DEF Piece
<1>3. /\ Len(ReleaseCleanup) = 1
      /\ At(ReleaseCleanup, 1, Group("ends", s))
  BY DEF ReleaseCleanup, At
<1> HIDE DEF s
<1>4. /\ Groups(ReleaseCleanup, 1, 2, "ends")
      /\ Gives(ReleaseCleanup, 1, 1, "session", Always)
      /\ Gives(ReleaseCleanup, 1, 2, "service", Always)
  <2>1. Groups(ReleaseCleanup, 1, 2, "ends") /\ ReleaseCleanup[1].items = s
    <3>1. Several(ReleaseCleanup, 1, "ends", s, 2)
      BY <1>2, <1>3 DEF Several
    <3> QED  BY <3>1, ManyReleases
  <2> QED  BY <2>1, <1>2, <1>3 DEF Gives, Piece, At
<1>5. ReleaseCleanup \in Seq(ReleaseGroup)
  <2>1. \A g \in 1 .. 1 : ReleaseCleanup[g] \in ReleaseGroup
    BY <1>4 DEF Groups, Alone
  <2> QED  BY <2>1, <1>3 DEF At, ReleaseCleanup
<1> QED  BY <1>3, <1>4, <1>5 DEF Alone

(* The releases of the policy console.                                     *)
LEMMA PolicyReleases ==
  /\ PolicyCleanup \in Seq(ReleaseGroup) /\ Len(PolicyCleanup) = 1
  /\ Groups(PolicyCleanup, 1, 7, "ends")
  /\ Gives(PolicyCleanup, 1, 1, "loop", "loop")
  /\ Gives(PolicyCleanup, 1, 2, "motors", Always)
  /\ Gives(PolicyCleanup, 1, 3, "session", Always)
  /\ Gives(PolicyCleanup, 1, 4, "service", Always)
  /\ Gives(PolicyCleanup, 1, 5, "input", "input")
  /\ Gives(PolicyCleanup, 1, 6, "outputBuffer", "outputBuffer")
  /\ Gives(PolicyCleanup, 1, 7, "stream", "stream")
<1> DEFINE s == <<Item("loop", "loop"), Item("motors", Always), Item("session", Always),
                   Item("service", Always)>> \o CloseEngine
<1>1. /\ Piece(Item("loop", "loop"), "loop", "loop")
      /\ Piece(Item("motors", Always), "motors", Always)
      /\ Piece(Item("session", Always), "session", Always)
      /\ Piece(Item("service", Always), "service", Always)
      /\ Piece(Item("input", "input"), "input", "input")
      /\ Piece(Item("outputBuffer", "outputBuffer"), "outputBuffer", "outputBuffer")
      /\ Piece(Item("stream", "stream"), "stream", "stream")
  BY ItemFits, Pairs
<1>2. /\ s \in Seq(Releasing) /\ Len(s) = 7 /\ s # <<>>
      /\ Piece(s[1], "loop", "loop")
      /\ Piece(s[2], "motors", Always)
      /\ Piece(s[3], "session", Always)
      /\ Piece(s[4], "service", Always)
      /\ Piece(s[5], "input", "input")
      /\ Piece(s[6], "outputBuffer", "outputBuffer")
      /\ Piece(s[7], "stream", "stream")
  BY <1>1 DEF Piece, CloseEngine
<1>3. /\ Len(PolicyCleanup) = 1
      /\ At(PolicyCleanup, 1, Group("ends", s))
  BY DEF PolicyCleanup, At
<1> HIDE DEF s
<1>4. /\ Groups(PolicyCleanup, 1, 7, "ends")
      /\ Gives(PolicyCleanup, 1, 1, "loop", "loop")
      /\ Gives(PolicyCleanup, 1, 2, "motors", Always)
      /\ Gives(PolicyCleanup, 1, 3, "session", Always)
      /\ Gives(PolicyCleanup, 1, 4, "service", Always)
      /\ Gives(PolicyCleanup, 1, 5, "input", "input")
      /\ Gives(PolicyCleanup, 1, 6, "outputBuffer", "outputBuffer")
      /\ Gives(PolicyCleanup, 1, 7, "stream", "stream")
  <2>1. Groups(PolicyCleanup, 1, 7, "ends") /\ PolicyCleanup[1].items = s
    <3>1. Several(PolicyCleanup, 1, "ends", s, 7)
      BY <1>2, <1>3 DEF Several
    <3> QED  BY <3>1, ManyReleases
  <2> QED  BY <2>1, <1>2, <1>3 DEF Gives, Piece, At
<1>5. PolicyCleanup \in Seq(ReleaseGroup)
  <2>1. \A g \in 1 .. 1 : PolicyCleanup[g] \in ReleaseGroup
    BY <1>4 DEF Groups, Alone
  <2> QED  BY <2>1, <1>3 DEF At, PolicyCleanup, CloseEngine
<1> QED  BY <1>3, <1>4, <1>5 DEF Alone

(* The releases of the inference engine.                                   *)
LEMMA EngineReleases ==
  /\ EngineCleanup \in Seq(ReleaseGroup) /\ Len(EngineCleanup) = 1
  /\ Groups(EngineCleanup, 1, 3, "ends")
  /\ Gives(EngineCleanup, 1, 1, "input", "input")
  /\ Gives(EngineCleanup, 1, 2, "outputBuffer", "outputBuffer")
  /\ Gives(EngineCleanup, 1, 3, "stream", "stream")
<1> DEFINE s == <<Item("input", "input"), Item("outputBuffer", "outputBuffer"),
                   Item("stream", "stream")>>
<1>1. /\ Piece(Item("input", "input"), "input", "input")
      /\ Piece(Item("outputBuffer", "outputBuffer"), "outputBuffer", "outputBuffer")
      /\ Piece(Item("stream", "stream"), "stream", "stream")
  BY ItemFits, Pairs
<1>2. /\ s \in Seq(Releasing) /\ Len(s) = 3 /\ s # <<>>
      /\ Piece(s[1], "input", "input")
      /\ Piece(s[2], "outputBuffer", "outputBuffer")
      /\ Piece(s[3], "stream", "stream")
  BY <1>1 DEF Piece
<1>3. /\ Len(EngineCleanup) = 1
      /\ At(EngineCleanup, 1, Group("ends", s))
  BY DEF EngineCleanup, CloseEngine, At
<1> HIDE DEF s
<1>4. /\ Groups(EngineCleanup, 1, 3, "ends")
      /\ Gives(EngineCleanup, 1, 1, "input", "input")
      /\ Gives(EngineCleanup, 1, 2, "outputBuffer", "outputBuffer")
      /\ Gives(EngineCleanup, 1, 3, "stream", "stream")
  <2>1. Groups(EngineCleanup, 1, 3, "ends") /\ EngineCleanup[1].items = s
    <3>1. Several(EngineCleanup, 1, "ends", s, 3)
      BY <1>2, <1>3 DEF Several
    <3> QED  BY <3>1, ManyReleases
  <2> QED  BY <2>1, <1>2, <1>3 DEF Gives, Piece, At
<1>5. EngineCleanup \in Seq(ReleaseGroup)
  <2>1. \A g \in 1 .. 1 : EngineCleanup[g] \in ReleaseGroup
    BY <1>4 DEF Groups, Alone
  <2> QED  BY <2>1, <1>3 DEF At, EngineCleanup, CloseEngine
<1> QED  BY <1>3, <1>4, <1>5 DEF Alone

(* The tables and options of the media examples.                           *)
LEMMA MediaTable ==
  /\ Table("media", MediaSetup, MediaCleanup, <<>>)
  /\ Flags("media", TRUE, FALSE, FALSE, FALSE)
<1> DEFINE P == Program(MediaSetup, MediaCleanup)
<1>1. Programs["media"] = [P EXCEPT !.handles = TRUE]
  BY DEF Programs
<1>2. Plain(P, MediaSetup, MediaCleanup)
  BY ProgramIs
<1> HIDE DEF P
<1>3. Table("media", MediaSetup, MediaCleanup, <<>>)
  BY <1>1, <1>2 DEF Plain, Table
<1>4. Flags("media", TRUE, FALSE, FALSE, FALSE)
  BY <1>1, <1>2 DEF Plain, Flags
<1> QED  BY <1>3, <1>4

(* The tables and options of the capture of all channels.                  *)
LEMMA CaptureAllTable ==
  /\ Table("captureAll", CaptureAllSetup, CaptureAllCleanup, <<>>)
  /\ Flags("captureAll", TRUE, FALSE, FALSE, TRUE)
<1> DEFINE P == Program(CaptureAllSetup, CaptureAllCleanup)
<1>1. Programs["captureAll"] = [P EXCEPT !.handles = TRUE, !.reviews = TRUE]
  BY DEF Programs
<1>2. Plain(P, CaptureAllSetup, CaptureAllCleanup)
  BY ProgramIs
<1> HIDE DEF P
<1>3. Table("captureAll", CaptureAllSetup, CaptureAllCleanup, <<>>)
  BY <1>1, <1>2 DEF Plain, Table
<1>4. Flags("captureAll", TRUE, FALSE, FALSE, TRUE)
  BY <1>1, <1>2 DEF Plain, Flags
<1> QED  BY <1>3, <1>4

(* The tables and options of the low-level media example.                  *)
LEMMA MediaLowTable ==
  /\ Table("mediaLow", MediaSetup, MediaLowCleanup, <<>>)
  /\ Flags("mediaLow", TRUE, FALSE, TRUE, FALSE)
<1> DEFINE P == Program(MediaSetup, MediaLowCleanup)
<1>1. Programs["mediaLow"] = [P EXCEPT !.handles = TRUE, !.restores = TRUE]
  BY DEF Programs, MediaLowSetup
<1>2. Plain(P, MediaSetup, MediaLowCleanup)
  BY ProgramIs
<1> HIDE DEF P
<1>3. Table("mediaLow", MediaSetup, MediaLowCleanup, <<>>)
  BY <1>1, <1>2 DEF Plain, Table
<1>4. Flags("mediaLow", TRUE, FALSE, TRUE, FALSE)
  BY <1>1, <1>2 DEF Plain, Flags
<1> QED  BY <1>3, <1>4

(* The tables and options of the low-level capture of all channels.        *)
LEMMA CaptureLowTable ==
  /\ Table("captureLow", CaptureAllSetup, CaptureAllLowCleanup, <<>>)
  /\ Flags("captureLow", TRUE, FALSE, TRUE, TRUE)
<1> DEFINE P == Program(CaptureAllSetup, CaptureAllLowCleanup)
<1>1. Programs["captureLow"] = [P EXCEPT !.handles = TRUE, !.restores = TRUE, !.reviews = TRUE]
  BY DEF Programs
<1>2. Plain(P, CaptureAllSetup, CaptureAllLowCleanup)
  BY ProgramIs
<1> HIDE DEF P
<1>3. Table("captureLow", CaptureAllSetup, CaptureAllLowCleanup, <<>>)
  BY <1>1, <1>2 DEF Plain, Table
<1>4. Flags("captureLow", TRUE, FALSE, TRUE, TRUE)
  BY <1>1, <1>2 DEF Plain, Flags
<1> QED  BY <1>3, <1>4

(* The tables and options of the four-channel audio capture.               *)
LEMMA AudioCaptureTable ==
  /\ Table("audioCapture", AudioCaptureSetup, AudioCaptureCleanup, <<>>)
  /\ Flags("audioCapture", FALSE, FALSE, FALSE, TRUE)
<1> DEFINE P == Program(AudioCaptureSetup, AudioCaptureCleanup)
<1>1. Programs["audioCapture"] = [P EXCEPT !.reviews = TRUE]
  BY DEF Programs
<1>2. Plain(P, AudioCaptureSetup, AudioCaptureCleanup)
  BY ProgramIs
<1> HIDE DEF P
<1>3. Table("audioCapture", AudioCaptureSetup, AudioCaptureCleanup, <<>>)
  BY <1>1, <1>2 DEF Plain, Table
<1>4. Flags("audioCapture", FALSE, FALSE, FALSE, TRUE)
  BY <1>1, <1>2 DEF Plain, Flags
<1> QED  BY <1>3, <1>4

(* The tables and options of the raw-data playback.                        *)
LEMMA RawBackTable ==
  /\ Table("rawBack", RawBackSetup, RawBackCleanup, <<>>)
  /\ Flags("rawBack", FALSE, TRUE, FALSE, FALSE)
<1> DEFINE P == Program(RawBackSetup, RawBackCleanup)
<1>1. Programs["rawBack"] = [P EXCEPT !.interruptOk = TRUE]
  BY DEF Programs
<1>2. Plain(P, RawBackSetup, RawBackCleanup)
  BY ProgramIs
<1> HIDE DEF P
<1>3. Table("rawBack", RawBackSetup, RawBackCleanup, <<>>)
  BY <1>1, <1>2 DEF Plain, Table
<1>4. Flags("rawBack", FALSE, TRUE, FALSE, FALSE)
  BY <1>1, <1>2 DEF Plain, Flags
<1> QED  BY <1>3, <1>4

(* The tables and options of the shared-memory audio example.              *)
LEMMA AudioShmTable ==
  /\ Table("audioShm", AudioShmSetup, AudioShmCleanup, <<>>)
  /\ Flags("audioShm", FALSE, FALSE, FALSE, FALSE)
<1> DEFINE P == Program(AudioShmSetup, AudioShmCleanup)
<1>1. Programs["audioShm"] = P
  BY DEF Programs
<1>2. Plain(P, AudioShmSetup, AudioShmCleanup)
  BY ProgramIs
<1> HIDE DEF P
<1>3. Table("audioShm", AudioShmSetup, AudioShmCleanup, <<>>)
  BY <1>1, <1>2 DEF Plain, Table
<1>4. Flags("audioShm", FALSE, FALSE, FALSE, FALSE)
  BY <1>1, <1>2 DEF Plain, Flags
<1> QED  BY <1>3, <1>4

(* The tables and options of the TRC observer.                             *)
LEMMA TrcTable ==
  /\ Table("trc", TrcSetup, TrcCleanup, <<>>)
  /\ Flags("trc", TRUE, FALSE, FALSE, TRUE)
<1> DEFINE P == Program(TrcSetup, TrcCleanup)
<1>1. Programs["trc"] = [P EXCEPT !.handles = TRUE, !.reviews = TRUE]
  BY DEF Programs
<1>2. Plain(P, TrcSetup, TrcCleanup)
  BY ProgramIs
<1> HIDE DEF P
<1>3. Table("trc", TrcSetup, TrcCleanup, <<>>)
  BY <1>1, <1>2 DEF Plain, Table
<1>4. Flags("trc", TRUE, FALSE, FALSE, TRUE)
  BY <1>1, <1>2 DEF Plain, Flags
<1> QED  BY <1>3, <1>4

(* The tables and options of the low-level template.                       *)
LEMMA LowLevelTable ==
  /\ Table("lowLevel", LowLevelSetup, LowLevelCleanup, <<>>)
  /\ Flags("lowLevel", TRUE, FALSE, FALSE, FALSE)
<1> DEFINE P == Program(LowLevelSetup, LowLevelCleanup)
<1>1. Programs["lowLevel"] = [P EXCEPT !.handles = TRUE]
  BY DEF Programs
<1>2. Plain(P, LowLevelSetup, LowLevelCleanup)
  BY ProgramIs
<1> HIDE DEF P
<1>3. Table("lowLevel", LowLevelSetup, LowLevelCleanup, <<>>)
  BY <1>1, <1>2 DEF Plain, Table
<1>4. Flags("lowLevel", TRUE, FALSE, FALSE, FALSE)
  BY <1>1, <1>2 DEF Plain, Flags
<1> QED  BY <1>3, <1>4

(* The tables and options of the release script.                           *)
LEMMA ReleaseTable ==
  /\ Table("release", ReleaseSetup, ReleaseCleanup, <<>>)
  /\ Flags("release", TRUE, FALSE, FALSE, FALSE)
<1> DEFINE P == Program(ReleaseSetup, ReleaseCleanup)
<1>1. Programs["release"] = [P EXCEPT !.handles = TRUE]
  BY DEF Programs
<1>2. Plain(P, ReleaseSetup, ReleaseCleanup)
  BY ProgramIs
<1> HIDE DEF P
<1>3. Table("release", ReleaseSetup, ReleaseCleanup, <<>>)
  BY <1>1, <1>2 DEF Plain, Table
<1>4. Flags("release", TRUE, FALSE, FALSE, FALSE)
  BY <1>1, <1>2 DEF Plain, Flags
<1> QED  BY <1>3, <1>4

(* The tables and options of the policy console.                           *)
LEMMA PolicyTable ==
  /\ Table("policy", PolicySetup, PolicyCleanup, EngineCleanup)
  /\ Flags("policy", FALSE, FALSE, FALSE, FALSE)
<1> DEFINE P == Program(PolicySetup, PolicyCleanup)
<1>1. Programs["policy"] = [P EXCEPT !.undo = EngineCleanup]
  BY DEF Programs, EngineCleanup
<1>2. Plain(P, PolicySetup, PolicyCleanup)
  BY ProgramIs
<1> HIDE DEF P
<1>3. Table("policy", PolicySetup, PolicyCleanup, EngineCleanup)
  BY <1>1, <1>2 DEF Plain, Table
<1>4. Flags("policy", FALSE, FALSE, FALSE, FALSE)
  BY <1>1, <1>2 DEF Plain, Flags
<1> QED  BY <1>3, <1>4

(* The tables and options of the engine validation.                        *)
LEMMA ValidateTable ==
  /\ Table("validate", ValidateSetup, EngineCleanup, EngineCleanup)
  /\ Flags("validate", FALSE, FALSE, FALSE, FALSE)
<1> DEFINE P == Program(ValidateSetup, EngineCleanup)
<1>1. Programs["validate"] = [P EXCEPT !.undo = EngineCleanup]
  BY DEF Programs, EngineCleanup
<1>2. Plain(P, ValidateSetup, EngineCleanup)
  BY ProgramIs
<1> HIDE DEF P
<1>3. Table("validate", ValidateSetup, EngineCleanup, EngineCleanup)
  BY <1>1, <1>2 DEF Plain, Table
<1>4. Flags("validate", FALSE, FALSE, FALSE, FALSE)
  BY <1>1, <1>2 DEF Plain, Flags
<1> QED  BY <1>3, <1>4

(* The cleanup of the media examples covers what the setup can open, the   *)
(* inner before the outer.                                                 *)
LEMMA MediaCleansUp ==
  ASSUME NEW n, \A r \in Resources : CanOpen("media", n, r) =>
                  r \in {"service", "session", "bus", "video", "encoded", "audio"}
  PROVE  ListShape("media", MediaCleanup) /\ GoodList("media", MediaCleanup, n)
<1>1. "media" \in Names
  BY DEF Names
<1>2. ListShape("media", MediaCleanup)
  BY MediaReleases DEF Alone, Groups, ListShape
\* What the program can open is released.
<1>3. /\ Takes(MediaCleanup, Always, "service")
      /\ Takes(MediaCleanup, "client", "session")
      /\ Takes(MediaCleanup, "media", "bus")
      /\ Takes(MediaCleanup, "media", "video")
      /\ Takes(MediaCleanup, "media", "encoded")
      /\ Takes(MediaCleanup, "media", "audio")
  <2>1. /\ Reached(MediaCleanup, 2, 1)
        /\ Reached(MediaCleanup, 3, 1)
        /\ Reached(MediaCleanup, 4, 1)
    BY MediaReleases DEF Alone, Reached, Groups
  <2> QED  BY <2>1, MediaReleases, TakenBy, Closing, Known DEF Alone, Streams, None
<1>4. ASSUME NEW r \in Resources, CanOpen("media", n, r)
      PROVE  Takes(MediaCleanup, Keeper("media", Host(r)), r)
  <2>1. r \in {"service", "session", "bus", "video", "encoded", "audio"}
    BY <1>4
  <2> QED  BY <2>1, <1>1, <1>3, KeeperTable, Hosts, Known DEF Streams
\* What lives in a resource is released before it.
<1>5. /\ Leads(MediaCleanup, "video", "video", 2, 1)
      /\ Leads(MediaCleanup, "encoded", "encoded", 2, 1)
      /\ Leads(MediaCleanup, "audio", "audio", 2, 1)
      /\ Leads(MediaCleanup, "bus", "media", 3, 1)
      /\ Leads(MediaCleanup, "session", "client", 4, 1)
  <2>1. /\ Sheltered(MediaCleanup, 1, 1)
        /\ Sheltered(MediaCleanup, 1, 2)
        /\ Sheltered(MediaCleanup, 1, 3)
        /\ Sheltered(MediaCleanup, 2, 1)
        /\ Sheltered(MediaCleanup, 3, 1)
    BY MediaReleases DEF Alone, Sheltered, Reached, Groups, Gives, Streams
  <2>2. /\ Before(1, 1, 2, 1)
        /\ Before(1, 2, 2, 1)
        /\ Before(1, 3, 2, 1)
        /\ Before(2, 1, 3, 1)
        /\ Before(3, 1, 4, 1)
    BY DEF Before
  <2> QED  BY <2>1, <2>2, MediaReleases, LedBy DEF Alone
<1>6. ASSUME NEW g \in 1 .. Len(MediaCleanup),
             NEW i \in 1 .. Len(MediaCleanup[g].items),
             NEW d \in Inner(MediaCleanup[g].items[i].res), CanOpen("media", n, d)
      PROVE  Leads(MediaCleanup, d, Keeper("media", d), g, i)
  <2>1. d \in {"service", "session", "bus", "video", "encoded", "audio"}
    BY <1>6 DEF Inner, Resources, Streams
  <2>2. \/ g = 1 /\ i \in 1 .. 3
        \/ g = 2 /\ i = 1
        \/ g = 3 /\ i = 1
        \/ g = 4 /\ i = 1
    BY MediaReleases DEF Alone, Groups
  <2>3. (g = 2 /\ i = 1) \/ (g = 3 /\ i = 1) \/ (g = 4 /\ i = 1)
    BY <1>6, <2>1, <2>2, MediaReleases, Nested DEF Alone, Gives, Streams
  <2>4. CASE g = 2 /\ i = 1
    <3>1. d \in {"video", "encoded", "audio"}
      BY <1>6, <2>1, <2>4, MediaReleases, Nested DEF Alone, Gives, Streams
    <3> QED  BY <2>4, <3>1, <1>1, <1>5, KeeperTable DEF Streams
  <2>5. CASE g = 3 /\ i = 1
    <3>1. d \in {"bus"}
      BY <1>6, <2>1, <2>5, MediaReleases, Nested DEF Alone, Gives, Streams
    <3> QED  BY <2>5, <3>1, <1>1, <1>5, KeeperTable DEF Streams
  <2>6. CASE g = 4 /\ i = 1
    <3>1. d \in {"session"}
      BY <1>6, <2>1, <2>6, MediaReleases, Nested DEF Alone, Gives, Streams
    <3> QED  BY <2>6, <3>1, <1>1, <1>5, KeeperTable DEF Streams
  <2> QED  BY <2>3, <2>4, <2>5, <2>6
<1> QED  BY <1>2, <1>4, <1>6 DEF GoodList, Takes, Leads, Precedes

(* The cleanup of the capture of all channels covers what the setup can    *)
(* open, the inner before the outer.                                       *)
LEMMA CaptureAllCleansUp ==
  ASSUME NEW n, \A r \in Resources : CanOpen("captureAll", n, r) =>
                  r \in {"service", "session", "bus", "video", "audio"}
  PROVE  /\ ListShape("captureAll", CaptureAllCleanup)
         /\ GoodList("captureAll", CaptureAllCleanup, n)
<1>1. "captureAll" \in Names
  BY DEF Names
<1>2. ListShape("captureAll", CaptureAllCleanup)
  BY CaptureAllReleases DEF Alone, Groups, ListShape
\* What the program can open is released.
<1>3. /\ Takes(CaptureAllCleanup, Always, "service")
      /\ Takes(CaptureAllCleanup, "client", "session")
      /\ Takes(CaptureAllCleanup, "media", "bus")
      /\ Takes(CaptureAllCleanup, "media", "video")
      /\ Takes(CaptureAllCleanup, "media", "audio")
  <2>1. /\ Reached(CaptureAllCleanup, 3, 1)
        /\ Reached(CaptureAllCleanup, 4, 1)
        /\ Reached(CaptureAllCleanup, 5, 1)
    BY CaptureAllReleases DEF Alone, Reached, Groups
  <2> QED  BY <2>1, CaptureAllReleases, TakenBy, Closing, Known
              DEF Alone, Streams, None
<1>4. ASSUME NEW r \in Resources, CanOpen("captureAll", n, r)
      PROVE  Takes(CaptureAllCleanup, Keeper("captureAll", Host(r)), r)
  <2>1. r \in {"service", "session", "bus", "video", "audio"}
    BY <1>4
  <2> QED  BY <2>1, <1>1, <1>3, KeeperTable, Hosts, Known DEF Streams
\* What lives in a resource is released before it.
<1>5. /\ Leads(CaptureAllCleanup, "video", "video", 2, 1)
      /\ Leads(CaptureAllCleanup, "audio", "audio", 2, 1)
      /\ Leads(CaptureAllCleanup, "video", "video", 3, 1)
      /\ Leads(CaptureAllCleanup, "audio", "audio", 3, 1)
      /\ Leads(CaptureAllCleanup, "bus", "media", 4, 1)
      /\ Leads(CaptureAllCleanup, "session", "client", 5, 1)
  <2>1. /\ Sheltered(CaptureAllCleanup, 1, 1)
        /\ Sheltered(CaptureAllCleanup, 1, 2)
        /\ Sheltered(CaptureAllCleanup, 3, 1)
        /\ Sheltered(CaptureAllCleanup, 4, 1)
    BY CaptureAllReleases DEF Alone, Sheltered, Reached, Groups, Gives, Streams
  <2>2. /\ Before(1, 1, 2, 1)
        /\ Before(1, 1, 3, 1)
        /\ Before(1, 2, 2, 1)
        /\ Before(1, 2, 3, 1)
        /\ Before(3, 1, 4, 1)
        /\ Before(4, 1, 5, 1)
    BY DEF Before
  <2> QED  BY <2>1, <2>2, CaptureAllReleases, LedBy DEF Alone
<1>6. ASSUME NEW g \in 1 .. Len(CaptureAllCleanup),
             NEW i \in 1 .. Len(CaptureAllCleanup[g].items),
             NEW d \in Inner(CaptureAllCleanup[g].items[i].res), CanOpen("captureAll", n, d)
      PROVE  Leads(CaptureAllCleanup, d, Keeper("captureAll", d), g, i)
  <2>1. d \in {"service", "session", "bus", "video", "audio"}
    BY <1>6 DEF Inner, Resources, Streams
  <2>2. \/ g = 1 /\ i \in 1 .. 2
        \/ g = 2 /\ i = 1
        \/ g = 3 /\ i = 1
        \/ g = 4 /\ i = 1
        \/ g = 5 /\ i = 1
    BY CaptureAllReleases DEF Alone, Groups
  <2>3. (g = 2 /\ i = 1) \/ (g = 3 /\ i = 1) \/ (g = 4 /\ i = 1) \/ (g = 5 /\ i = 1)
    BY <1>6, <2>1, <2>2, CaptureAllReleases, Nested DEF Alone, Gives, Streams
  <2>4. CASE g = 2 /\ i = 1
    <3>1. d \in {"video", "audio"}
      BY <1>6, <2>1, <2>4, CaptureAllReleases, Nested DEF Alone, Gives, Streams
    <3> QED  BY <2>4, <3>1, <1>1, <1>5, KeeperTable DEF Streams
  <2>5. CASE g = 3 /\ i = 1
    <3>1. d \in {"video", "audio"}
      BY <1>6, <2>1, <2>5, CaptureAllReleases, Nested DEF Alone, Gives, Streams
    <3> QED  BY <2>5, <3>1, <1>1, <1>5, KeeperTable DEF Streams
  <2>6. CASE g = 4 /\ i = 1
    <3>1. d \in {"bus"}
      BY <1>6, <2>1, <2>6, CaptureAllReleases, Nested DEF Alone, Gives, Streams
    <3> QED  BY <2>6, <3>1, <1>1, <1>5, KeeperTable DEF Streams
  <2>7. CASE g = 5 /\ i = 1
    <3>1. d \in {"session"}
      BY <1>6, <2>1, <2>7, CaptureAllReleases, Nested DEF Alone, Gives, Streams
    <3> QED  BY <2>7, <3>1, <1>1, <1>5, KeeperTable DEF Streams
  <2> QED  BY <2>3, <2>4, <2>5, <2>6, <2>7
<1> QED  BY <1>2, <1>4, <1>6 DEF GoodList, Takes, Leads, Precedes

(* The cleanup of the low-level media example covers what the setup can    *)
(* open, the inner before the outer.                                       *)
LEMMA MediaLowCleansUp ==
  ASSUME NEW n, \A r \in Resources : CanOpen("mediaLow", n, r) =>
                  r \in {"service", "session", "bus", "video", "encoded", "audio", "mode"}
  PROVE  /\ ListShape("mediaLow", MediaLowCleanup)
         /\ GoodList("mediaLow", MediaLowCleanup, n)
<1>1. "mediaLow" \in Names
  BY DEF Names
<1>2. ListShape("mediaLow", MediaLowCleanup)
  BY MediaLowReleases DEF Alone, Groups, ListShape, Shielded
\* What the program can open is released.
<1>3. /\ Takes(MediaLowCleanup, Always, "service")
      /\ Takes(MediaLowCleanup, "client", "session")
      /\ Takes(MediaLowCleanup, "media", "bus")
      /\ Takes(MediaLowCleanup, "media", "video")
      /\ Takes(MediaLowCleanup, "media", "encoded")
      /\ Takes(MediaLowCleanup, "media", "audio")
      /\ Takes(MediaLowCleanup, "client", "mode")
  <2>1. /\ Reached(MediaLowCleanup, 2, 1)
        /\ Reached(MediaLowCleanup, 3, 1)
        /\ Reached(MediaLowCleanup, 4, 1)
        /\ Reached(MediaLowCleanup, 5, 1)
    BY MediaLowReleases DEF Alone, Reached, Groups
  <2> QED  BY <2>1, MediaLowReleases, TakenBy, Closing, Known
              DEF Alone, Streams, None
<1>4. ASSUME NEW r \in Resources, CanOpen("mediaLow", n, r)
      PROVE  Takes(MediaLowCleanup, Keeper("mediaLow", Host(r)), r)
  <2>1. r \in {"service", "session", "bus", "video", "encoded", "audio", "mode"}
    BY <1>4
  <2> QED  BY <2>1, <1>1, <1>3, KeeperTable, Hosts, Known DEF Streams
\* What lives in a resource is released before it.
<1>5. /\ Leads(MediaLowCleanup, "video", "video", 2, 1)
      /\ Leads(MediaLowCleanup, "encoded", "encoded", 2, 1)
      /\ Leads(MediaLowCleanup, "audio", "audio", 2, 1)
      /\ Leads(MediaLowCleanup, "bus", "media", 4, 1)
      /\ Leads(MediaLowCleanup, "mode", "client", 4, 1)
      /\ Leads(MediaLowCleanup, "session", "client", 5, 1)
  <2>1. /\ Sheltered(MediaLowCleanup, 1, 1)
        /\ Sheltered(MediaLowCleanup, 1, 2)
        /\ Sheltered(MediaLowCleanup, 1, 3)
        /\ Sheltered(MediaLowCleanup, 2, 1)
        /\ Sheltered(MediaLowCleanup, 3, 1)
        /\ Sheltered(MediaLowCleanup, 4, 1)
    BY MediaLowReleases DEF Alone, Sheltered, Reached, Groups, Gives, Streams
  <2>2. /\ Before(1, 1, 2, 1)
        /\ Before(1, 2, 2, 1)
        /\ Before(1, 3, 2, 1)
        /\ Before(2, 1, 4, 1)
        /\ Before(3, 1, 4, 1)
        /\ Before(4, 1, 5, 1)
    BY DEF Before
  <2> QED  BY <2>1, <2>2, MediaLowReleases, LedBy DEF Alone
<1>6. ASSUME NEW g \in 1 .. Len(MediaLowCleanup),
             NEW i \in 1 .. Len(MediaLowCleanup[g].items),
             NEW d \in Inner(MediaLowCleanup[g].items[i].res), CanOpen("mediaLow", n, d)
      PROVE  Leads(MediaLowCleanup, d, Keeper("mediaLow", d), g, i)
  <2>1. d \in {"service", "session", "bus", "video", "encoded", "audio", "mode"}
    BY <1>6 DEF Inner, Resources, Streams
  <2>2. \/ g = 1 /\ i \in 1 .. 3
        \/ g = 2 /\ i = 1
        \/ g = 3 /\ i = 1
        \/ g = 4 /\ i = 1
        \/ g = 5 /\ i = 1
    BY MediaLowReleases DEF Alone, Groups
  <2>3. (g = 2 /\ i = 1) \/ (g = 4 /\ i = 1) \/ (g = 5 /\ i = 1)
    BY <1>6, <2>1, <2>2, MediaLowReleases, Nested DEF Alone, Gives, Streams
  <2>4. CASE g = 2 /\ i = 1
    <3>1. d \in {"video", "encoded", "audio"}
      BY <1>6, <2>1, <2>4, MediaLowReleases, Nested DEF Alone, Gives, Streams
    <3> QED  BY <2>4, <3>1, <1>1, <1>5, KeeperTable DEF Streams
  <2>5. CASE g = 4 /\ i = 1
    <3>1. d \in {"bus", "mode"}
      BY <1>6, <2>1, <2>5, MediaLowReleases, Nested DEF Alone, Gives, Streams
    <3> QED  BY <2>5, <3>1, <1>1, <1>5, KeeperTable DEF Streams
  <2>6. CASE g = 5 /\ i = 1
    <3>1. d \in {"session"}
      BY <1>6, <2>1, <2>6, MediaLowReleases, Nested DEF Alone, Gives, Streams
    <3> QED  BY <2>6, <3>1, <1>1, <1>5, KeeperTable DEF Streams
  <2> QED  BY <2>3, <2>4, <2>5, <2>6
<1> QED  BY <1>2, <1>4, <1>6 DEF GoodList, Takes, Leads, Precedes

(* The cleanup of the low-level capture of all channels covers what the    *)
(* setup can open, the inner before the outer.                             *)
LEMMA CaptureLowCleansUp ==
  ASSUME NEW n, \A r \in Resources : CanOpen("captureLow", n, r) =>
                  r \in {"service", "session", "bus", "video", "audio", "mode"}
  PROVE  /\ ListShape("captureLow", CaptureAllLowCleanup)
         /\ GoodList("captureLow", CaptureAllLowCleanup, n)
<1>1. "captureLow" \in Names
  BY DEF Names
<1>2. ListShape("captureLow", CaptureAllLowCleanup)
  BY CaptureAllLowReleases DEF Alone, Groups, ListShape, Shielded
\* What the program can open is released.
<1>3. /\ Takes(CaptureAllLowCleanup, Always, "service")
      /\ Takes(CaptureAllLowCleanup, "client", "session")
      /\ Takes(CaptureAllLowCleanup, "media", "bus")
      /\ Takes(CaptureAllLowCleanup, "media", "video")
      /\ Takes(CaptureAllLowCleanup, "media", "audio")
      /\ Takes(CaptureAllLowCleanup, "client", "mode")
  <2>1. /\ Reached(CaptureAllLowCleanup, 3, 1)
        /\ Reached(CaptureAllLowCleanup, 4, 1)
        /\ Reached(CaptureAllLowCleanup, 5, 1)
        /\ Reached(CaptureAllLowCleanup, 6, 1)
    BY CaptureAllLowReleases DEF Alone, Reached, Groups
  <2> QED  BY <2>1, CaptureAllLowReleases, TakenBy, Closing, Known
              DEF Alone, Streams, None
<1>4. ASSUME NEW r \in Resources, CanOpen("captureLow", n, r)
      PROVE  Takes(CaptureAllLowCleanup, Keeper("captureLow", Host(r)), r)
  <2>1. r \in {"service", "session", "bus", "video", "audio", "mode"}
    BY <1>4
  <2> QED  BY <2>1, <1>1, <1>3, KeeperTable, Hosts, Known DEF Streams
\* What lives in a resource is released before it.
<1>5. /\ Leads(CaptureAllLowCleanup, "video", "video", 2, 1)
      /\ Leads(CaptureAllLowCleanup, "audio", "audio", 2, 1)
      /\ Leads(CaptureAllLowCleanup, "video", "video", 3, 1)
      /\ Leads(CaptureAllLowCleanup, "audio", "audio", 3, 1)
      /\ Leads(CaptureAllLowCleanup, "bus", "media", 5, 1)
      /\ Leads(CaptureAllLowCleanup, "mode", "client", 5, 1)
      /\ Leads(CaptureAllLowCleanup, "session", "client", 6, 1)
  <2>1. /\ Sheltered(CaptureAllLowCleanup, 1, 1)
        /\ Sheltered(CaptureAllLowCleanup, 1, 2)
        /\ Sheltered(CaptureAllLowCleanup, 3, 1)
        /\ Sheltered(CaptureAllLowCleanup, 4, 1)
        /\ Sheltered(CaptureAllLowCleanup, 5, 1)
    BY CaptureAllLowReleases DEF Alone, Sheltered, Reached, Groups, Gives, Streams
  <2>2. /\ Before(1, 1, 2, 1)
        /\ Before(1, 1, 3, 1)
        /\ Before(1, 2, 2, 1)
        /\ Before(1, 2, 3, 1)
        /\ Before(3, 1, 5, 1)
        /\ Before(4, 1, 5, 1)
        /\ Before(5, 1, 6, 1)
    BY DEF Before
  <2> QED  BY <2>1, <2>2, CaptureAllLowReleases, LedBy DEF Alone
<1>6. ASSUME NEW g \in 1 .. Len(CaptureAllLowCleanup),
             NEW i \in 1 .. Len(CaptureAllLowCleanup[g].items),
             NEW d \in Inner(CaptureAllLowCleanup[g].items[i].res), CanOpen("captureLow", n, d)
      PROVE  Leads(CaptureAllLowCleanup, d, Keeper("captureLow", d), g, i)
  <2>1. d \in {"service", "session", "bus", "video", "audio", "mode"}
    BY <1>6 DEF Inner, Resources, Streams
  <2>2. \/ g = 1 /\ i \in 1 .. 2
        \/ g = 2 /\ i = 1
        \/ g = 3 /\ i = 1
        \/ g = 4 /\ i = 1
        \/ g = 5 /\ i = 1
        \/ g = 6 /\ i = 1
    BY CaptureAllLowReleases DEF Alone, Groups
  <2>3. (g = 2 /\ i = 1) \/ (g = 3 /\ i = 1) \/ (g = 5 /\ i = 1) \/ (g = 6 /\ i = 1)
    BY <1>6, <2>1, <2>2, CaptureAllLowReleases, Nested DEF Alone, Gives, Streams
  <2>4. CASE g = 2 /\ i = 1
    <3>1. d \in {"video", "audio"}
      BY <1>6, <2>1, <2>4, CaptureAllLowReleases, Nested DEF Alone, Gives, Streams
    <3> QED  BY <2>4, <3>1, <1>1, <1>5, KeeperTable DEF Streams
  <2>5. CASE g = 3 /\ i = 1
    <3>1. d \in {"video", "audio"}
      BY <1>6, <2>1, <2>5, CaptureAllLowReleases, Nested DEF Alone, Gives, Streams
    <3> QED  BY <2>5, <3>1, <1>1, <1>5, KeeperTable DEF Streams
  <2>6. CASE g = 5 /\ i = 1
    <3>1. d \in {"bus", "mode"}
      BY <1>6, <2>1, <2>6, CaptureAllLowReleases, Nested DEF Alone, Gives, Streams
    <3> QED  BY <2>6, <3>1, <1>1, <1>5, KeeperTable DEF Streams
  <2>7. CASE g = 6 /\ i = 1
    <3>1. d \in {"session"}
      BY <1>6, <2>1, <2>7, CaptureAllLowReleases, Nested DEF Alone, Gives, Streams
    <3> QED  BY <2>7, <3>1, <1>1, <1>5, KeeperTable DEF Streams
  <2> QED  BY <2>3, <2>4, <2>5, <2>6, <2>7
<1> QED  BY <1>2, <1>4, <1>6 DEF GoodList, Takes, Leads, Precedes

(* The cleanup of the four-channel audio capture covers what the setup can *)
(* open, the inner before the outer.                                       *)
LEMMA AudioCaptureCleansUp ==
  ASSUME NEW n, \A r \in Resources : CanOpen("audioCapture", n, r) =>
                  r \in {"service", "session", "bus", "audio", "audio2"}
  PROVE  /\ ListShape("audioCapture", AudioCaptureCleanup)
         /\ GoodList("audioCapture", AudioCaptureCleanup, n)
<1>1. "audioCapture" \in Names
  BY DEF Names
<1>2. ListShape("audioCapture", AudioCaptureCleanup)
  BY AudioCaptureReleases DEF Alone, Groups, ListShape
\* What the program can open is released.
<1>3. /\ Takes(AudioCaptureCleanup, "initialized", "service")
      /\ Takes(AudioCaptureCleanup, "client", "session")
      /\ Takes(AudioCaptureCleanup, "media", "bus")
      /\ Takes(AudioCaptureCleanup, "media", "audio")
      /\ Takes(AudioCaptureCleanup, "media", "audio2")
  <2>1. /\ Reached(AudioCaptureCleanup, 3, 1)
        /\ Reached(AudioCaptureCleanup, 4, 1)
        /\ Reached(AudioCaptureCleanup, 5, 1)
    BY AudioCaptureReleases DEF Alone, Reached, Groups
  <2> QED  BY <2>1, AudioCaptureReleases, TakenBy, Closing, Known
              DEF Alone, Streams, None
<1>4. ASSUME NEW r \in Resources, CanOpen("audioCapture", n, r)
      PROVE  Takes(AudioCaptureCleanup, Keeper("audioCapture", Host(r)), r)
  <2>1. r \in {"service", "session", "bus", "audio", "audio2"}
    BY <1>4
  <2> QED  BY <2>1, <1>1, <1>3, KeeperTable, Hosts, Known DEF Streams
\* What lives in a resource is released before it.
<1>5. /\ Leads(AudioCaptureCleanup, "audio", "audio", 3, 1)
      /\ Leads(AudioCaptureCleanup, "audio2", "audio2", 3, 1)
      /\ Leads(AudioCaptureCleanup, "bus", "media", 4, 1)
      /\ Leads(AudioCaptureCleanup, "session", "client", 5, 1)
  <2>1. /\ Sheltered(AudioCaptureCleanup, 1, 1)
        /\ Sheltered(AudioCaptureCleanup, 2, 1)
        /\ Sheltered(AudioCaptureCleanup, 3, 1)
        /\ Sheltered(AudioCaptureCleanup, 4, 1)
    BY AudioCaptureReleases DEF Alone, Sheltered, Reached, Groups, Gives, Streams
  <2>2. /\ Before(1, 1, 3, 1)
        /\ Before(2, 1, 3, 1)
        /\ Before(3, 1, 4, 1)
        /\ Before(4, 1, 5, 1)
    BY DEF Before
  <2> QED  BY <2>1, <2>2, AudioCaptureReleases, LedBy DEF Alone
<1>6. ASSUME NEW g \in 1 .. Len(AudioCaptureCleanup),
             NEW i \in 1 .. Len(AudioCaptureCleanup[g].items),
             NEW d \in Inner(AudioCaptureCleanup[g].items[i].res), CanOpen("audioCapture", n, d)
      PROVE  Leads(AudioCaptureCleanup, d, Keeper("audioCapture", d), g, i)
  <2>1. d \in {"service", "session", "bus", "audio", "audio2"}
    BY <1>6 DEF Inner, Resources, Streams
  <2>2. \/ g = 1 /\ i = 1
        \/ g = 2 /\ i = 1
        \/ g = 3 /\ i = 1
        \/ g = 4 /\ i = 1
        \/ g = 5 /\ i = 1
    BY AudioCaptureReleases DEF Alone, Groups
  <2>3. (g = 3 /\ i = 1) \/ (g = 4 /\ i = 1) \/ (g = 5 /\ i = 1)
    BY <1>6, <2>1, <2>2, AudioCaptureReleases, Nested DEF Alone, Gives, Streams
  <2>4. CASE g = 3 /\ i = 1
    <3>1. d \in {"audio", "audio2"}
      BY <1>6, <2>1, <2>4, AudioCaptureReleases, Nested DEF Alone, Gives, Streams
    <3> QED  BY <2>4, <3>1, <1>1, <1>5, KeeperTable DEF Streams
  <2>5. CASE g = 4 /\ i = 1
    <3>1. d \in {"bus"}
      BY <1>6, <2>1, <2>5, AudioCaptureReleases, Nested DEF Alone, Gives, Streams
    <3> QED  BY <2>5, <3>1, <1>1, <1>5, KeeperTable DEF Streams
  <2>6. CASE g = 5 /\ i = 1
    <3>1. d \in {"session"}
      BY <1>6, <2>1, <2>6, AudioCaptureReleases, Nested DEF Alone, Gives, Streams
    <3> QED  BY <2>6, <3>1, <1>1, <1>5, KeeperTable DEF Streams
  <2> QED  BY <2>3, <2>4, <2>5, <2>6
<1> QED  BY <1>2, <1>4, <1>6 DEF GoodList, Takes, Leads, Precedes

(* The cleanup of the raw-data playback covers what the setup can open,    *)
(* the inner before the outer.                                             *)
LEMMA RawBackCleansUp ==
  ASSUME NEW n, \A r \in Resources : CanOpen("rawBack", n, r) =>
                  r \in {"service", "session", "bus", "audio", "playback"}
  PROVE  ListShape("rawBack", RawBackCleanup) /\ GoodList("rawBack", RawBackCleanup, n)
<1>1. "rawBack" \in Names
  BY DEF Names
<1>2. ListShape("rawBack", RawBackCleanup)
  BY RawBackReleases DEF Alone, Groups, ListShape, Shielded
\* What the program can open is released.
<1>3. /\ Takes(RawBackCleanup, Always, "service")
      /\ Takes(RawBackCleanup, "client", "session")
      /\ Takes(RawBackCleanup, "media", "bus")
      /\ Takes(RawBackCleanup, "media", "audio")
      /\ Takes(RawBackCleanup, "playback", "playback")
  <2>1. /\ Reached(RawBackCleanup, 1, 1)
        /\ Reached(RawBackCleanup, 1, 3)
        /\ Reached(RawBackCleanup, 1, 4)
        /\ Reached(RawBackCleanup, 1, 5)
    BY RawBackReleases DEF Alone, Reached, Groups
  <2> QED  BY <2>1, RawBackReleases, TakenBy, Closing, Known
              DEF Alone, Streams, None
<1>4. ASSUME NEW r \in Resources, CanOpen("rawBack", n, r)
      PROVE  Takes(RawBackCleanup, Keeper("rawBack", Host(r)), r)
  <2>1. r \in {"service", "session", "bus", "audio", "playback"}
    BY <1>4
  <2> QED  BY <2>1, <1>1, <1>3, KeeperTable, Hosts, Known DEF Streams
\* What lives in a resource is released before it.
<1>5. /\ Leads(RawBackCleanup, "audio", "audio", 1, 3)
      /\ Leads(RawBackCleanup, "playback", "playback", 1, 3)
      /\ Leads(RawBackCleanup, "bus", "media", 1, 4)
      /\ Leads(RawBackCleanup, "session", "client", 1, 5)
  <2>1. /\ Sheltered(RawBackCleanup, 1, 1)
        /\ Sheltered(RawBackCleanup, 1, 2)
        /\ Sheltered(RawBackCleanup, 1, 3)
        /\ Sheltered(RawBackCleanup, 1, 4)
    BY RawBackReleases DEF Alone, Sheltered, Reached, Groups, Gives, Streams
  <2>2. /\ Before(1, 1, 1, 3)
        /\ Before(1, 2, 1, 3)
        /\ Before(1, 3, 1, 4)
        /\ Before(1, 4, 1, 5)
    BY DEF Before
  <2> QED  BY <2>1, <2>2, RawBackReleases, LedBy DEF Alone
<1>6. ASSUME NEW g \in 1 .. Len(RawBackCleanup),
             NEW i \in 1 .. Len(RawBackCleanup[g].items),
             NEW d \in Inner(RawBackCleanup[g].items[i].res), CanOpen("rawBack", n, d)
      PROVE  Leads(RawBackCleanup, d, Keeper("rawBack", d), g, i)
  <2>1. d \in {"service", "session", "bus", "audio", "playback"}
    BY <1>6 DEF Inner, Resources, Streams
  <2>2. \/ g = 1 /\ i \in 1 .. 5
    BY RawBackReleases DEF Alone, Groups
  <2>3. (g = 1 /\ i = 3) \/ (g = 1 /\ i = 4) \/ (g = 1 /\ i = 5)
    BY <1>6, <2>1, <2>2, RawBackReleases, Nested DEF Alone, Gives, Streams
  <2>4. CASE g = 1 /\ i = 3
    <3>1. d \in {"audio", "playback"}
      BY <1>6, <2>1, <2>4, RawBackReleases, Nested DEF Alone, Gives, Streams
    <3> QED  BY <2>4, <3>1, <1>1, <1>5, KeeperTable DEF Streams
  <2>5. CASE g = 1 /\ i = 4
    <3>1. d \in {"bus"}
      BY <1>6, <2>1, <2>5, RawBackReleases, Nested DEF Alone, Gives, Streams
    <3> QED  BY <2>5, <3>1, <1>1, <1>5, KeeperTable DEF Streams
  <2>6. CASE g = 1 /\ i = 5
    <3>1. d \in {"session"}
      BY <1>6, <2>1, <2>6, RawBackReleases, Nested DEF Alone, Gives, Streams
    <3> QED  BY <2>6, <3>1, <1>1, <1>5, KeeperTable DEF Streams
  <2> QED  BY <2>3, <2>4, <2>5, <2>6
<1> QED  BY <1>2, <1>4, <1>6 DEF GoodList, Takes, Leads, Precedes

(* The cleanup of the shared-memory audio example covers what the setup    *)
(* can open, the inner before the outer.                                   *)
LEMMA AudioShmCleansUp ==
  ASSUME NEW n, \A r \in Resources : CanOpen("audioShm", n, r) =>
                  r \in {"service", "session", "bus", "audio", "output"}
  PROVE  /\ ListShape("audioShm", AudioShmCleanup)
         /\ GoodList("audioShm", AudioShmCleanup, n)
<1>1. "audioShm" \in Names
  BY DEF Names
<1>2. ListShape("audioShm", AudioShmCleanup)
  BY AudioShmReleases DEF Alone, Groups, ListShape, Shielded
\* What the program can open is released.
<1>3. /\ Takes(AudioShmCleanup, Always, "service")
      /\ Takes(AudioShmCleanup, "client", "session")
      /\ Takes(AudioShmCleanup, "media", "bus")
      /\ Takes(AudioShmCleanup, "media", "audio")
      /\ Takes(AudioShmCleanup, "output", "output")
  <2>1. /\ Reached(AudioShmCleanup, 1, 2)
        /\ Reached(AudioShmCleanup, 1, 3)
        /\ Reached(AudioShmCleanup, 1, 4)
        /\ Reached(AudioShmCleanup, 1, 5)
    BY AudioShmReleases DEF Alone, Reached, Groups
  <2> QED  BY <2>1, AudioShmReleases, TakenBy, Closing, Known
              DEF Alone, Streams, None
<1>4. ASSUME NEW r \in Resources, CanOpen("audioShm", n, r)
      PROVE  Takes(AudioShmCleanup, Keeper("audioShm", Host(r)), r)
  <2>1. r \in {"service", "session", "bus", "audio", "output"}
    BY <1>4
  <2> QED  BY <2>1, <1>1, <1>3, KeeperTable, Hosts, Known DEF Streams
\* What lives in a resource is released before it.
<1>5. /\ Leads(AudioShmCleanup, "audio", "audio", 1, 2)
      /\ Leads(AudioShmCleanup, "bus", "media", 1, 4)
      /\ Leads(AudioShmCleanup, "session", "client", 1, 5)
  <2>1. /\ Sheltered(AudioShmCleanup, 1, 1)
        /\ Sheltered(AudioShmCleanup, 1, 2)
        /\ Sheltered(AudioShmCleanup, 1, 4)
    BY AudioShmReleases DEF Alone, Sheltered, Reached, Groups, Gives, Streams
  <2>2. /\ Before(1, 1, 1, 2)
        /\ Before(1, 2, 1, 4)
        /\ Before(1, 4, 1, 5)
    BY DEF Before
  <2> QED  BY <2>1, <2>2, AudioShmReleases, LedBy DEF Alone
<1>6. ASSUME NEW g \in 1 .. Len(AudioShmCleanup),
             NEW i \in 1 .. Len(AudioShmCleanup[g].items),
             NEW d \in Inner(AudioShmCleanup[g].items[i].res), CanOpen("audioShm", n, d)
      PROVE  Leads(AudioShmCleanup, d, Keeper("audioShm", d), g, i)
  <2>1. d \in {"service", "session", "bus", "audio", "output"}
    BY <1>6 DEF Inner, Resources, Streams
  <2>2. \/ g = 1 /\ i \in 1 .. 5
    BY AudioShmReleases DEF Alone, Groups
  <2>3. (g = 1 /\ i = 2) \/ (g = 1 /\ i = 4) \/ (g = 1 /\ i = 5)
    BY <1>6, <2>1, <2>2, AudioShmReleases, Nested DEF Alone, Gives, Streams
  <2>4. CASE g = 1 /\ i = 2
    <3>1. d \in {"audio"}
      BY <1>6, <2>1, <2>4, AudioShmReleases, Nested DEF Alone, Gives, Streams
    <3> QED  BY <2>4, <3>1, <1>1, <1>5, KeeperTable DEF Streams
  <2>5. CASE g = 1 /\ i = 4
    <3>1. d \in {"bus"}
      BY <1>6, <2>1, <2>5, AudioShmReleases, Nested DEF Alone, Gives, Streams
    <3> QED  BY <2>5, <3>1, <1>1, <1>5, KeeperTable DEF Streams
  <2>6. CASE g = 1 /\ i = 5
    <3>1. d \in {"session"}
      BY <1>6, <2>1, <2>6, AudioShmReleases, Nested DEF Alone, Gives, Streams
    <3> QED  BY <2>6, <3>1, <1>1, <1>5, KeeperTable DEF Streams
  <2> QED  BY <2>3, <2>4, <2>5, <2>6
<1> QED  BY <1>2, <1>4, <1>6 DEF GoodList, Takes, Leads, Precedes

(* The cleanup of the TRC observer covers what the setup can open, the     *)
(* inner before the outer.                                                 *)
LEMMA TrcCleansUp ==
  ASSUME NEW n, \A r \in Resources : CanOpen("trc", n, r) =>
                  r \in {"service", "session", "observation"}
  PROVE  ListShape("trc", TrcCleanup) /\ GoodList("trc", TrcCleanup, n)
<1>1. "trc" \in Names
  BY DEF Names
<1>2. ListShape("trc", TrcCleanup)
  BY TrcReleases DEF Alone, Groups, ListShape
\* What the program can open is released.
<1>3. /\ Takes(TrcCleanup, Always, "service")
      /\ Takes(TrcCleanup, "client", "session")
      /\ Takes(TrcCleanup, "attempted", "observation")
  <2>1. /\ Reached(TrcCleanup, 1, 1)
        /\ Reached(TrcCleanup, 2, 1)
        /\ Reached(TrcCleanup, 3, 1)
    BY TrcReleases DEF Alone, Reached, Groups
  <2> QED  BY <2>1, TrcReleases, TakenBy, Closing, Known DEF Alone, Streams, None
<1>4. ASSUME NEW r \in Resources, CanOpen("trc", n, r)
      PROVE  Takes(TrcCleanup, Keeper("trc", Host(r)), r)
  <2>1. r \in {"service", "session", "observation"}
    BY <1>4
  <2> QED  BY <2>1, <1>1, <1>3, KeeperTable, Hosts, Known DEF Streams
\* What lives in a resource is released before it.
<1>5. /\ Leads(TrcCleanup, "observation", "attempted", 2, 1)
      /\ Leads(TrcCleanup, "session", "client", 3, 1)
  <2>1. /\ Sheltered(TrcCleanup, 1, 1)
        /\ Sheltered(TrcCleanup, 2, 1)
    BY TrcReleases DEF Alone, Sheltered, Reached, Groups, Gives, Streams
  <2>2. /\ Before(1, 1, 2, 1)
        /\ Before(2, 1, 3, 1)
    BY DEF Before
  <2> QED  BY <2>1, <2>2, TrcReleases, LedBy DEF Alone
<1>6. ASSUME NEW g \in 1 .. Len(TrcCleanup),
             NEW i \in 1 .. Len(TrcCleanup[g].items),
             NEW d \in Inner(TrcCleanup[g].items[i].res), CanOpen("trc", n, d)
      PROVE  Leads(TrcCleanup, d, Keeper("trc", d), g, i)
  <2>1. d \in {"service", "session", "observation"}
    BY <1>6 DEF Inner, Resources, Streams
  <2>2. \/ g = 1 /\ i = 1
        \/ g = 2 /\ i = 1
        \/ g = 3 /\ i = 1
    BY TrcReleases DEF Alone, Groups
  <2>3. (g = 2 /\ i = 1) \/ (g = 3 /\ i = 1)
    BY <1>6, <2>1, <2>2, TrcReleases, Nested DEF Alone, Gives, Streams
  <2>4. CASE g = 2 /\ i = 1
    <3>1. d \in {"observation"}
      BY <1>6, <2>1, <2>4, TrcReleases, Nested DEF Alone, Gives, Streams
    <3> QED  BY <2>4, <3>1, <1>1, <1>5, KeeperTable DEF Streams
  <2>5. CASE g = 3 /\ i = 1
    <3>1. d \in {"session"}
      BY <1>6, <2>1, <2>5, TrcReleases, Nested DEF Alone, Gives, Streams
    <3> QED  BY <2>5, <3>1, <1>1, <1>5, KeeperTable DEF Streams
  <2> QED  BY <2>3, <2>4, <2>5
<1> QED  BY <1>2, <1>4, <1>6 DEF GoodList, Takes, Leads, Precedes

(* The cleanup of the low-level template covers what the setup can open,   *)
(* the inner before the outer.                                             *)
LEMMA LowLevelCleansUp ==
  ASSUME NEW n, \A r \in Resources : CanOpen("lowLevel", n, r) =>
                  r \in {"service", "session", "motors"}
  PROVE  /\ ListShape("lowLevel", LowLevelCleanup)
         /\ GoodList("lowLevel", LowLevelCleanup, n)
<1>1. "lowLevel" \in Names
  BY DEF Names
<1>2. ListShape("lowLevel", LowLevelCleanup)
  BY LowLevelReleases DEF Alone, Groups, ListShape
\* What the program can open is released.
<1>3. /\ Takes(LowLevelCleanup, Always, "service")
      /\ Takes(LowLevelCleanup, Always, "session")
      /\ Takes(LowLevelCleanup, Always, "motors")
  <2>1. /\ Reached(LowLevelCleanup, 1, 1)
        /\ Reached(LowLevelCleanup, 2, 1)
    BY LowLevelReleases DEF Alone, Reached, Groups
  <2> QED  BY <2>1, LowLevelReleases, TakenBy, Closing, Known
              DEF Alone, Streams, None
<1>4. ASSUME NEW r \in Resources, CanOpen("lowLevel", n, r)
      PROVE  Takes(LowLevelCleanup, Keeper("lowLevel", Host(r)), r)
  <2>1. r \in {"service", "session", "motors"}
    BY <1>4
  <2> QED  BY <2>1, <1>1, <1>3, KeeperTable, Hosts, Known DEF Streams
\* What lives in a resource is released before it.
<1>5. /\ Leads(LowLevelCleanup, "session", Always, 2, 1)
  <2>1. /\ Sheltered(LowLevelCleanup, 1, 1)
    BY LowLevelReleases DEF Alone, Sheltered, Reached, Groups, Gives, Streams
  <2>2. /\ Before(1, 1, 2, 1)
    BY DEF Before
  <2> QED  BY <2>1, <2>2, LowLevelReleases, LedBy DEF Alone
<1>6. ASSUME NEW g \in 1 .. Len(LowLevelCleanup),
             NEW i \in 1 .. Len(LowLevelCleanup[g].items),
             NEW d \in Inner(LowLevelCleanup[g].items[i].res), CanOpen("lowLevel", n, d)
      PROVE  Leads(LowLevelCleanup, d, Keeper("lowLevel", d), g, i)
  <2>1. d \in {"service", "session", "motors"}
    BY <1>6 DEF Inner, Resources, Streams
  <2>2. \/ g = 1 /\ i = 1
        \/ g = 2 /\ i = 1
    BY LowLevelReleases DEF Alone, Groups
  <2>3. (g = 2 /\ i = 1)
    BY <1>6, <2>1, <2>2, LowLevelReleases, Nested DEF Alone, Gives, Streams
  <2>4. CASE g = 2 /\ i = 1
    <3>1. d \in {"session"}
      BY <1>6, <2>1, <2>4, LowLevelReleases, Nested DEF Alone, Gives, Streams
    <3> QED  BY <2>4, <3>1, <1>1, <1>5, KeeperTable DEF Streams
  <2> QED  BY <2>3, <2>4
<1> QED  BY <1>2, <1>4, <1>6 DEF GoodList, Takes, Leads, Precedes

(* The cleanup of the release script covers what the setup can open, the   *)
(* inner before the outer.                                                 *)
LEMMA ReleaseCleansUp ==
  ASSUME NEW n, \A r \in Resources : CanOpen("release", n, r) =>
                  r \in {"service", "session"}
  PROVE  ListShape("release", ReleaseCleanup) /\ GoodList("release", ReleaseCleanup, n)
<1>1. "release" \in Names
  BY DEF Names
<1>2. ListShape("release", ReleaseCleanup)
  BY ReleaseReleases DEF Alone, Groups, ListShape, Shielded
\* What the program can open is released.
<1>3. /\ Takes(ReleaseCleanup, Always, "service")
      /\ Takes(ReleaseCleanup, Always, "session")
  <2>1. /\ Reached(ReleaseCleanup, 1, 1)
        /\ Reached(ReleaseCleanup, 1, 2)
    BY ReleaseReleases DEF Alone, Reached, Groups
  <2> QED  BY <2>1, ReleaseReleases, TakenBy, Closing, Known
              DEF Alone, Streams, None
<1>4. ASSUME NEW r \in Resources, CanOpen("release", n, r)
      PROVE  Takes(ReleaseCleanup, Keeper("release", Host(r)), r)
  <2>1. r \in {"service", "session"}
    BY <1>4
  <2> QED  BY <2>1, <1>1, <1>3, KeeperTable, Hosts, Known DEF Streams
\* What lives in a resource is released before it.
<1>5. /\ Leads(ReleaseCleanup, "session", Always, 1, 2)
  <2>1. /\ Sheltered(ReleaseCleanup, 1, 1)
    BY ReleaseReleases DEF Alone, Sheltered, Reached, Groups, Gives, Streams
  <2>2. /\ Before(1, 1, 1, 2)
    BY DEF Before
  <2> QED  BY <2>1, <2>2, ReleaseReleases, LedBy DEF Alone
<1>6. ASSUME NEW g \in 1 .. Len(ReleaseCleanup),
             NEW i \in 1 .. Len(ReleaseCleanup[g].items),
             NEW d \in Inner(ReleaseCleanup[g].items[i].res), CanOpen("release", n, d)
      PROVE  Leads(ReleaseCleanup, d, Keeper("release", d), g, i)
  <2>1. d \in {"service", "session"}
    BY <1>6 DEF Inner, Resources, Streams
  <2>2. \/ g = 1 /\ i \in 1 .. 2
    BY ReleaseReleases DEF Alone, Groups
  <2>3. (g = 1 /\ i = 2)
    BY <1>6, <2>1, <2>2, ReleaseReleases, Nested DEF Alone, Gives, Streams
  <2>4. CASE g = 1 /\ i = 2
    <3>1. d \in {"session"}
      BY <1>6, <2>1, <2>4, ReleaseReleases, Nested DEF Alone, Gives, Streams
    <3> QED  BY <2>4, <3>1, <1>1, <1>5, KeeperTable DEF Streams
  <2> QED  BY <2>3, <2>4
<1> QED  BY <1>2, <1>4, <1>6 DEF GoodList, Takes, Leads, Precedes

(* The cleanup of the policy console covers what the setup can open, the   *)
(* inner before the outer.                                                 *)
LEMMA PolicyCleansUp ==
  ASSUME NEW n, \A r \in Resources : CanOpen("policy", n, r) =>
                  r \in {"service", "session", "motors", "loop", "stream", "input", "outputBuffer"}
  PROVE  ListShape("policy", PolicyCleanup) /\ GoodList("policy", PolicyCleanup, n)
<1>1. "policy" \in Names
  BY DEF Names
<1>2. ListShape("policy", PolicyCleanup)
  BY PolicyReleases DEF Alone, Groups, ListShape, Shielded
\* What the program can open is released.
<1>3. /\ Takes(PolicyCleanup, Always, "service")
      /\ Takes(PolicyCleanup, Always, "session")
      /\ Takes(PolicyCleanup, Always, "motors")
      /\ Takes(PolicyCleanup, "loop", "loop")
      /\ Takes(PolicyCleanup, "stream", "stream")
      /\ Takes(PolicyCleanup, "input", "input")
      /\ Takes(PolicyCleanup, "outputBuffer", "outputBuffer")
  <2>1. /\ Reached(PolicyCleanup, 1, 1)
        /\ Reached(PolicyCleanup, 1, 2)
        /\ Reached(PolicyCleanup, 1, 3)
        /\ Reached(PolicyCleanup, 1, 4)
        /\ Reached(PolicyCleanup, 1, 5)
        /\ Reached(PolicyCleanup, 1, 6)
        /\ Reached(PolicyCleanup, 1, 7)
    BY PolicyReleases DEF Alone, Reached, Groups
  <2> QED  BY <2>1, PolicyReleases, TakenBy, Closing, Known DEF Alone, Streams, None
<1>4. ASSUME NEW r \in Resources, CanOpen("policy", n, r)
      PROVE  Takes(PolicyCleanup, Keeper("policy", Host(r)), r)
  <2>1. r \in {"service", "session", "motors", "loop", "stream", "input", "outputBuffer"}
    BY <1>4
  <2> QED  BY <2>1, <1>1, <1>3, KeeperTable, Hosts, Known DEF Streams
\* What lives in a resource is released before it.
<1>5. /\ Leads(PolicyCleanup, "loop", "loop", 1, 3)
      /\ Leads(PolicyCleanup, "session", Always, 1, 4)
      /\ Leads(PolicyCleanup, "loop", "loop", 1, 5)
      /\ Leads(PolicyCleanup, "loop", "loop", 1, 6)
      /\ Leads(PolicyCleanup, "loop", "loop", 1, 7)
  <2>1. /\ Sheltered(PolicyCleanup, 1, 1)
        /\ Sheltered(PolicyCleanup, 1, 3)
    BY PolicyReleases DEF Alone, Sheltered, Reached, Groups, Gives, Streams
  <2>2. /\ Before(1, 1, 1, 3)
        /\ Before(1, 1, 1, 5)
        /\ Before(1, 1, 1, 6)
        /\ Before(1, 1, 1, 7)
        /\ Before(1, 3, 1, 4)
    BY DEF Before
  <2> QED  BY <2>1, <2>2, PolicyReleases, LedBy DEF Alone
<1>6. ASSUME NEW g \in 1 .. Len(PolicyCleanup),
             NEW i \in 1 .. Len(PolicyCleanup[g].items),
             NEW d \in Inner(PolicyCleanup[g].items[i].res), CanOpen("policy", n, d)
      PROVE  Leads(PolicyCleanup, d, Keeper("policy", d), g, i)
  <2>1. d \in {"service", "session", "motors", "loop", "stream", "input", "outputBuffer"}
    BY <1>6 DEF Inner, Resources, Streams
  <2>2. \/ g = 1 /\ i \in 1 .. 7
    BY PolicyReleases DEF Alone, Groups
  <2>3. \/ (g = 1 /\ i = 3)
        \/ (g = 1 /\ i = 4)
        \/ (g = 1 /\ i = 5)
        \/ (g = 1 /\ i = 6)
        \/ (g = 1 /\ i = 7)
    BY <1>6, <2>1, <2>2, PolicyReleases, Nested DEF Alone, Gives, Streams
  <2>4. CASE g = 1 /\ i = 3
    <3>1. d \in {"loop"}
      BY <1>6, <2>1, <2>4, PolicyReleases, Nested DEF Alone, Gives, Streams
    <3> QED  BY <2>4, <3>1, <1>1, <1>5, KeeperTable DEF Streams
  <2>5. CASE g = 1 /\ i = 4
    <3>1. d \in {"session"}
      BY <1>6, <2>1, <2>5, PolicyReleases, Nested DEF Alone, Gives, Streams
    <3> QED  BY <2>5, <3>1, <1>1, <1>5, KeeperTable DEF Streams
  <2>6. CASE g = 1 /\ i = 5
    <3>1. d \in {"loop"}
      BY <1>6, <2>1, <2>6, PolicyReleases, Nested DEF Alone, Gives, Streams
    <3> QED  BY <2>6, <3>1, <1>1, <1>5, KeeperTable DEF Streams
  <2>7. CASE g = 1 /\ i = 6
    <3>1. d \in {"loop"}
      BY <1>6, <2>1, <2>7, PolicyReleases, Nested DEF Alone, Gives, Streams
    <3> QED  BY <2>7, <3>1, <1>1, <1>5, KeeperTable DEF Streams
  <2>8. CASE g = 1 /\ i = 7
    <3>1. d \in {"loop"}
      BY <1>6, <2>1, <2>8, PolicyReleases, Nested DEF Alone, Gives, Streams
    <3> QED  BY <2>8, <3>1, <1>1, <1>5, KeeperTable DEF Streams
  <2> QED  BY <2>3, <2>4, <2>5, <2>6, <2>7, <2>8
<1> QED  BY <1>2, <1>4, <1>6 DEF GoodList, Takes, Leads, Precedes

(* The cleanup of the engine validation covers what the setup can open,    *)
(* the inner before the outer.                                             *)
LEMMA ValidateCleansUp ==
  ASSUME NEW n, \A r \in Resources : CanOpen("validate", n, r) =>
                  r \in {"stream", "input", "outputBuffer"}
  PROVE  ListShape("validate", EngineCleanup) /\ GoodList("validate", EngineCleanup, n)
<1>1. "validate" \in Names
  BY DEF Names
<1>2. ListShape("validate", EngineCleanup)
  BY EngineReleases DEF Alone, Groups, ListShape, Shielded
\* What the program can open is released.
<1>3. /\ Takes(EngineCleanup, "stream", "stream")
      /\ Takes(EngineCleanup, "input", "input")
      /\ Takes(EngineCleanup, "outputBuffer", "outputBuffer")
  <2>1. /\ Reached(EngineCleanup, 1, 1)
        /\ Reached(EngineCleanup, 1, 2)
        /\ Reached(EngineCleanup, 1, 3)
    BY EngineReleases DEF Alone, Reached, Groups
  <2> QED  BY <2>1, EngineReleases, TakenBy, Closing, Known DEF Alone, Streams, None
<1>4. ASSUME NEW r \in Resources, CanOpen("validate", n, r)
      PROVE  Takes(EngineCleanup, Keeper("validate", Host(r)), r)
  <2>1. r \in {"stream", "input", "outputBuffer"}
    BY <1>4
  <2> QED  BY <2>1, <1>1, <1>3, KeeperTable, Hosts, Known DEF Streams
\* What lives in a resource is released before it.
<1>5. ASSUME NEW g \in 1 .. Len(EngineCleanup),
             NEW i \in 1 .. Len(EngineCleanup[g].items),
             NEW d \in Inner(EngineCleanup[g].items[i].res), CanOpen("validate", n, d)
      PROVE  Leads(EngineCleanup, d, Keeper("validate", d), g, i)
  <2>1. d \in {"stream", "input", "outputBuffer"}
    BY <1>5 DEF Inner, Resources, Streams
  <2>2. \/ g = 1 /\ i \in 1 .. 3
    BY EngineReleases DEF Alone, Groups
  <2>3. FALSE
    BY <1>5, <2>1, <2>2, EngineReleases, Nested DEF Alone, Gives, Streams
  <2> QED  BY <2>3
<1> QED  BY <1>2, <1>4, <1>5 DEF GoodList, Takes, Leads, Precedes

(* Before its try the policy console gives back what its engine holds, the *)
(* buffers, in one group: nothing else can be open then.                   *)
LEMMA PolicyUndoes ==
  ASSUME NEW n, \A r \in Resources : CanOpen("policy", n, r) =>
                  r \in {"stream", "input", "outputBuffer"}
  PROVE  ListShape("policy", EngineCleanup) /\ GoodList("policy", EngineCleanup, n)
<1>1. "policy" \in Names
  BY DEF Names
<1>2. ListShape("policy", EngineCleanup)
  BY EngineReleases DEF Alone, Groups, ListShape, Shielded
\* What the program can open is released.
<1>3. /\ Takes(EngineCleanup, "stream", "stream")
      /\ Takes(EngineCleanup, "input", "input")
      /\ Takes(EngineCleanup, "outputBuffer", "outputBuffer")
  <2>1. /\ Reached(EngineCleanup, 1, 1)
        /\ Reached(EngineCleanup, 1, 2)
        /\ Reached(EngineCleanup, 1, 3)
    BY EngineReleases DEF Alone, Reached, Groups
  <2> QED  BY <2>1, EngineReleases, TakenBy, Closing, Known DEF Alone, Streams, None
<1>4. ASSUME NEW r \in Resources, CanOpen("policy", n, r)
      PROVE  Takes(EngineCleanup, Keeper("policy", Host(r)), r)
  <2>1. r \in {"stream", "input", "outputBuffer"}
    BY <1>4
  <2> QED  BY <2>1, <1>1, <1>3, KeeperTable, Hosts, Known DEF Streams
\* What lives in a resource is released before it.
<1>5. ASSUME NEW g \in 1 .. Len(EngineCleanup),
             NEW i \in 1 .. Len(EngineCleanup[g].items),
             NEW d \in Inner(EngineCleanup[g].items[i].res), CanOpen("policy", n, d)
      PROVE  Leads(EngineCleanup, d, Keeper("policy", d), g, i)
  <2>1. d \in {"stream", "input", "outputBuffer"}
    BY <1>5 DEF Inner, Resources, Streams
  <2>2. \/ g = 1 /\ i \in 1 .. 3
    BY EngineReleases DEF Alone, Groups
  <2>3. FALSE
    BY <1>5, <2>1, <2>2, EngineReleases, Nested DEF Alone, Gives, Streams
  <2> QED  BY <2>3
<1> QED  BY <1>2, <1>4, <1>5 DEF GoodList, Takes, Leads, Precedes

(* The media examples is well made.                                        *)
LEMMA MediaIsWellMade == WellMade("media")
<1>1. /\ Setup("media") = MediaSetup /\ Len(MediaSetup) = 12
      /\ Programs["media"].cleanup = MediaCleanup /\ Programs["media"].undo = <<>>
  BY MediaTable, MediaSteps DEF Table, Setup
<1>2. /\ GoodSetup("media")
      /\ \A r \in Resources : CanOpen("media", 12, r) =>
             r \in {"service", "session", "bus", "video", "encoded", "audio"}
  BY <1>1, MediaTable, MediaSetupGood DEF Flags
<1>3. ListShape("media", MediaCleanup) /\ GoodList("media", MediaCleanup, 12)
  BY <1>2, MediaCleansUp
<1>4. ListShape("media", <<>>)
  BY DEF ListShape
<1>5. \A i \in 1 .. 12 : ~Undoes(MediaSetup[i])
  BY MediaSteps DEF Undoes, Is, Acts
<1>6. GoodVouch("media") /\ GoodHandOver("media")
  BY DEF GoodVouch, Vouched, GoodHandOver
<1>7. Programs["media"].reviews \in BOOLEAN /\ Programs["media"].interruptOk \in BOOLEAN
  BY MediaTable DEF Flags
<1> QED  BY <1>1, <1>2, <1>3, <1>4, <1>5, <1>6, <1>7 DEF WellMade

(* The capture of all channels is well made.                               *)
LEMMA CaptureAllIsWellMade == WellMade("captureAll")
<1>1. /\ Setup("captureAll") = CaptureAllSetup /\ Len(CaptureAllSetup) = 12
      /\ Programs["captureAll"].cleanup = CaptureAllCleanup
      /\ Programs["captureAll"].undo = <<>>
  BY CaptureAllTable, CaptureAllSteps DEF Table, Setup
<1>2. /\ GoodSetup("captureAll")
      /\ \A r \in Resources : CanOpen("captureAll", 12, r) =>
             r \in {"service", "session", "bus", "video", "audio"}
  BY <1>1, CaptureAllTable, CaptureAllSetupGood DEF Flags
<1>3. /\ ListShape("captureAll", CaptureAllCleanup)
      /\ GoodList("captureAll", CaptureAllCleanup, 12)
  BY <1>2, CaptureAllCleansUp
<1>4. ListShape("captureAll", <<>>)
  BY DEF ListShape
<1>5. \A i \in 1 .. 12 : ~Undoes(CaptureAllSetup[i])
  BY CaptureAllSteps DEF Undoes, Is, Acts
<1>6. GoodVouch("captureAll") /\ GoodHandOver("captureAll")
  BY DEF GoodVouch, Vouched, GoodHandOver
<1>7. /\ Programs["captureAll"].reviews \in BOOLEAN
      /\ Programs["captureAll"].interruptOk \in BOOLEAN
  BY CaptureAllTable DEF Flags
<1> QED  BY <1>1, <1>2, <1>3, <1>4, <1>5, <1>6, <1>7 DEF WellMade

(* The low-level media example is well made.                               *)
LEMMA MediaLowIsWellMade == WellMade("mediaLow")
<1>1. /\ Setup("mediaLow") = MediaSetup /\ Len(MediaSetup) = 12
      /\ Programs["mediaLow"].cleanup = MediaLowCleanup
      /\ Programs["mediaLow"].undo = <<>>
  BY MediaLowTable, MediaSteps DEF Table, Setup
<1>2. /\ GoodSetup("mediaLow")
      /\ \A r \in Resources : CanOpen("mediaLow", 12, r) =>
             r \in {"service", "session", "bus", "video", "encoded", "audio", "mode"}
  BY <1>1, MediaLowTable, MediaSetupGood DEF Flags
<1>3. /\ ListShape("mediaLow", MediaLowCleanup)
      /\ GoodList("mediaLow", MediaLowCleanup, 12)
  BY <1>2, MediaLowCleansUp
<1>4. ListShape("mediaLow", <<>>)
  BY DEF ListShape
<1>5. \A i \in 1 .. 12 : ~Undoes(MediaSetup[i])
  BY MediaSteps DEF Undoes, Is, Acts
<1>6. GoodVouch("mediaLow")
  <2>1. Vouched("mediaLow") = {"mode"}
    BY DEF Vouched
  <2>2. \A i \in 1 .. 12 : MediaSetup[i].refused \in {"tolerated", "marked", "ignored"} =>
          Closed(MediaSetup[i].closes) \cap Resources = {}
    BY MediaSteps, Closing DEF Is, Acts, None, Resources, Streams
  <2>3. \A g \in 1 .. Len(MediaLowCleanup) : \A i \in 1 .. Len(MediaLowCleanup[g].items) :
          Closed(MediaLowCleanup[g].items[i].res) \cap Vouched("mediaLow") # {} =>
              MediaLowCleanup[g].items[i].watched
    BY <2>1, MediaLowReleases, Closing, Known
       DEF Alone, Groups, Gives, Watches, Streams
  <2>4. Vouched("mediaLow") \subseteq Resources
    BY <2>1, Known
  <2>5. \A i \in 1 .. Len(Setup("mediaLow")) :
          Setup("mediaLow")[i].refused \in {"tolerated", "marked", "ignored"} =>
            Closed(Setup("mediaLow")[i].closes) \cap Vouched("mediaLow") = {}
    BY <1>1, <2>2, <2>4
  <2>6. \A list \in {Programs["mediaLow"].cleanup, Programs["mediaLow"].undo} :
          \A g \in 1 .. Len(list) : \A i \in 1 .. Len(list[g].items) :
            Closed(list[g].items[i].res) \cap Vouched("mediaLow") # {} =>
                list[g].items[i].watched
    BY <1>1, <2>3
  <2>7. ~Programs["mediaLow"].interruptOk
    BY MediaLowTable DEF Flags
  <2> QED  BY <2>5, <2>6, <2>7 DEF GoodVouch
<1>7. GoodHandOver("mediaLow")
  BY DEF GoodHandOver
<1>8. /\ Programs["mediaLow"].reviews \in BOOLEAN
      /\ Programs["mediaLow"].interruptOk \in BOOLEAN
  BY MediaLowTable DEF Flags
<1> QED  BY <1>1, <1>2, <1>3, <1>4, <1>5, <1>6, <1>7, <1>8 DEF WellMade

(* The low-level capture of all channels is well made.                     *)
LEMMA CaptureLowIsWellMade == WellMade("captureLow")
<1>1. /\ Setup("captureLow") = CaptureAllSetup /\ Len(CaptureAllSetup) = 12
      /\ Programs["captureLow"].cleanup = CaptureAllLowCleanup
      /\ Programs["captureLow"].undo = <<>>
  BY CaptureLowTable, CaptureAllSteps DEF Table, Setup
<1>2. /\ GoodSetup("captureLow")
      /\ \A r \in Resources : CanOpen("captureLow", 12, r) =>
             r \in {"service", "session", "bus", "video", "audio", "mode"}
  BY <1>1, CaptureLowTable, CaptureAllSetupGood DEF Flags
<1>3. /\ ListShape("captureLow", CaptureAllLowCleanup)
      /\ GoodList("captureLow", CaptureAllLowCleanup, 12)
  BY <1>2, CaptureLowCleansUp
<1>4. ListShape("captureLow", <<>>)
  BY DEF ListShape
<1>5. \A i \in 1 .. 12 : ~Undoes(CaptureAllSetup[i])
  BY CaptureAllSteps DEF Undoes, Is, Acts
<1>6. GoodVouch("captureLow")
  <2>1. Vouched("captureLow") = {"mode"}
    BY DEF Vouched
  <2>2. \A i \in 1 .. 12 :
          CaptureAllSetup[i].refused \in {"tolerated", "marked", "ignored"} =>
          Closed(CaptureAllSetup[i].closes) \cap Resources = {}
    BY CaptureAllSteps, Closing DEF Is, Acts, None, Resources, Streams
  <2>3. \A g \in 1 .. Len(CaptureAllLowCleanup) :
          \A i \in 1 .. Len(CaptureAllLowCleanup[g].items) :
          Closed(CaptureAllLowCleanup[g].items[i].res) \cap Vouched("captureLow") # {} =>
              CaptureAllLowCleanup[g].items[i].watched
    BY <2>1, CaptureAllLowReleases, Closing, Known
       DEF Alone, Groups, Gives, Watches, Streams
  <2>4. Vouched("captureLow") \subseteq Resources
    BY <2>1, Known
  <2>5. \A i \in 1 .. Len(Setup("captureLow")) :
          Setup("captureLow")[i].refused \in {"tolerated", "marked", "ignored"} =>
            Closed(Setup("captureLow")[i].closes) \cap Vouched("captureLow") = {}
    BY <1>1, <2>2, <2>4
  <2>6. \A list \in {Programs["captureLow"].cleanup, Programs["captureLow"].undo} :
          \A g \in 1 .. Len(list) : \A i \in 1 .. Len(list[g].items) :
            Closed(list[g].items[i].res) \cap Vouched("captureLow") # {} =>
                list[g].items[i].watched
    BY <1>1, <2>3
  <2>7. ~Programs["captureLow"].interruptOk
    BY CaptureLowTable DEF Flags
  <2> QED  BY <2>5, <2>6, <2>7 DEF GoodVouch
<1>7. GoodHandOver("captureLow")
  BY DEF GoodHandOver
<1>8. /\ Programs["captureLow"].reviews \in BOOLEAN
      /\ Programs["captureLow"].interruptOk \in BOOLEAN
  BY CaptureLowTable DEF Flags
<1> QED  BY <1>1, <1>2, <1>3, <1>4, <1>5, <1>6, <1>7, <1>8 DEF WellMade

(* The four-channel audio capture is well made.                            *)
LEMMA AudioCaptureIsWellMade == WellMade("audioCapture")
<1>1. /\ Setup("audioCapture") = AudioCaptureSetup /\ Len(AudioCaptureSetup) = 11
      /\ Programs["audioCapture"].cleanup = AudioCaptureCleanup
      /\ Programs["audioCapture"].undo = <<>>
  BY AudioCaptureTable, AudioCaptureSteps DEF Table, Setup
<1>2. /\ GoodSetup("audioCapture")
      /\ \A r \in Resources : CanOpen("audioCapture", 11, r) =>
             r \in {"service", "session", "bus", "audio", "audio2"}
  BY <1>1, AudioCaptureTable, AudioCaptureSetupGood DEF Flags
<1>3. /\ ListShape("audioCapture", AudioCaptureCleanup)
      /\ GoodList("audioCapture", AudioCaptureCleanup, 11)
  BY <1>2, AudioCaptureCleansUp
<1>4. ListShape("audioCapture", <<>>)
  BY DEF ListShape
<1>5. \A i \in 1 .. 11 : ~Undoes(AudioCaptureSetup[i])
  BY AudioCaptureSteps DEF Undoes, Is, Acts
<1>6. GoodVouch("audioCapture")
  <2>1. Vouched("audioCapture") = Resources
    BY DEF Vouched
  <2>2. \A i \in 1 .. 11 :
          AudioCaptureSetup[i].refused \in {"tolerated", "marked", "ignored"} =>
          Closed(AudioCaptureSetup[i].closes) \cap Resources = {}
    BY AudioCaptureSteps, Closing DEF Is, Acts, None, Resources, Streams
  <2>3. \A g \in 1 .. Len(AudioCaptureCleanup) :
          \A i \in 1 .. Len(AudioCaptureCleanup[g].items) :
          Closed(AudioCaptureCleanup[g].items[i].res) \cap Vouched("audioCapture") # {} =>
              AudioCaptureCleanup[g].items[i].watched
    BY <2>1, AudioCaptureReleases, Closing, Known
       DEF Alone, Groups, Gives, Watches, Streams
  <2>4. Vouched("audioCapture") \subseteq Resources
    BY <2>1, Known
  <2>5. \A i \in 1 .. Len(Setup("audioCapture")) :
          Setup("audioCapture")[i].refused \in {"tolerated", "marked", "ignored"} =>
            Closed(Setup("audioCapture")[i].closes) \cap Vouched("audioCapture") = {}
    BY <1>1, <2>2, <2>4
  <2>6. \A list \in {Programs["audioCapture"].cleanup, Programs["audioCapture"].undo} :
          \A g \in 1 .. Len(list) : \A i \in 1 .. Len(list[g].items) :
            Closed(list[g].items[i].res) \cap Vouched("audioCapture") # {} =>
                list[g].items[i].watched
    BY <1>1, <2>3
  <2>7. ~Programs["audioCapture"].interruptOk
    BY AudioCaptureTable DEF Flags
  <2> QED  BY <2>5, <2>6, <2>7 DEF GoodVouch
<1>7. GoodHandOver("audioCapture")
  BY DEF GoodHandOver
<1>8. /\ Programs["audioCapture"].reviews \in BOOLEAN
      /\ Programs["audioCapture"].interruptOk \in BOOLEAN
  BY AudioCaptureTable DEF Flags
<1> QED  BY <1>1, <1>2, <1>3, <1>4, <1>5, <1>6, <1>7, <1>8 DEF WellMade

(* The raw-data playback is well made.                                     *)
LEMMA RawBackIsWellMade == WellMade("rawBack")
<1>1. /\ Setup("rawBack") = RawBackSetup /\ Len(RawBackSetup) = 13
      /\ Programs["rawBack"].cleanup = RawBackCleanup /\ Programs["rawBack"].undo = <<>>
  BY RawBackTable, RawBackSteps DEF Table, Setup
<1>2. /\ GoodSetup("rawBack")
      /\ \A r \in Resources : CanOpen("rawBack", 13, r) =>
             r \in {"service", "session", "bus", "audio", "playback"}
  BY <1>1, RawBackTable, RawBackSetupGood DEF Flags
<1>3. ListShape("rawBack", RawBackCleanup) /\ GoodList("rawBack", RawBackCleanup, 13)
  BY <1>2, RawBackCleansUp
<1>4. ListShape("rawBack", <<>>)
  BY DEF ListShape
<1>5. \A i \in 1 .. 13 : ~Undoes(RawBackSetup[i])
  BY RawBackSteps DEF Undoes, Is, Acts
<1>6. GoodVouch("rawBack") /\ GoodHandOver("rawBack")
  BY DEF GoodVouch, Vouched, GoodHandOver
<1>7. /\ Programs["rawBack"].reviews \in BOOLEAN
      /\ Programs["rawBack"].interruptOk \in BOOLEAN
  BY RawBackTable DEF Flags
<1> QED  BY <1>1, <1>2, <1>3, <1>4, <1>5, <1>6, <1>7 DEF WellMade

(* The shared-memory audio example is well made.                           *)
LEMMA AudioShmIsWellMade == WellMade("audioShm")
<1>1. /\ Setup("audioShm") = AudioShmSetup /\ Len(AudioShmSetup) = 13
      /\ Programs["audioShm"].cleanup = AudioShmCleanup
      /\ Programs["audioShm"].undo = <<>>
  BY AudioShmTable, AudioShmSteps DEF Table, Setup
<1>2. /\ GoodSetup("audioShm")
      /\ \A r \in Resources : CanOpen("audioShm", 13, r) =>
             r \in {"service", "session", "bus", "audio", "output"}
  BY <1>1, AudioShmTable, AudioShmSetupGood DEF Flags
<1>3. /\ ListShape("audioShm", AudioShmCleanup)
      /\ GoodList("audioShm", AudioShmCleanup, 13)
  BY <1>2, AudioShmCleansUp
<1>4. ListShape("audioShm", <<>>)
  BY DEF ListShape
<1>5. \A i \in 1 .. 13 : ~Undoes(AudioShmSetup[i])
  BY AudioShmSteps DEF Undoes, Is, Acts
<1>6. GoodVouch("audioShm") /\ GoodHandOver("audioShm")
  BY DEF GoodVouch, Vouched, GoodHandOver
<1>7. /\ Programs["audioShm"].reviews \in BOOLEAN
      /\ Programs["audioShm"].interruptOk \in BOOLEAN
  BY AudioShmTable DEF Flags
<1> QED  BY <1>1, <1>2, <1>3, <1>4, <1>5, <1>6, <1>7 DEF WellMade

(* The TRC observer is well made.                                          *)
LEMMA TrcIsWellMade == WellMade("trc")
<1>1. /\ Setup("trc") = TrcSetup /\ Len(TrcSetup) = 8
      /\ Programs["trc"].cleanup = TrcCleanup /\ Programs["trc"].undo = <<>>
  BY TrcTable, TrcSteps DEF Table, Setup
<1>2. /\ GoodSetup("trc")
      /\ \A r \in Resources : CanOpen("trc", 8, r) =>
             r \in {"service", "session", "observation"}
  BY <1>1, TrcTable, TrcSetupGood DEF Flags
<1>3. ListShape("trc", TrcCleanup) /\ GoodList("trc", TrcCleanup, 8)
  BY <1>2, TrcCleansUp
<1>4. ListShape("trc", <<>>)
  BY DEF ListShape
<1>5. \A i \in 1 .. 8 : ~Undoes(TrcSetup[i])
  BY TrcSteps DEF Undoes, Is, Acts
<1>6. GoodVouch("trc")
  <2>1. Vouched("trc") = {"observation"}
    BY DEF Vouched
  <2>2. \A i \in 1 .. 8 : TrcSetup[i].refused \in {"tolerated", "marked", "ignored"} =>
          Closed(TrcSetup[i].closes) \cap Resources = {}
    BY TrcSteps, Closing DEF Is, Acts, None, Resources, Streams
  <2>3. \A g \in 1 .. Len(TrcCleanup) : \A i \in 1 .. Len(TrcCleanup[g].items) :
          Closed(TrcCleanup[g].items[i].res) \cap Vouched("trc") # {} =>
              TrcCleanup[g].items[i].watched
    BY <2>1, TrcReleases, Closing, Known DEF Alone, Groups, Gives, Watches, Streams
  <2>4. Vouched("trc") \subseteq Resources
    BY <2>1, Known
  <2>5. \A i \in 1 .. Len(Setup("trc")) :
          Setup("trc")[i].refused \in {"tolerated", "marked", "ignored"} =>
            Closed(Setup("trc")[i].closes) \cap Vouched("trc") = {}
    BY <1>1, <2>2, <2>4
  <2>6. \A list \in {Programs["trc"].cleanup, Programs["trc"].undo} :
          \A g \in 1 .. Len(list) : \A i \in 1 .. Len(list[g].items) :
            Closed(list[g].items[i].res) \cap Vouched("trc") # {} =>
                list[g].items[i].watched
    BY <1>1, <2>3
  <2>7. ~Programs["trc"].interruptOk
    BY TrcTable DEF Flags
  <2> QED  BY <2>5, <2>6, <2>7 DEF GoodVouch
<1>7. GoodHandOver("trc")
  BY DEF GoodHandOver
<1>8. Programs["trc"].reviews \in BOOLEAN /\ Programs["trc"].interruptOk \in BOOLEAN
  BY TrcTable DEF Flags
<1> QED  BY <1>1, <1>2, <1>3, <1>4, <1>5, <1>6, <1>7, <1>8 DEF WellMade

(* The low-level template is well made.                                    *)
LEMMA LowLevelIsWellMade == WellMade("lowLevel")
<1>1. /\ Setup("lowLevel") = LowLevelSetup /\ Len(LowLevelSetup) = 9
      /\ Programs["lowLevel"].cleanup = LowLevelCleanup
      /\ Programs["lowLevel"].undo = <<>>
  BY LowLevelTable, LowLevelSteps DEF Table, Setup
<1>2. /\ GoodSetup("lowLevel")
      /\ \A r \in Resources : CanOpen("lowLevel", 9, r) =>
             r \in {"service", "session", "motors"}
  BY <1>1, LowLevelTable, LowLevelSetupGood DEF Flags
<1>3. ListShape("lowLevel", LowLevelCleanup) /\ GoodList("lowLevel", LowLevelCleanup, 9)
  BY <1>2, LowLevelCleansUp
<1>4. ListShape("lowLevel", <<>>)
  BY DEF ListShape
<1>5. \A i \in 1 .. 9 : ~Undoes(LowLevelSetup[i])
  BY LowLevelSteps DEF Undoes, Is, Acts
<1>6. GoodVouch("lowLevel") /\ GoodHandOver("lowLevel")
  BY DEF GoodVouch, Vouched, GoodHandOver
<1>7. /\ Programs["lowLevel"].reviews \in BOOLEAN
      /\ Programs["lowLevel"].interruptOk \in BOOLEAN
  BY LowLevelTable DEF Flags
<1> QED  BY <1>1, <1>2, <1>3, <1>4, <1>5, <1>6, <1>7 DEF WellMade

(* The release script is well made.                                        *)
LEMMA ReleaseIsWellMade == WellMade("release")
<1>1. /\ Setup("release") = ReleaseSetup /\ Len(ReleaseSetup) = 7
      /\ Programs["release"].cleanup = ReleaseCleanup /\ Programs["release"].undo = <<>>
  BY ReleaseTable, ReleaseSteps DEF Table, Setup
<1>2. /\ GoodSetup("release")
      /\ \A r \in Resources : CanOpen("release", 7, r) => r \in {"service", "session"}
  BY <1>1, ReleaseTable, ReleaseSetupGood DEF Flags
<1>3. ListShape("release", ReleaseCleanup) /\ GoodList("release", ReleaseCleanup, 7)
  BY <1>2, ReleaseCleansUp
<1>4. ListShape("release", <<>>)
  BY DEF ListShape
<1>5. \A i \in 1 .. 7 : ~Undoes(ReleaseSetup[i])
  BY ReleaseSteps DEF Undoes, Is, Acts
<1>6. GoodVouch("release")
  <2>1. Vouched("release") = {"mode"}
    BY DEF Vouched
  <2>2. \A i \in 1 .. 7 : ReleaseSetup[i].refused \in {"tolerated", "marked", "ignored"} =>
          Closed(ReleaseSetup[i].closes) \cap Resources = {}
    BY ReleaseSteps, Closing DEF Is, Acts, None, Resources, Streams
  <2>3. \A g \in 1 .. Len(ReleaseCleanup) : \A i \in 1 .. Len(ReleaseCleanup[g].items) :
          Closed(ReleaseCleanup[g].items[i].res) \cap Vouched("release") # {} =>
              ReleaseCleanup[g].items[i].watched
    BY <2>1, ReleaseReleases, Closing, Known
       DEF Alone, Groups, Gives, Watches, Streams
  <2>4. Vouched("release") \subseteq Resources
    BY <2>1, Known
  <2>5. \A i \in 1 .. Len(Setup("release")) :
          Setup("release")[i].refused \in {"tolerated", "marked", "ignored"} =>
            Closed(Setup("release")[i].closes) \cap Vouched("release") = {}
    BY <1>1, <2>2, <2>4
  <2>6. \A list \in {Programs["release"].cleanup, Programs["release"].undo} :
          \A g \in 1 .. Len(list) : \A i \in 1 .. Len(list[g].items) :
            Closed(list[g].items[i].res) \cap Vouched("release") # {} =>
                list[g].items[i].watched
    BY <1>1, <2>3
  <2>7. ~Programs["release"].interruptOk
    BY ReleaseTable DEF Flags
  <2> QED  BY <2>5, <2>6, <2>7 DEF GoodVouch
<1>7. GoodHandOver("release")
  <2>1. \A i \in 1 .. 7 : ~ReleaseSetup[i].mayLeave
    BY ReleaseSteps DEF Is
  <2>2. /\ ReleaseSetup[7].closes = "mode" /\ ReleaseSetup[7].notes = None
        /\ ~ReleaseSetup[7].optional /\ ReleaseSetup[7].refused \in Exits
    BY ReleaseSteps DEF Exits
  <2>3. Programs["release"].handles /\ ~Programs["release"].restores
    BY ReleaseTable DEF Flags
  <2> QED  BY <1>1, <2>1, <2>2, <2>3 DEF GoodHandOver
<1>8. /\ Programs["release"].reviews \in BOOLEAN
      /\ Programs["release"].interruptOk \in BOOLEAN
  BY ReleaseTable DEF Flags
<1> QED  BY <1>1, <1>2, <1>3, <1>4, <1>5, <1>6, <1>7, <1>8 DEF WellMade

(* The policy console is well made.                                        *)
LEMMA PolicyIsWellMade == WellMade("policy")
<1>1. /\ Setup("policy") = PolicySetup /\ Len(PolicySetup) = 11
      /\ Programs["policy"].cleanup = PolicyCleanup
      /\ Programs["policy"].undo = EngineCleanup
  BY PolicyTable, PolicySteps DEF Table, Setup
<1>2. /\ GoodSetup("policy")
      /\ \A r \in Resources : CanOpen("policy", 11, r) =>
             r \in {"service", "session", "motors", "loop", "stream", "input", "outputBuffer"}
  BY <1>1, PolicyTable, PolicySetupGood DEF Flags
<1>3. ListShape("policy", PolicyCleanup) /\ GoodList("policy", PolicyCleanup, 11)
  BY <1>2, PolicyCleansUp
<1>4. ASSUME NEW i \in 1 .. 11, Undoes(PolicySetup[i])
      PROVE  /\ ListShape("policy", EngineCleanup)
             /\ GoodList("policy", EngineCleanup, i - 1)
  <2>1. i <= 5
    BY <1>4, PolicySteps DEF Undoes, Is, Acts
  <2>2. \A k \in 1 .. 4 : PolicySetup[k].opens \in {None, "stream", "input", "outputBuffer"}
    BY PolicySteps DEF Is, Acts
  <2>3. None \notin Resources /\ ~Programs["policy"].restores
    BY PolicyTable DEF None, Resources, Streams, Flags
  <2>4. \A r \in Resources : CanOpen("policy", i - 1, r) =>
            r \in {"stream", "input", "outputBuffer"}
    BY <1>1, <2>1, <2>2, <2>3 DEF CanOpen, Setup
  <2> QED  BY <2>4, PolicyUndoes
<1>5. Undoes(PolicySetup[1]) /\ 1 \in 1 .. 11
  BY PolicySteps DEF Undoes, Is, Acts
<1>6. GoodVouch("policy") /\ GoodHandOver("policy")
  BY DEF GoodVouch, Vouched, GoodHandOver
<1>7. /\ Programs["policy"].reviews \in BOOLEAN
      /\ Programs["policy"].interruptOk \in BOOLEAN
  BY PolicyTable DEF Flags
<1> QED  BY <1>1, <1>2, <1>3, <1>4, <1>5, <1>6, <1>7 DEF WellMade

(* The engine validation is well made.                                     *)
LEMMA ValidateIsWellMade == WellMade("validate")
<1>1. /\ Setup("validate") = ValidateSetup /\ Len(ValidateSetup) = 5
      /\ Programs["validate"].cleanup = EngineCleanup
      /\ Programs["validate"].undo = EngineCleanup
  BY ValidateTable, ValidateSteps DEF Table, Setup
<1>2. /\ GoodSetup("validate")
      /\ \A r \in Resources : CanOpen("validate", 5, r) =>
             r \in {"stream", "input", "outputBuffer"}
  BY <1>1, ValidateTable, ValidateSetupGood DEF Flags
<1>3. ListShape("validate", EngineCleanup) /\ GoodList("validate", EngineCleanup, 5)
  BY <1>2, ValidateCleansUp
<1>4. ASSUME NEW i \in 1 .. 5, Undoes(ValidateSetup[i])
      PROVE  /\ ListShape("validate", EngineCleanup)
             /\ GoodList("validate", EngineCleanup, i - 1)
  <2>1. i <= 4
    BY <1>4, ValidateSteps DEF Undoes, Is, Acts
  <2>2. \A k \in 1 .. 4 :
          ValidateSetup[k].opens \in {None, "stream", "input", "outputBuffer"}
    BY ValidateSteps DEF Is, Acts
  <2>3. None \notin Resources /\ ~Programs["validate"].restores
    BY ValidateTable DEF None, Resources, Streams, Flags
  <2>4. \A r \in Resources : CanOpen("validate", i - 1, r) =>
            r \in {"stream", "input", "outputBuffer"}
    BY <1>1, <2>1, <2>2, <2>3 DEF CanOpen, Setup
  <2> QED  BY <2>4, ValidateCleansUp
<1>5. Undoes(ValidateSetup[1]) /\ 1 \in 1 .. 5
  BY ValidateSteps DEF Undoes, Is, Acts
<1>6. GoodVouch("validate") /\ GoodHandOver("validate")
  BY DEF GoodVouch, Vouched, GoodHandOver
<1>7. /\ Programs["validate"].reviews \in BOOLEAN
      /\ Programs["validate"].interruptOk \in BOOLEAN
  BY ValidateTable DEF Flags
<1> QED  BY <1>1, <1>2, <1>3, <1>4, <1>5, <1>6, <1>7 DEF WellMade

(* Every example program is well made: the condition under which the       *)
(* proofs below hold is a fact about the programs, not an assumption.      *)
LEMMA WellMadePrograms == \A p \in Names : WellMade(p)
BY MediaIsWellMade, CaptureAllIsWellMade, MediaLowIsWellMade, CaptureLowIsWellMade,
   AudioCaptureIsWellMade, RawBackIsWellMade, AudioShmIsWellMade, TrcIsWellMade,
   LowLevelIsWellMade, ReleaseIsWellMade, PolicyIsWellMade, ValidateIsWellMade
   DEF Names

-----------------------------------------------------------------------------
(****************************************************************************)
(* The steps of the setup.                                                  *)
(****************************************************************************)
(* No resource is called None, and what is inside something is a resource. *)
LEMMA Naming ==
  /\ None \notin Resources
  /\ \A r \in Resources : Inner(r) \subseteq Resources
  /\ \A r \in Resources : r \in Closed(r)
  /\ \A r : "mode" \in Closed(r) => r = "mode"
BY DEF None, Resources, Streams, Inner, Closed

(* The setup of a program is a sequence of steps.                          *)
LEMMA Tables ==
  ASSUME NEW p \in Names
  PROVE  /\ Setup(p) \in Seq(SetupStep) /\ Len(Setup(p)) \in Nat \ {0}
         /\ \A i \in 1 .. Len(Setup(p)) : Setup(p)[i] \in SetupStep
BY WellMadePrograms DEF WellMade, GoodSetup

(* The releases of a cleanup are groups of at least one release.           *)
LEMMA Lists ==
  ASSUME LifeTypeOK
  PROVE  /\ Releases \in Seq(ReleaseGroup)
         /\ \A g \in 1 .. Len(Releases) :
              /\ Releases[g].items \in Seq(Releasing)
              /\ Len(Releases[g].items) \in Nat \ {0}
<1>1. WellMade(program)
  BY WellMadePrograms DEF LifeTypeOK
<1>2. ListShape(program, Releases)
  BY <1>1 DEF WellMade, Releases, Prog
<1>3. ASSUME NEW g \in 1 .. Len(Releases)
      PROVE  /\ Releases[g].items \in Seq(Releasing)
             /\ Len(Releases[g].items) \in Nat \ {0}
  <2>1. Releases[g] \in ReleaseGroup /\ Releases[g].items # <<>>
    BY <1>2 DEF ListShape
  <2> QED  BY <2>1 DEF ReleaseGroup
<1> QED
  BY <1>2, <1>3 DEF ListShape

\* What a step of the setup may do, whatever comes of it.
SetupEffect ==
  /\ InSetup
  /\ program' = program /\ up' = up
  /\ open' \subseteq open \cup One(Step.opens)
  /\ excused \subseteq excused'
  /\ \A h \in noted : h \in noted' \/ h = Step.forgets
  /\ Step.forgets # None =>
         "audio" \notin open' \/ "audio" \in excused' \/ noted \subseteq noted'
  /\ Step.opens \in open' =>
       Step.opens \in open \cup excused' \/ Step.notes \in noted' \/ Step.notes = None

\* The actions of the setup.
SetupAction ==
  Perform \/ CreateNothing \/ Skip \/ GoOn \/ Refuse \/ Raise \/ LeaveEarly \/ Interrupt

(* Every action of the setup has that effect.                              *)
LEMMA SetupEffects ==
  ASSUME LifeTypeOK, SetupAction
  PROVE  SetupEffect
<1>1. Step \in SetupStep
  BY Tables
     DEF LifeTypeOK, Step, Prog, Setup, SetupAction, Perform, CreateNothing, Skip,
         GoOn, Refuse, Raise, LeaveEarly, Interrupt
<1>2. Step.forgets # None =>
          Step.closes = "audio" /\ Step.notes = None /\ Step.opens = None
  BY WellMadePrograms
     DEF WellMade, GoodSetup, GoodStep, LifeTypeOK, Step, Prog, Setup
<1>3. None # "media" /\ None # "audio"
  BY DEF None
<1>4. CASE Perform
  BY <1>1, <1>2, <1>3, <1>4
     DEF Perform, SetupEffect, Effect, Assigned, One, SetupStep, history
<1>5. CASE CreateNothing
  BY <1>2, <1>3, <1>5 DEF CreateNothing, SetupEffect, Assigned, One, history
<1>6. CASE Skip
  BY <1>6 DEF Skip, SetupEffect, native, history
<1>7. CASE GoOn
  BY <1>2, <1>3, <1>7 DEF GoOn, SetupEffect, Assigned, One, native
<1>8. CASE Refuse
  BY <1>8 DEF Refuse, SetupEffect, native
<1>9. CASE Raise
  BY <1>9 DEF Raise, SetupEffect, native
<1>10. CASE LeaveEarly
  BY <1>10 DEF LeaveEarly, SetupEffect, native, history
<1>11. CASE Interrupt
  BY <1>11 DEF Interrupt, SetupEffect, Effect, One
<1> QED
  BY <1>4, <1>5, <1>6, <1>7, <1>8, <1>9, <1>10, <1>11 DEF SetupAction

(* A step of the setup goes on to the next or leaves: to the cleanup; to   *)
(* the cleanup before the try, with nothing new open; or to the end,       *)
(* outside its try or with nothing open.                                   *)
LEMMA Exit ==
  ASSUME LifeTypeOK, SetupAction
  PROVE  \/ /\ at < Len(Prog.setup)
            /\ at' = at + 1
            /\ UNCHANGED <<phase, undoing, group, item>>
         \/ Leave("cleanup")
         \/ Leave("undo") /\ Undoes(Step) /\ open' = open
         \/ Leave("nothing") /\ (unprotected' \/ (at = 1 /\ open' = open))
<1>1. Step \in SetupStep /\ at \in 1 .. Len(Prog.setup) /\ Len(Prog.setup) \in Nat
  BY Tables DEF LifeTypeOK, Step, Prog, Setup
<1>2. Step.refused = "nothing" => at = 1
  BY WellMadePrograms
     DEF WellMade, GoodSetup, GoodStep, LifeTypeOK, Step, Prog, Setup
<1>3. Advance =>
        \/ /\ at < Len(Prog.setup)
           /\ at' = at + 1
           /\ UNCHANGED <<phase, undoing, group, item>>
        \/ Leave("cleanup")
  BY <1>1 DEF Advance
<1>4. CASE Perform \/ CreateNothing \/ Skip \/ GoOn
  BY <1>3, <1>4 DEF Perform, CreateNothing, Skip, GoOn
<1>5. CASE Refuse
  BY <1>2, <1>5 DEF Refuse, Exits, Undoes, native
<1>6. CASE Raise
  BY <1>1, <1>6 DEF Raise, SetupStep, Exits, Undoes, native
<1>7. CASE LeaveEarly
  BY <1>7 DEF LeaveEarly
<1>8. CASE Interrupt
  BY <1>8 DEF Interrupt
<1> QED
  BY <1>4, <1>5, <1>6, <1>7, <1>8 DEF SetupAction

\* What a program may hold after a step of its setup.

(* The variable by which a program knows of a resource, and what it is     *)
(* released with.                                                          *)
LEMMA Keepers ==
  ASSUME NEW p, NEW r \in Resources
  PROVE  /\ Keeper(p, r) = "audio" <=> r = "audio"
         /\ Keeper(p, r) # None
         /\ Host(r) \in Resources
         /\ r \in Streams => Host(r) = "bus" /\ Keeper(p, Host(r)) = "media"
         /\ r \notin Streams => Host(r) = r
         /\ r \in Closed(Host(r))
BY DEF Keeper, Resources, Streams, None, Always, Host, Closed

(* What a program owns are resources.                                      *)
LEMMA OwnIsTyped ==
  ASSUME LifeTypeOK
  PROVE  Own \subseteq Resources
BY DEF LifeTypeOK, Own, MayBeOpen, Resources

(* The variable of a step that is behind is set.                           *)
LEMMA SureIsNoted ==
  ASSUME LifeTypeOK, SetupInv, InSetup, NEW k \in 1 .. at - 1, Sure(Prog.setup[k])
  PROVE  Prog.setup[k].notes \in noted
BY DEF SetupInv

(* After a step of the setup the program knows of everything it owns: the  *)
(* variable of each resource, and of the bus that a stream is in, is set.  *)
LEMMA SetupHolds ==
  ASSUME LifeTypeOK, SetupInv, SetupAction, NEW r \in Own'
  PROVE  /\ \/ r \in Own
            \/ r = Step.opens
            \/ (Step.opens = "session" /\ Prog.restores /\ r = "mode")
         /\ r \in Resources
         /\ CanOpen(program, at, r)
         /\ r \in excused' \/ Keeper(program, r) \in noted'
         /\ r \in excused' \/ Keeper(program, Host(r)) \in noted'
<1> USE SetupEffects
<1>1. /\ InSetup
      /\ program \in Names
      /\ at \in 1 .. Len(Prog.setup)
      /\ Len(Prog.setup) \in Nat
      /\ Step \in SetupStep /\ Always \in noted /\ open \subseteq Resources
  BY Tables DEF SetupEffect, LifeTypeOK, Step, Prog, Setup
<1>2. \A i \in 1 .. Len(Prog.setup) : GoodStep(program, i, Prog.setup[i])
  BY <1>1, WellMadePrograms DEF WellMade, GoodSetup, Setup, Prog
<1>3. GoodStep(program, at, Step)
  BY <1>1, <1>2 DEF Step
<1>4. \/ r \in Own
      \/ r = Step.opens
      \/ (Step.opens = "session" /\ Prog.restores /\ r = "mode")
  BY DEF SetupEffect, Own, MayBeOpen, Inherited, One, Prog
<1>5. r \in Resources
  <2>1. CASE r \in Own
    BY <2>1, OwnIsTyped
  <2>2. CASE r = "mode"
    BY <2>2 DEF Resources
  <2>3. CASE r = Step.opens /\ r # "mode"
    BY <1>1, <2>3 DEF SetupEffect, SetupStep, Own, MayBeOpen, One
  <2> QED  BY <1>4, <2>1, <2>2, <2>3
<1>6. Always \in noted' /\ \A k \in 1 .. at - 1 : 
        Sure(Prog.setup[k]) => Prog.setup[k].notes \in noted' \cap noted
  <2>1. Step.forgets \in {None, "audio"}
    BY <1>1 DEF SetupStep
  <2>2. \A h \in noted : h \notin {None, "audio"} => h \in noted'
    BY <2>1 DEF SetupEffect
  <2>3. \A k \in 1 .. at - 1 : Sure(Prog.setup[k]) => Prog.setup[k].notes \in noted
    BY <1>1 DEF SetupInv
  <2> QED  BY <1>1, <2>2, <2>3 DEF Sure, Always, None
<1>7. CanOpen(program, at, r)
  <2>1. CASE r \in Own
    <3>1. CanOpen(program, at - 1, r)
      BY <1>1, <2>1 DEF SetupInv
    <3> QED  BY <1>1, <3>1 DEF CanOpen
  <2>2. CASE r = Step.opens
    BY <1>1, <2>2 DEF CanOpen, Step, Prog
  <2>3. CASE Prog.restores /\ r = "mode"
    BY <2>3 DEF CanOpen, Prog
  <2> QED  BY <1>4, <2>1, <2>2, <2>3
<1>8. r \in excused' \/ Keeper(program, r) \in noted'
  <2>1. CASE r \in Own
    <3>1. r \in excused \/ Keeper(program, r) \in noted
      BY <1>1, <2>1 DEF SetupInv
    <3>2. Keeper(program, r) = "audio" => r = "audio"
      BY <1>5, Keepers
    <3>3. Step.forgets \in {None, "audio"} /\ Keeper(program, r) # None
      BY <1>1, <1>5, Keepers DEF SetupStep
    <3>4. r = "audio" => r \in open'
      BY DEF Own, MayBeOpen
    <3> QED  BY <3>1, <3>2, <3>3, <3>4 DEF SetupEffect
  <2>2. CASE r = Step.opens /\ r \notin Own
    <3>1. Keeper(program, r) # None /\ r # None
      BY <1>5, Keepers, Naming
    <3>2. CASE Keeper(program, r) \in {Step.notes, Always}
      <4>1. r \notin open
        BY <2>2 DEF Own, MayBeOpen, Inherited, SetupEffect
      <4>2. r \in open'
        BY <2>2 DEF Own, MayBeOpen, Inherited, SetupEffect, One, Prog
      <4>3. r \in open' => r \in excused' \/ Step.notes \in noted' \/ Step.notes = None
        BY <2>2, <4>1 DEF SetupEffect
      <4> QED  BY <1>6, <3>1, <3>2, <4>2, <4>3
    <3>3. CASE Keeper(program, r) \notin {Step.notes, Always}
      <4>1. PICK k \in 1 .. at - 1 :
               Sure(Prog.setup[k]) /\ Prog.setup[k].notes = Keeper(program, r)
        BY <1>3, <2>2, <3>1, <3>3 DEF GoodStep, Prog, Setup
      <4> QED  BY <1>6, <4>1
    <3> QED  BY <3>2, <3>3
  <2>3. CASE Step.opens = "session" /\ Prog.restores /\ r = "mode"
    <3>1. PICK k \in 1 .. at - 1 : Sure(Prog.setup[k]) /\ Prog.setup[k].notes = "client"
      BY <1>3, <2>3 DEF GoodStep, Prog, Setup
    <3>2. Keeper(program, r) = "client"
      BY <2>3 DEF Keeper
    <3> QED  BY <1>6, <3>1, <3>2
  <2> QED  BY <1>4, <2>1, <2>2, <2>3
<1>9. r \in excused' \/ Keeper(program, Host(r)) \in noted'
  <2>1. CASE r \notin Streams
    BY <1>5, <1>8, <2>1, Keepers
  <2>2. CASE r \in Streams
    <3>1. Keeper(program, Host(r)) = "media"
      BY <1>5, <2>2, Keepers
    <3>2. PICK j \in 1 .. at : Prog.setup[j].opens = r
      BY <1>7, <2>2 DEF CanOpen, Streams, Prog
    <3>3. GoodStep(program, j, Prog.setup[j])
      BY <1>1, <1>2
    <3>4. PICK k \in 1 .. j - 1 : Sure(Prog.setup[k]) /\ Prog.setup[k].notes = "media"
      BY <2>2, <3>2, <3>3 DEF GoodStep, Prog, Setup
    <3>5. k \in 1 .. at - 1
      BY <1>1
    <3> QED  BY <1>6, <3>1, <3>4, <3>5
  <2> QED  BY <2>1, <2>2
<1> QED
  BY <1>4, <1>5, <1>7, <1>8, <1>9

(* Whoever enters a cleanup that is good for what it holds has what Kept   *)
(* and Ordered ask for.                                                    *)
LEMMA Entering ==
  ASSUME NEW n \in Nat, LifeTypeOK', group' = 1, item' = 1,
         GoodList(program', Releases', n),
         \A r \in Own' :
           /\ r \in Resources /\ CanOpen(program', n, r)
           /\ \/ r \in excused'
              \/ (Keeper(program', r) \in noted' /\ Keeper(program', Host(r)) \in noted')
  PROVE  Kept' /\ Ordered'
<1>1. Kept'
  <2> SUFFICES ASSUME NEW r \in Own', ~Excused(r)'
               PROVE  /\ Keeper(program', Host(r)) \in noted'
                      /\ \E g \in 1 .. Len(Releases') : \E i \in 1 .. Len(Releases'[g].items) :
                           /\ Pending(g, i)'
                           /\ Covers(Releases', g, i, Keeper(program', Host(r)), r)
    BY DEF Kept
  <2>1. r \notin excused' /\ r \in Resources
    BY Naming DEF Excused
  <2>2. PICK g \in 1 .. Len(Releases') : \E i \in 1 .. Len(Releases'[g].items) :
          Covers(Releases', g, i, Keeper(program', Host(r)), r)
    BY <2>1 DEF GoodList
  <2> QED  BY <2>1, <2>2 DEF Pending
<1>2. Ordered'
  <2> SUFFICES ASSUME NEW g \in 1 .. Len(Releases'),
                      NEW i \in 1 .. Len(Releases'[g].items),
                      NEW d \in Inner(Releases'[g].items[i].res) \cap Own', ~Tried(d)'
               PROVE  /\ Keeper(program', d) \in noted'
                      /\ \E g2 \in 1 .. Len(Releases') : \E i2 \in 1 .. Len(Releases'[g2].items) :
                           /\ Pending(g2, i2)'
                           /\ Precedes(program', Releases', g2, i2, g, i, d)
    BY DEF Ordered
  <2>1. d \notin excused' /\ CanOpen(program', n, d)
    BY DEF Tried
  <2>2. PICK g2 \in 1 .. Len(Releases') : \E i2 \in 1 .. Len(Releases'[g2].items) :
          Precedes(program', Releases', g2, i2, g, i, d)
    BY <2>1 DEF GoodList
  <2> QED  BY <2>1, <2>2 DEF Pending
<1> QED
  BY <1>1, <1>2

(* A step of the setup keeps the types of what the program holds.          *)
LEMMA SetupTypes ==
  ASSUME LifeTypeOK, SetupAction
  PROVE  /\ open' \subseteq Resources
         /\ excused' \subseteq Resources
         /\ noted' \subseteq Handles
         /\ Always \in noted'
         /\ up' \in BOOLEAN
         /\ nullMedia' \in BOOLEAN
         /\ failed' \in BOOLEAN
         /\ unprotected' \in BOOLEAN
         /\ aborted' = aborted
<1>1. /\ Step \in SetupStep /\ open \subseteq Resources /\ excused \subseteq Resources
      /\ noted \subseteq Handles /\ Always \in noted
      /\ up \in BOOLEAN
      /\ nullMedia \in BOOLEAN
      /\ failed \in BOOLEAN
      /\ unprotected \in BOOLEAN
  BY Tables DEF SetupAction, SetupEffect, LifeTypeOK, Step, Prog, Setup
<1>2. /\ One(Step.opens) \subseteq Resources /\ One(Step.closes) \subseteq Resources
      /\ One(Step.notes) \subseteq Handles /\ Always \notin One(Step.forgets)
  BY <1>1 DEF SetupStep, One, Resources, Streams, None, Always
<1>3. Effect \subseteq Resources /\ Assigned \subseteq Handles /\ Always \in Assigned
  BY <1>1, <1>2 DEF Effect, Assigned
<1>4. aborted' = aborted
  BY DEF SetupAction, Perform, CreateNothing, Skip, GoOn, Refuse, Raise, LeaveEarly,
         Interrupt, history
<1>5. nullMedia' \in BOOLEAN /\ up' \in BOOLEAN
  BY <1>1
     DEF SetupAction, Perform, CreateNothing, Skip, GoOn, Refuse, Raise, LeaveEarly,
         Interrupt, native
<1>6. failed' \in BOOLEAN /\ unprotected' \in BOOLEAN
  BY <1>1, Zenon
     DEF SetupAction, Perform, CreateNothing, Skip, GoOn, Refuse, Raise, LeaveEarly,
         Interrupt, history
<1>7. open' \subseteq Resources
  BY <1>1, <1>3
     DEF SetupAction, Perform, CreateNothing, Skip, GoOn, Refuse, Raise, LeaveEarly,
         Interrupt, native
<1>8. noted' \subseteq Handles /\ Always \in noted'
  BY <1>1, <1>3, <1>2
     DEF SetupAction, Perform, CreateNothing, Skip, GoOn, Refuse, Raise, LeaveEarly,
         Interrupt, Assigned
<1>9. excused' \subseteq Resources
  BY <1>1, <1>2
     DEF SetupAction, Perform, CreateNothing, Skip, GoOn, Refuse, Raise, LeaveEarly,
         Interrupt, history
<1> QED
  BY <1>4, <1>5, <1>6, <1>7, <1>8, <1>9

(* Either cleanup of a program has groups of at least one release.         *)
LEMMA ListOf ==
  ASSUME NEW p \in Names, NEW b \in BOOLEAN
  PROVE  LET list == IF b THEN Programs[p].undo ELSE Programs[p].cleanup IN
         /\ list \in Seq(ReleaseGroup) /\ Len(list) \in Nat
         /\ \A g \in 1 .. Len(list) : Len(list[g].items) \in Nat \ {0}
<1> DEFINE list == IF b THEN Programs[p].undo ELSE Programs[p].cleanup
<1>1. ListShape(p, list)
  BY WellMadePrograms DEF WellMade
<1>2. ASSUME NEW g \in 1 .. Len(list)
      PROVE  Len(list[g].items) \in Nat \ {0}
  <2>1. list[g] \in ReleaseGroup /\ list[g].items # <<>>
    BY <1>1 DEF ListShape
  <2> QED  BY <2>1 DEF ReleaseGroup
<1> QED
  BY <1>1, <1>2 DEF ListShape

(* A cleanup begins with its first release.                                *)
LEMMA PlaceTyped ==
  ASSUME LifeTypeOK, program' = program, undoing' \in BOOLEAN, group' = 1, item' = 1
  PROVE  /\ group' \in 1 .. Len(Releases') + 1 /\ item' \in Nat \ {0}
         /\ group' <= Len(Releases') => item' <= Len(Releases'[group'].items)
<1>1. /\ Releases' = (IF undoing' THEN Programs[program].undo ELSE Programs[program].cleanup)
      /\ program \in Names
  BY DEF Releases, Prog, LifeTypeOK
<1>2. /\ Len(Releases') \in Nat
      /\ \A g \in 1 .. Len(Releases') : Len(Releases'[g].items) \in Nat \ {0}
  BY <1>1, ListOf
<1> QED
  BY <1>2

(* A step of the setup keeps the types.                                    *)
LEMMA SetupTypeOK ==
  ASSUME LifeTypeOK, SetupInv, SetupAction
  PROVE  LifeTypeOK'
<1>1. program' = program /\ InSetup /\ group = 1 /\ item = 1 /\ undoing = FALSE
  BY SetupEffects DEF SetupEffect, SetupInv, LifeTypeOK
<1>2. at \in 1 .. Len(Prog.setup) /\ Len(Prog.setup) \in Nat /\ program \in Names
  BY Tables DEF LifeTypeOK, Prog, Setup
<1>3. /\ phase' \in {"setup", "cleanup", "done"} /\ at' \in 1 .. Len(Prog.setup)
      /\ undoing' \in BOOLEAN /\ group' = 1 /\ item' = 1
  <2>1. \A e : Leave(e) => /\ phase' \in {"setup", "cleanup", "done"} /\ at' = at
                           /\ undoing' \in BOOLEAN /\ group' = 1 /\ item' = 1
    BY <1>1 DEF Leave
  <2>2. CASE Leave("cleanup") \/ Leave("undo") \/ Leave("nothing")
    BY <1>2, <2>1, <2>2
  <2>3. CASE /\ at < Len(Prog.setup)
             /\ at' = at + 1
             /\ UNCHANGED <<phase, undoing, group, item>>
    <3>1. undoing' \in BOOLEAN /\ phase' = "setup"
      BY <1>1, <2>3, Zenon DEF InSetup
    <3> QED  BY <1>1, <1>2, <2>3, <3>1
  <2> QED  BY <2>2, <2>3, Exit
<1>4. aborted' \in {"no", "raise", "interrupt"}
  BY SetupTypes DEF LifeTypeOK
<1> QED
  BY <1>1, <1>2, <1>3, <1>4, SetupTypes, PlaceTyped DEF LifeTypeOK, Prog

-----------------------------------------------------------------------------

(* A step that stays in the setup keeps its part of the invariant.         *)
LEMMA SetupKeepsSetup ==
  ASSUME LifeTypeOK, SetupInv, DoneInv, SetupAction
  PROVE  SetupInv'
<1> SUFFICES ASSUME InSetup' PROVE SetupInv'
  BY DEF SetupInv
<1>1. /\ program' = program /\ InSetup /\ group = 1 /\ item = 1 /\ undoing = FALSE
      /\ aborted = "no" /\ ~unprotected
  BY SetupEffects DEF SetupEffect, SetupInv, LifeTypeOK
<1>2. at \in 1 .. Len(Prog.setup) /\ Len(Prog.setup) \in Nat /\ program \in Names
  BY Tables DEF LifeTypeOK, Prog, Setup
<1>3. \A e : ~Leave(e)
  BY DEF Leave, InSetup
<1>4. at' = at + 1 /\ UNCHANGED <<undoing, group, item>>
  BY <1>3, Exit
<1>5. aborted' = "no"
  BY <1>1, SetupTypes
<1>6. ~unprotected'
  BY <1>1, <1>3
     DEF SetupAction, Perform, CreateNothing, Skip, GoOn, Refuse, Raise, LeaveEarly,
         Interrupt, history
<1>7. \A r \in Own' : /\ CanOpen(program, at, r)
                      /\ r \in excused' \/ Keeper(program, r) \in noted'
  BY SetupHolds
<1>8. ASSUME NEW k \in 1 .. at, Sure(Prog.setup[k])
      PROVE  Prog.setup[k].notes \in noted'
  <2>1. Step \in SetupStep /\ (Step.forgets # None => Step.notes = None)
    BY <1>2, Tables, WellMadePrograms
       DEF WellMade, GoodSetup, GoodStep, Step, Prog, Setup
  <2>2. CASE k = at
    <3>1. Sure(Step) /\ Step.notes # None /\ Step.notes = Prog.setup[k].notes
      BY <1>8, <2>2 DEF Sure, Step
    <3>2. Step.notes \in Assigned
      BY <2>1, <3>1 DEF Assigned, One
    <3> QED  BY <1>3, <3>1, <3>2
                DEF SetupAction, Perform, CreateNothing, Skip, GoOn, Refuse, Raise,
                    LeaveEarly, Interrupt, Sure
  <2>3. CASE k # at
    <3>1. Prog.setup[k].notes \in noted /\ Prog.setup[k].notes \notin {None, "audio"}
      BY <1>1, <1>2, <1>8, <2>3 DEF SetupInv, Sure
    <3> QED  BY <2>1, <3>1, SetupEffects DEF SetupEffect, SetupStep
  <2> QED  BY <2>2, <2>3
<1>9. at' - 1 = at /\ at' # 1
  BY <1>2, <1>4
<1> QED
  BY <1>1, <1>4, <1>5, <1>6, <1>7, <1>8, <1>9 DEF SetupInv, Prog

(* A step that leaves the setup for a cleanup finds a release for all it   *)
(* owns, and in the order it needs.                                        *)
LEMMA SetupKeepsLists ==
  ASSUME LifeTypeOK, SetupInv, SetupAction
  PROVE  Kept' /\ Ordered'
<1> SUFFICES ASSUME phase' = "cleanup" PROVE Kept' /\ Ordered'
  BY DEF Kept, Ordered
<1>1. /\ program' = program /\ InSetup /\ group = 1 /\ item = 1
      /\ LifeTypeOK'
      /\ at \in 1 .. Len(Prog.setup)
      /\ Len(Prog.setup) \in Nat
      /\ program \in Names
  BY SetupEffects, SetupTypeOK, Tables
     DEF SetupEffect, SetupInv, LifeTypeOK, Setup, Prog
<1>2. \A r \in Own' :
        /\ r \in Resources /\ CanOpen(program', at, r)
        /\ \/ r \in excused'
           \/ (Keeper(program', r) \in noted' /\ Keeper(program', Host(r)) \in noted')
  BY <1>1, SetupHolds
<1>3. CASE Leave("cleanup")
  <2>1. Releases' = Programs[program].cleanup /\ group' = 1 /\ item' = 1
    BY <1>1, <1>3 DEF Leave, Releases, Prog
  <2>2. GoodList(program, Programs[program].cleanup, Len(Setup(program)))
    BY <1>1, WellMadePrograms DEF WellMade
  <2>3. \A r \in Own' : CanOpen(program, Len(Setup(program)), r)
    BY <1>1, <1>2 DEF CanOpen, Setup, Prog
  <2> QED  BY <1>1, <1>2, <2>1, <2>2, <2>3, Entering DEF Setup, Prog
<1>4. CASE Leave("undo") /\ Undoes(Step) /\ open' = open
  <2>1. Releases' = Programs[program].undo /\ group' = 1 /\ item' = 1
    BY <1>1, <1>4 DEF Leave, Releases, Prog
  <2>2. GoodList(program, Programs[program].undo, at - 1)
    BY <1>1, <1>4, WellMadePrograms DEF WellMade, Step, Setup, Prog
  <2>3. Own' = Own
    BY <1>1, <1>4, SetupEffects DEF SetupEffect, Own, MayBeOpen, Inherited, Prog
  <2>4. \A r \in Own' : CanOpen(program, at - 1, r)
    BY <1>1, <2>3 DEF SetupInv
  <2> QED  BY <1>1, <1>2, <2>1, <2>2, <2>4, Entering
<1>5. CASE /\ at < Len(Prog.setup)
           /\ at' = at + 1
           /\ UNCHANGED <<phase, undoing, group, item>>
  BY <1>1, <1>5 DEF InSetup
<1>6. CASE Leave("nothing")
  BY <1>6 DEF Leave
<1> QED
  BY <1>3, <1>4, <1>5, <1>6, Exit

(* A step that leaves the setup for the end leaves nothing open, or leaves *)
(* outside the try.                                                        *)
LEMMA SetupKeepsDone ==
  ASSUME LifeTypeOK, SetupInv, SetupAction
  PROVE  DoneInv'
<1>1. /\ program' = program /\ InSetup /\ aborted' = "no"
  BY SetupEffects, SetupTypes DEF SetupEffect, SetupInv
<1>2. CASE phase' # "done"
  BY <1>1, <1>2 DEF DoneInv
<1>3. CASE phase' = "done"
  <2>1. unprotected' \/ (at = 1 /\ open' = open)
    BY <1>1, <1>3, Exit DEF Leave, InSetup
  <2>2. at = 1 /\ open' = open => Own' = {}
    BY <1>1, SetupEffects DEF SetupEffect, SetupInv, Own, MayBeOpen, Inherited, Prog
  <2> QED  BY <1>1, <2>1, <2>2 DEF DoneInv
<1> QED
  BY <1>2, <1>3

-----------------------------------------------------------------------------
(****************************************************************************)
(* The steps of the cleanup, and the theorems.                              *)
(****************************************************************************)
\* The actions of the cleanup.
CleanupAction == PassBy \/ Release \/ ReleaseRefused \/ ReleaseRaises

\* A cleanup step happens at a release of the list.
Here ==
  /\ phase = "cleanup" /\ group \in 1 .. Len(Releases) /\ Len(Releases) \in Nat
  /\ item \in 1 .. Len(ThisGroup.items) /\ Len(ThisGroup.items) \in Nat
  /\ NextItem \in Releasing
  /\ program' = program /\ undoing' = undoing /\ at' = at /\ noted' = noted
  /\ excused \subseteq excused'
  /\ unprotected' = unprotected

(* A cleanup step is at one of the releases of the program.                *)
LEMMA AtRelease ==
  ASSUME LifeTypeOK, CleanupAction
  PROVE  Here /\ Releases' = Releases
<1>1. /\ InCleanup
      /\ program' = program
      /\ undoing' = undoing
      /\ at' = at
      /\ noted' = noted
       /\ excused \subseteq excused' /\ unprotected' = unprotected
  BY DEF CleanupAction, PassBy, Release, ReleaseRefused, ReleaseRaises, Pass,
         history
<1>2. phase = "cleanup" /\ group \in 1 .. Len(Releases) /\ Len(Releases) \in Nat
  BY <1>1, Lists DEF InCleanup, LifeTypeOK
<1>3. ThisGroup.items \in Seq(Releasing) /\ Len(ThisGroup.items) \in Nat
  BY <1>2, Lists DEF ThisGroup
<1>4. item \in 1 .. Len(ThisGroup.items)
  BY <1>2, <1>3 DEF LifeTypeOK, ThisGroup
<1>5. NextItem \in Releasing
  BY <1>3, <1>4 DEF NextItem
<1> QED
  BY <1>1, <1>2, <1>3, <1>4, <1>5 DEF Here, Releases, Prog

(* What is pending after a release was pending before, and stays so unless *)
(* it was its turn.                                                        *)
LEMMA NextPending ==
  ASSUME Here, Pass, NEW g \in 1 .. Len(Releases),
         NEW i \in 1 .. Len(Releases[g].items)
  PROVE  /\ Pending(g, i)' => Pending(g, i)
         /\ Pending(g, i) => Pending(g, i)' \/ (g = group /\ i = item)
BY DEF Here, Pass, NextGroup, Pending, ThisGroup

(* What is pending after an exception was pending before, and stays so     *)
(* unless it was in the group that the exception left.                     *)
LEMMA SkippedPending ==
  ASSUME Here, NextGroup, NEW g \in 1 .. Len(Releases),
         NEW i \in 1 .. Len(Releases[g].items)
  PROVE  /\ Pending(g, i)' => Pending(g, i)
         /\ Pending(g, i) => Pending(g, i)' \/ (g = group /\ item <= i)
BY DEF Here, NextGroup, Pending, ThisGroup

(* The next release exists, or the cleanup is over.                        *)
LEMMA PlaceStaysTyped ==
  ASSUME LifeTypeOK, Here, Releases' = Releases, Pass \/ NextGroup
  PROVE  /\ group' \in 1 .. Len(Releases') + 1 /\ item' \in Nat \ {0}
         /\ group' <= Len(Releases') => item' <= Len(Releases'[group'].items)
<1>1. \A g \in 1 .. Len(Releases) : Len(Releases[g].items) \in Nat \ {0}
  BY Lists
<1>2. CASE Pass /\ item < Len(ThisGroup.items)
  BY <1>2 DEF Here, Pass, ThisGroup
<1>3. CASE NextGroup
  BY <1>1, <1>3 DEF Here, NextGroup
<1> QED
  BY <1>2, <1>3 DEF Pass

(* A release takes away what it releases and what lives in it, and brings  *)
(* nothing.                                                                *)
LEMMA ReleaseTakes ==
  ASSUME LifeTypeOK, Release
  PROVE  /\ Own' \subseteq Own \ Closed(NextItem.res)
         /\ open \ open' \subseteq Closed(NextItem.res)
<1>1. /\ program' = program
      /\ open' = open \ Closed(NextItem.res)
      /\ up' = (up /\ NextItem.res # "session")
  BY DEF Release
<1>2. NextItem.res = "mode" => up' = up /\ up
  BY <1>1 DEF Release, LifeTypeOK
<1>3. NextItem.res = "session" => "session" \notin open'
  BY <1>1 DEF Closed
<1>4. NextItem.res # "session" => up' = up
  BY <1>1 DEF LifeTypeOK
<1>5. "mode" \in Closed(NextItem.res) => NextItem.res = "mode"
  BY Naming
<1> QED
  BY <1>1, <1>2, <1>3, <1>4, <1>5 DEF Own, MayBeOpen, Inherited, Prog

(* Where a cleanup step leads to, and who owns what after it.              *)
LEMMA CleanupEffects ==
  ASSUME LifeTypeOK, CleanupAction
  PROVE  /\ Own' \subseteq Own /\ open' \subseteq open
         /\ \/ Pass
            \/ NextGroup /\ ThisGroup.onRaise # "ends" /\ NextItem.res \in excused'
            \/ phase' = "done" /\ ThisGroup.onRaise = "ends" /\ aborted' = "raise"
         /\ phase' = "cleanup" => 
              \/ NextItem.handle \notin noted
              \/ NextItem.res \in excused'
              \/ Own' \cap Closed(NextItem.res) = {}
<1>1. program' = program
  BY AtRelease DEF Here
<1>2. CASE PassBy
  BY <1>2 DEF PassBy, native, Own, MayBeOpen, Inherited, Prog
<1>3. CASE Release
  BY <1>3, ReleaseTakes DEF Release
<1>4. CASE ReleaseRefused
  BY <1>4 DEF ReleaseRefused, native, Own, MayBeOpen, Inherited, Prog
<1>5. CASE ReleaseRaises
  <2>1. Own' = Own /\ open' = open /\ NextItem.res \in excused'
    BY <1>5 DEF ReleaseRaises, native, Own, MayBeOpen, Inherited, Prog
  <2>2. CASE ThisGroup.onRaise = "ends"
    BY <1>5, <2>1, <2>2 DEF ReleaseRaises
  <2>3. CASE ThisGroup.onRaise # "ends"
    BY <1>5, <2>1, <2>3 DEF ReleaseRaises
  <2> QED  BY <2>2, <2>3
<1> QED
  BY <1>2, <1>3, <1>4, <1>5 DEF CleanupAction

(* A cleanup step keeps a pending release for all that is still owned.     *)
LEMMA CleanupKept ==
  ASSUME LifeTypeOK, Kept, CleanupAction
  PROVE  Kept'
<1> SUFFICES ASSUME phase' = "cleanup", NEW r \in Own', ~Excused(r)'
             PROVE  /\ Keeper(program', Host(r)) \in noted'
                    /\ \E g \in 1 .. Len(Releases') : \E i \in 1 .. Len(Releases'[g].items) :
                         /\ Pending(g, i)'
                         /\ Covers(Releases', g, i, Keeper(program', Host(r)), r)
  BY DEF Kept
<1>1. Here /\ Releases' = Releases
  BY AtRelease
<1>2. r \in Own /\ ~Excused(r)
  BY <1>1, CleanupEffects DEF Excused, Here
<1>3. Keeper(program, Host(r)) \in noted
  BY <1>1, <1>2 DEF Kept, Here
<1>4. PICK g \in 1 .. Len(Releases) : \E i \in 1 .. Len(Releases[g].items) :
        Pending(g, i) /\ Covers(Releases, g, i, Keeper(program, Host(r)), r)
  BY <1>1, <1>2 DEF Kept, Here
<1>5. PICK i \in 1 .. Len(Releases[g].items) :
        Pending(g, i) /\ Covers(Releases, g, i, Keeper(program, Host(r)), r)
  BY <1>4
<1>6. ~(g = group /\ i = item)
  <2> SUFFICES ASSUME g = group, i = item PROVE FALSE
    OBVIOUS
  <2>1. NextItem.handle \in noted /\ r \in Closed(NextItem.res)
    BY <1>3, <1>5 DEF Covers, NextItem, ThisGroup
  <2> QED  BY <2>1, CleanupEffects DEF Excused
<1>7. Pending(g, i)'
  <2>1. CASE Pass
    BY <1>1, <1>5, <1>6, <2>1, NextPending
  <2>2. CASE NextGroup /\ ThisGroup.onRaise # "ends"
    <3>1. Pending(g, i)' \/ (g = group /\ item < i)
      BY <1>1, <1>5, <1>6, <2>2, SkippedPending DEF Here
    <3>2. g = group => i = 1
      BY <1>5, <2>2 DEF Covers, Reached, ThisGroup
    <3> QED  BY <1>1, <3>1, <3>2 DEF Here
  <2> QED  BY <2>1, <2>2, CleanupEffects
<1> QED
  BY <1>1, <1>3, <1>5, <1>7 DEF Here

(* A cleanup step leaves no pending release before one that has to come    *)
(* first.                                                                  *)
LEMMA CleanupOrdered ==
  ASSUME LifeTypeOK, Ordered, CleanupAction
  PROVE  Ordered'
<1> SUFFICES ASSUME phase' = "cleanup",
                    NEW g \in 1 .. Len(Releases'), NEW i \in 1 .. Len(Releases'[g].items),
                    NEW d \in Inner(Releases'[g].items[i].res) \cap Own',
                    Pending(g, i)', ~Tried(d)'
             PROVE  /\ Keeper(program', d) \in noted'
                    /\ \E g2 \in 1 .. Len(Releases') : \E i2 \in 1 .. Len(Releases'[g2].items) :
                         /\ Pending(g2, i2)'
                         /\ Precedes(program', Releases', g2, i2, g, i, d)
  BY DEF Ordered
<1>1. Here /\ Releases' = Releases
  BY AtRelease
<1>2. d \in Inner(Releases[g].items[i].res) \cap Own /\ ~Tried(d) /\ d \notin excused'
  BY <1>1, CleanupEffects DEF Tried, Here
<1>3. Pending(g, i)
  BY <1>1, NextPending, SkippedPending, CleanupEffects
<1>4. Keeper(program, d) \in noted
  BY <1>1, <1>2, <1>3 DEF Ordered, Here
<1>5. PICK g2 \in 1 .. Len(Releases) : \E i2 \in 1 .. Len(Releases[g2].items) :
        Pending(g2, i2) /\ Precedes(program, Releases, g2, i2, g, i, d)
  BY <1>1, <1>2, <1>3 DEF Ordered, Here
<1>6. PICK i2 \in 1 .. Len(Releases[g2].items) :
        Pending(g2, i2) /\ Precedes(program, Releases, g2, i2, g, i, d)
  BY <1>5
<1>7. ~(g2 = group /\ i2 = item)
  <2> SUFFICES ASSUME g2 = group, i2 = item PROVE FALSE
    OBVIOUS
  <2>1. NextItem.handle \in noted /\ NextItem.res = d
    BY <1>4, <1>6 DEF Precedes, NextItem, ThisGroup
  <2>2. d \in Closed(d)
    BY <1>2, OwnIsTyped, Naming
  <2> QED  BY <1>2, <2>1, <2>2, CleanupEffects
<1>8. Pending(g2, i2)'
  <2>1. CASE Pass
    BY <1>1, <1>6, <1>7, <2>1, NextPending
  <2>2. CASE NextGroup /\ ThisGroup.onRaise # "ends" /\ NextItem.res \in excused'
    <3> SUFFICES ASSUME ~Pending(g2, i2)' PROVE FALSE
      OBVIOUS
    <3>1. g2 = group /\ item < i2
      BY <1>1, <1>6, <1>7, <2>2, SkippedPending DEF Here
    <3>2. d \in Streams /\ NextItem.res \in Streams
      BY <1>1, <1>6, <2>2, <3>1
         DEF Precedes, Sheltered, Reached, Here, NextItem, ThisGroup
    <3> QED  BY <2>2, <3>2 DEF Tried
  <2> QED  BY <2>1, <2>2, CleanupEffects
<1> QED
  BY <1>1, <1>4, <1>6, <1>8 DEF Here

(* A cleanup step keeps the types.                                         *)
LEMMA CleanupTypeOK ==
  ASSUME LifeTypeOK, CleanupAction
  PROVE  LifeTypeOK'
<1>1. Here /\ Releases' = Releases
  BY AtRelease
<1>2. /\ open' \subseteq Resources /\ noted' \subseteq Handles /\ Always \in noted'
      /\ program' \in Names /\ at' \in 1 .. Len(Prog'.setup) /\ undoing' \in BOOLEAN
      /\ unprotected' \in BOOLEAN
  BY <1>1, CleanupEffects, Zenon DEF Here, LifeTypeOK, Prog
<1>3. NextItem.res \in Resources /\ NextItem.watched \in BOOLEAN
  BY <1>1 DEF Here, Releasing
<1>4. excused' \subseteq Resources
  BY <1>3
     DEF LifeTypeOK, CleanupAction, PassBy, Release, ReleaseRefused, ReleaseRaises,
         history
<1>5. up' \in BOOLEAN /\ nullMedia' \in BOOLEAN
  BY DEF LifeTypeOK, CleanupAction, PassBy, Release, ReleaseRefused, ReleaseRaises,
         native
<1>6. failed' \in BOOLEAN
  BY Zenon, <1>3
     DEF LifeTypeOK, CleanupAction, PassBy, Release, ReleaseRefused, ReleaseRaises
<1>7. phase' \in {"cleanup", "done"} /\ aborted' \in {"no", "raise", "interrupt"}
  BY <1>1
     DEF LifeTypeOK, Here, CleanupAction, PassBy, Release, ReleaseRefused,
         ReleaseRaises, Pass, history
<1>8. /\ group' \in 1 .. Len(Releases') + 1 /\ item' \in Nat \ {0}
      /\ phase' = "cleanup" /\ group' <= Len(Releases') =>
             item' <= Len(Releases'[group'].items)
  <2>1. CASE Pass \/ NextGroup
    BY <1>1, <2>1, PlaceStaysTyped
  <2>2. CASE UNCHANGED <<group, item>> /\ phase' = "done"
    BY <1>1, <2>2 DEF LifeTypeOK
  <2> QED  BY <2>1, <2>2
              DEF CleanupAction, PassBy, Release, ReleaseRefused, ReleaseRaises
<1> QED
  BY <1>2, <1>4, <1>5, <1>6, <1>7, <1>8 DEF LifeTypeOK

(* A cleanup step that ends the program is an exception of a program that  *)
(* is not shielded.                                                        *)
LEMMA CleanupDone ==
  ASSUME LifeTypeOK, DoneInv, CleanupAction
  PROVE  DoneInv'
<1>1. Here /\ Releases' = Releases
  BY AtRelease
<1>2. WellMade(program)
  BY WellMadePrograms DEF LifeTypeOK
<1>3. program \in Shielded => ThisGroup.onRaise # "ends"
  BY <1>1, <1>2 DEF WellMade, ListShape, Here, ThisGroup, Releases, Prog
<1>4. aborted' # aborted => ThisGroup.onRaise = "ends"
  BY DEF CleanupAction, PassBy, Release, ReleaseRefused, ReleaseRaises, history
<1>5. phase' = "done" => aborted' = "raise"
  BY <1>1
     DEF Here, CleanupAction, PassBy, Release, ReleaseRefused, ReleaseRaises, Pass
<1> QED
  BY <1>1, <1>3, <1>4, <1>5 DEF DoneInv, Here

-----------------------------------------------------------------------------

(* The session connecting gives the program the motion mode, for which it  *)
(* has a release already.                                                  *)
LEMMA UpKeeps ==
  ASSUME LifeTypeOK, SetupInv, Kept, Ordered, DoneInv, SessionUp
  PROVE  LifeTypeOK' /\ SetupInv' /\ Kept' /\ Ordered' /\ DoneInv'
<1>1. /\ UNCHANGED <<program, phase, at, undoing, group, item, noted, excused>>
      /\ UNCHANGED <<aborted, unprotected, nullMedia, failed>>
      /\ "session" \in open /\ ~up /\ up' = TRUE
      /\ open' = open \cup (IF Prog.restores THEN {"mode"} ELSE {})
  BY DEF SessionUp, place, history
<1>2. Own' = Own /\ Releases' = Releases /\ Prog' = Prog /\ Step' = Step
  BY <1>1 DEF Own, MayBeOpen, Inherited, Releases, Prog, Step
<1>3. LifeTypeOK'
  <2>1. open' \subseteq Resources
    BY <1>1 DEF LifeTypeOK, Resources
  <2> QED  BY <1>1, <1>2, <2>1 DEF LifeTypeOK
<1>4. SetupInv'
  BY <1>1, <1>2 DEF SetupInv, InSetup
<1>5. Kept'
  BY <1>1, <1>2 DEF Kept, Excused, Pending
<1>6. Ordered'
  BY <1>1, <1>2 DEF Ordered, Tried, Pending
<1>7. DoneInv'
  BY <1>1, <1>2 DEF DoneInv, Excused
<1> QED
  BY <1>3, <1>4, <1>5, <1>6, <1>7

\* The steps after which a cleanup is over.
Ending == InterruptCleanup \/ End

(* The end of the cleanup keeps the invariant: no release is pending any   *)
(* more.                                                                   *)
LEMMA EndingKeeps ==
  ASSUME LifeTypeOK, Kept, DoneInv, Ending
  PROVE  LifeTypeOK' /\ SetupInv' /\ Kept' /\ Ordered' /\ DoneInv'
<1>1. /\ phase = "cleanup" /\ phase' = "done"
      /\ UNCHANGED <<program, at, undoing, group, item, open, noted>>
      /\ UNCHANGED <<up, nullMedia, excused, unprotected>>
  BY DEF Ending, InterruptCleanup, End, native, history
<1>2. Own' = Own /\ Releases' = Releases /\ Prog' = Prog
  BY <1>1 DEF Own, MayBeOpen, Inherited, Releases, Prog
<1>3. LifeTypeOK'
  <2>1. failed' \in BOOLEAN
    <3>1. Prog.reviews \in BOOLEAN
      BY WellMadePrograms DEF WellMade, LifeTypeOK, Prog
    <3> QED  BY <3>1, Zenon DEF Ending, InterruptCleanup, End, LifeTypeOK
  <2>2. aborted' \in {"no", "raise", "interrupt"}
    BY DEF Ending, InterruptCleanup, End, LifeTypeOK, history
  <2> QED  BY <1>1, <1>2, <2>1, <2>2 DEF LifeTypeOK
<1>4. SetupInv' /\ Kept' /\ Ordered'
  BY <1>1 DEF SetupInv, InSetup, Kept, Ordered
<1>5. DoneInv'
  <2>1. CASE InterruptCleanup
    BY <1>1, <2>1 DEF InterruptCleanup, DoneInv
  <2>2. CASE End
    <3>1. aborted' = aborted /\ \A r \in Own : Excused(r)
      <4>1. \A g \in 1 .. Len(Releases) : \A i \in 1 .. Len(Releases[g].items) :
              ~Pending(g, i)
        BY <2>2, Lists DEF End, Pending, LifeTypeOK
      <4> QED  BY <1>1, <2>2, <4>1 DEF Kept, End, history
    <3> QED  BY <1>1, <1>2, <3>1 DEF DoneInv, Excused
  <2> QED  BY <2>1, <2>2 DEF Ending
<1> QED
  BY <1>3, <1>4, <1>5

-----------------------------------------------------------------------------

(* A failure is not forgotten.                                             *)
LEMMA FailureStays ==
  ASSUME LifeTypeOK, Next, failed
  PROVE  failed'
BY Zenon
   DEF Next, Perform, CreateNothing, Skip, GoOn, Refuse, Raise, LeaveEarly,
       Interrupt,
       SessionUp, PassBy, Release, ReleaseRefused, ReleaseRaises, InterruptCleanup, End

(* A resource that is vouched for and was not taken back is a failure.     *)
LEMMA VouchExcused ==
  ASSUME LifeTypeOK, VouchInv, Next, NEW o \in excused',
         Closed(o) \cap Vouched(program) # {}
  PROVE  failed'
<1>1. Vouched(program) # {} /\ WellMade(program)
  BY WellMadePrograms DEF LifeTypeOK
<1>2. CASE o \in excused
  BY <1>2, FailureStays DEF VouchInv
<1>3. CASE o \notin excused
  <2>1. CASE GoOn
    <3>1. o = Step.closes /\ Step.refused \in {"tolerated", "marked", "ignored"}
      BY <1>3, <2>1 DEF GoOn, One
    <3>2. Closed(Step.closes) \cap Vouched(program) = {}
      BY <1>1, <2>1, <3>1
         DEF WellMade, GoodVouch, LifeTypeOK, GoOn, Step, Prog, Setup
    <3> QED  BY <3>1, <3>2
  <2>2. CASE Refuse \/ Raise
    BY <2>2 DEF Refuse, Raise
  <2>3. CASE Interrupt
    BY <1>1, <2>3 DEF Interrupt, WellMade, GoodVouch, Prog
  <2>4. CASE ReleaseRefused \/ ReleaseRaises
    <3>1. Here /\ o = NextItem.res
      BY <1>3, <2>4, AtRelease DEF CleanupAction, ReleaseRefused, ReleaseRaises
    <3>2. NextItem.watched
      BY <1>1, <3>1
         DEF WellMade, GoodVouch, Here, NextItem, ThisGroup, Releases, Prog
    <3> QED  BY <2>4, <3>2 DEF ReleaseRefused, ReleaseRaises
  <2> QED
    BY <1>3, <2>1, <2>2, <2>3, <2>4
       DEF Next, Perform, CreateNothing, Skip, LeaveEarly, SessionUp, PassBy, Release,
           InterruptCleanup, End, history
<1> QED
  BY <1>2, <1>3

(* A cleanup that was cut short is a failure.                              *)
LEMMA VouchAborted ==
  ASSUME LifeTypeOK, VouchInv, Next, Vouched(program) # {},
         unprotected' \/ aborted' # "no"
  PROVE  failed'
<1>1. WellMade(program) /\ aborted \in {"no", "raise", "interrupt"}
  BY WellMadePrograms DEF LifeTypeOK
<1>2. CASE unprotected \/ aborted # "no"
  BY <1>2, FailureStays DEF VouchInv
<1>3. CASE ~unprotected /\ aborted = "no"
  <2>1. CASE Raise \/ InterruptCleanup
    BY <2>1 DEF Raise, InterruptCleanup
  <2>2. CASE Interrupt
    BY <1>1, <2>2 DEF Interrupt, WellMade, GoodVouch, Prog
  <2>3. CASE ReleaseRaises
    BY <1>3, <2>3 DEF ReleaseRaises
  <2> QED
    BY <1>3, <2>1, <2>2, <2>3
       DEF Next, Perform, CreateNothing, Skip, GoOn, Refuse, LeaveEarly, SessionUp,
           PassBy, Release, ReleaseRefused, End, history
<1> QED
  BY <1>2, <1>3

(* The release script leaves its setup in success only with the mode given *)
(* back.                                                                   *)
LEMMA HandsOver ==
  ASSUME LifeTypeOK, VouchInv, Next, program = "release", "mode" \in open', ~failed'
  PROVE  InSetup'
<1>1. WellMade(program) /\ at \in 1 .. Len(Prog.setup) /\ Len(Prog.setup) \in Nat
  BY WellMadePrograms, Tables DEF LifeTypeOK, Setup, Prog
<1>2. ~failed
  BY FailureStays
<1>3. CASE InSetup
  <2>1. CASE Perform \/ CreateNothing \/ Skip \/ GoOn
    <3>1. at < Len(Prog.setup) => InSetup'
      BY <1>1, <1>3, <2>1 DEF Perform, CreateNothing, Skip, GoOn, Advance, InSetup
    <3>2. CASE at = Len(Prog.setup)
      <4>1. /\ Step.closes = "mode"
            /\ Step.notes = None
            /\ ~Step.optional
            /\ Step.refused \in Exits
        BY <1>1, <3>2 DEF WellMade, GoodHandOver, Step, Prog, Setup
      <4> QED
        BY <2>1, <4>1
           DEF Perform, CreateNothing, Skip, GoOn, Exits, Effect, One, None
    <3> QED  BY <1>1, <3>1, <3>2
  <2>2. CASE Refuse \/ Raise
    BY <2>2 DEF Refuse, Raise
  <2>3. CASE LeaveEarly \/ Interrupt
    BY <1>1, <2>3
       DEF LeaveEarly, Interrupt, WellMade, GoodHandOver, Step, Prog, Setup
  <2>4. CASE SessionUp
    BY <1>3, <2>4 DEF SessionUp, place, InSetup
  <2> QED
    BY <1>3, <2>1, <2>2, <2>3, <2>4
       DEF Next, PassBy, Release, ReleaseRefused, ReleaseRaises, InterruptCleanup, End,
           InCleanup, InSetup
<1>4. CASE ~InSetup
  <2>1. "mode" \notin open
    BY <1>2, <1>4 DEF VouchInv
  <2>2. open' \subseteq open
    <3>1. CASE CleanupAction
      BY <3>1, CleanupEffects
    <3>2. CASE Ending
      BY <3>2 DEF Ending, InterruptCleanup, End, native
    <3>3. CASE SessionUp
      BY <1>1, <3>3 DEF SessionUp, WellMade, GoodHandOver, Prog
    <3> QED
      BY <1>4, <3>1, <3>2, <3>3
         DEF Next, CleanupAction, Ending, Perform, CreateNothing, Skip, GoOn, Refuse, Raise,
             LeaveEarly, Interrupt
  <2> QED  BY <2>1, <2>2
<1> QED
  BY <1>3, <1>4

(* Every step keeps what exit code 0 stands for.                           *)
LEMMA NextVouch ==
  ASSUME LifeTypeOK, VouchInv, Next
  PROVE  VouchInv'
<1>1. program' = program
  BY DEF Next, Perform, CreateNothing, Skip, GoOn, Refuse, Raise, LeaveEarly,
         Interrupt,
         SessionUp, PassBy, Release, ReleaseRefused, ReleaseRaises, InterruptCleanup, End
<1> QED
  BY <1>1, VouchExcused, VouchAborted, HandsOver DEF VouchInv

-----------------------------------------------------------------------------

(* A program begins with nothing open and its first step ahead.            *)
LEMMA InitLife == Init => LifeIInv
<1> SUFFICES ASSUME Init PROVE LifeIInv
  OBVIOUS
<1>1. /\ program \in Names
      /\ Len(Prog.setup) \in Nat \ {0}
      /\ Len(Releases) \in Nat
      /\ undoing \in BOOLEAN
  BY Tables, ListOf DEF Init, Setup, Prog, Releases
<1>2. LifeTypeOK
  <2>1. /\ group \in 1 .. Len(Releases) + 1
        /\ item \in Nat \ {0}
        /\ at \in 1 .. Len(Prog.setup)
    BY <1>1 DEF Init
  <2>2. /\ open \subseteq Resources
        /\ Always \in noted
        /\ noted \subseteq Handles
        /\ excused \subseteq Resources
    BY DEF Init, Inherited, Resources, Handles
  <2>3. /\ up \in BOOLEAN
        /\ nullMedia \in BOOLEAN
        /\ failed \in BOOLEAN
        /\ unprotected \in BOOLEAN
        /\ aborted \in {"no", "raise", "interrupt"} /\ phase = "setup"
    BY Zenon DEF Init
  <2> QED  BY <1>1, <2>1, <2>2, <2>3 DEF LifeTypeOK
<1>3. Own = {}
  BY DEF Init, Own, MayBeOpen, Inherited
<1>4. SetupInv /\ Kept /\ Ordered /\ DoneInv
  BY <1>3 DEF Init, SetupInv, Kept, Ordered, DoneInv
<1>5. VouchInv
  BY DEF Init, VouchInv, InSetup
<1> QED
  BY <1>2, <1>4, <1>5 DEF LifeIInv

(* Every step of the setup, of the cleanup and of native code preserves    *)
(* the invariant.                                                          *)
LEMMA NextLife == LifeIInv /\ [Next]_vars => LifeIInv'
<1> SUFFICES ASSUME LifeIInv, [Next]_vars PROVE LifeIInv'
  OBVIOUS
<1> USE DEF LifeIInv
<1>1. CASE SetupAction
  <2>1. LifeTypeOK' /\ SetupInv' /\ Kept' /\ Ordered' /\ DoneInv'
    BY <1>1, SetupTypeOK, SetupKeepsSetup, SetupKeepsLists, SetupKeepsDone
  <2> QED  BY <1>1, <2>1, NextVouch DEF Next, SetupAction
<1>2. CASE CleanupAction
  <2>1. SetupInv'
    BY <1>2, AtRelease DEF Here, SetupInv, InSetup, CleanupAction, PassBy, Release,
                           ReleaseRefused, ReleaseRaises, Pass
  <2> QED
    BY <1>2, <2>1, CleanupTypeOK, CleanupKept, CleanupOrdered, CleanupDone,
       NextVouch
       DEF Next, CleanupAction
<1>3. CASE SessionUp
  BY <1>3, UpKeeps, NextVouch DEF Next
<1>4. CASE Ending
  BY <1>4, EndingKeeps, NextVouch DEF Next, Ending
<1>5. CASE UNCHANGED vars
  BY <1>5
     DEF vars, place, native, history, LifeTypeOK, SetupInv, Kept, Ordered, DoneInv,
         VouchInv,
              InSetup, Own, MayBeOpen, Inherited, Releases, Prog, Excused, Tried, Pending
<1> QED
  BY <1>1, <1>2, <1>3, <1>4, <1>5 DEF Next, SetupAction, CleanupAction, Ending

(* The inductive invariant of the programs.                                *)
THEOREM LifeInvariance == Spec => []LifeIInv
BY InitLife, NextLife, PTL DEF Spec

(* Wherever its try is left, every program has given back what it opened,  *)
(* except what native code did not take and what an exception made an      *)
(* unshielded program skip.                                                *)
THEOREM ProgramsCleanUp == Spec => []NothingLeftOpen
<1>1. LifeIInv => NothingLeftOpen
  BY DEF LifeIInv, DoneInv, NothingLeftOpen, Own, MayBeOpen, Excused, LifeTypeOK
<1> QED
  BY <1>1, LifeInvariance, PTL

(* Exit code 0 of a program that vouches for something is true.            *)
THEOREM ZeroVouches == Spec => []SuccessMeansClosed
<1>1. LifeIInv => SuccessMeansClosed
  <2> SUFFICES ASSUME LifeIInv, phase = "done", ~failed, NEW r \in open,
                      r \in Vouched(program)
               PROVE  FALSE
    BY DEF SuccessMeansClosed
  <2>1. CASE r \in Inherited
    BY <2>1 DEF LifeIInv, VouchInv, Inherited, InSetup
  <2>2. CASE r \notin Inherited
    <3>1. r \in Own /\ aborted = "no" /\ ~unprotected
      BY <2>2 DEF LifeIInv, VouchInv, Own, MayBeOpen
    <3>2. PICK o \in excused : r \in Closed(o)
      BY <3>1 DEF LifeIInv, DoneInv, Excused
    <3> QED  BY <3>2 DEF LifeIInv, VouchInv
  <2> QED  BY <2>1, <2>2
<1> QED
  BY <1>1, LifeInvariance, PTL

(* A step that closes something finds closed, or tried, what lives in it.  *)
LEMMA NextInnerFirst ==
  LifeIInv /\ [Next]_vars =>
    [\A r \in open \ open' : \A d \in (Inner(r) \cap open) \ Inherited : Tried(d)]_vars
<1> SUFFICES ASSUME LifeIInv, Next, NEW r \in open \ open',
                    NEW d \in (Inner(r) \cap open) \ Inherited
             PROVE  Tried(d)
  OBVIOUS
<1> USE DEF LifeIInv
<1>1. CASE Perform
  <2>1. Step \in SetupStep
    BY <1>1, Tables DEF LifeTypeOK, Step, Prog, Setup
  <2>2. r = Step.closes
    BY <1>1 DEF Perform, Effect, One
  <2> QED  BY <2>1, <2>2 DEF SetupStep, Inner, None
<1>2. CASE Interrupt
  <2>1. Step \in SetupStep
    BY <1>2, Tables DEF LifeTypeOK, Step, Prog, Setup, Interrupt
  <2>2. r = Step.closes
    BY <1>2 DEF Interrupt, Effect, One
  <2> QED  BY <2>1, <2>2 DEF SetupStep, Inner, None
<1>3. CASE Release
  <2>1. Here
    BY <1>3, AtRelease DEF CleanupAction
  <2>2. r \in Closed(NextItem.res)
    BY <1>3, ReleaseTakes
  <2>3. r = NextItem.res
    BY <2>2 DEF Closed, Inner, Streams
  <2>4. d \in Inner(Releases[group].items[item].res) \cap Own /\ Pending(group, item)
    BY <2>1, <2>3 DEF NextItem, ThisGroup, Own, MayBeOpen, Pending, Here
  <2>5. ASSUME NEW g2 \in 1 .. Len(Releases),
               NEW i2 \in 1 .. Len(Releases[g2].items),
               Pending(g2, i2), Precedes(program, Releases, g2, i2, group, item, d)
        PROVE  FALSE
    BY <2>1, <2>5 DEF Pending, Precedes, Before, Here
  <2> QED  BY <2>1, <2>4, <2>5 DEF Ordered, Here, ThisGroup
<1> QED
  BY <1>1, <1>2, <1>3
     DEF Next, CreateNothing, Skip, GoOn, Refuse, Raise, LeaveEarly, SessionUp, PassBy,
         ReleaseRefused, ReleaseRaises, InterruptCleanup, End, native

(* Every program releases what lives in something before it.               *)
THEOREM ReleasesAreOrdered == Spec => InnerFirst
BY LifeInvariance, NextInnerFirst, PTL DEF Spec, InnerFirst

-----------------------------------------------------------------------------
(****************************************************************************)
(* The wait for a state.                                                    *)
(****************************************************************************)
(* What has been overlooked and what is left of the sleep make up one      *)
(* sleep; a wait that is about to sleep has overlooked nothing.            *)
StateOverlooked ==
  /\ state = "other" => held = 0
  /\ pc = "check" => held <= Cap
  /\ pc = "clear" => held = 0
  /\ pc = "wait" => held + timer <= Cap

StopOverlooked ==
  /\ ~stop => heard = 0
  /\ pc = "check" => heard <= Cap
  /\ pc = "clear" => heard = 0
  /\ pc = "wait" => heard + timer <= Cap

WaitIInv ==
  /\ WaitTypeOK
  /\ pc = "clear" => clock < Timeout
  /\ pc = "wait" => clock + timer <= Timeout + LeastSleep
  /\ StateOverlooked
  /\ ChecksStop => StopOverlooked

(* Before the deadline a sleep is no longer than the cap, and passes the   *)
(* deadline by the least sleep at most.                                    *)
LEMMA SleepBounds ==
  ASSUME WaitTypeOK, clock < Timeout, NEW s \in Sleeps
  PROVE  s \in Nat /\ s <= Cap /\ clock + s <= Timeout + LeastSleep
<1>1. Capped \in Nat /\ Capped <= Cap /\ clock + Capped <= Timeout
  BY ConstantsAssumption DEF WaitTypeOK, Capped
<1> QED BY <1>1, ConstantsAssumption DEF WaitTypeOK, Sleeps

(* A sleep that begins with nothing overlooked makes up the sum alone.     *)
LEMMA NothingOverlooked ==
  ASSUME NEW n \in Nat, NEW m \in Nat, n <= m
  PROVE  0 + n <= m
OBVIOUS

(* A wait begins with nothing overlooked.                                  *)
LEMMA WaitInitInvariant == WaitInit => WaitIInv
<1> SUFFICES ASSUME WaitInit PROVE WaitIInv
  OBVIOUS
<1>1. WaitTypeOK
  <2>1. due \in BOOLEAN /\ event \in BOOLEAN /\ stop \in BOOLEAN
    BY Zenon DEF WaitInit
  <2>2. clock \in 0 .. Timeout + LeastSleep /\ changes \in 0 .. MaxChanges
    BY ConstantsAssumption DEF WaitInit
  <2>3. timer \in Nat /\ held \in Nat /\ heard \in Nat
    BY DEF WaitInit
  <2>4. state \in States /\ pc \in Pc
    BY Zenon DEF WaitInit, Pc
  <2>5. QED
    BY <2>1, <2>2, <2>3, <2>4 DEF WaitTypeOK
<1>2. QED
  BY <1>1, ConstantsAssumption DEF WaitInit, WaitIInv, StateOverlooked, StopOverlooked

(* Every step of the waiter, the session and time preserves the invariant. *)
LEMMA WaitNextInvariant == WaitIInv /\ [WaitNext]_waitVars => WaitIInv'
<1> SUFFICES ASSUME WaitIInv, [WaitNext]_waitVars PROVE WaitIInv'
  OBVIOUS
<1>0. ASSUME clock < Timeout, NEW s \in Sleeps
      PROVE  s \in Nat /\ s <= Cap /\ clock + s <= Timeout + LeastSleep
  BY <1>0, SleepBounds DEF WaitIInv
<1> USE ConstantsAssumption
       DEF WaitIInv, WaitTypeOK, States, Pc, Waiting, StateOverlooked, StopOverlooked
<1>1. CASE Change
  BY <1>1 DEF Change
<1>2. CASE OnConnect
  BY <1>2 DEF OnConnect
<1>3. CASE OnSignal
  BY <1>3 DEF OnSignal
<1>4. CASE Begin
  BY <1>4 DEF Begin
<1>5. CASE CheckState
  BY <1>5 DEF CheckState
<1>6. CASE Clear
  <2>0. clock < Timeout /\ clock' = clock /\ timer' \in Sleeps
    BY <1>6 DEF Clear
  <2>1. timer' \in Nat /\ timer' <= Cap /\ clock' + timer' <= Timeout + LeastSleep
    BY <1>0, <2>0
  <2>2. held' = 0 /\ (ChecksStop => heard' = 0) /\ (state' = "other" => held' = 0)
    BY <1>6 DEF Clear
  <2>3. WaitTypeOK'
    BY <1>6, <2>1 DEF Clear
  <2>4. pc' = "wait" /\ (ChecksStop => (~stop' => heard' = 0))
    BY <1>6 DEF Clear
  <2>5. 0 + timer' <= Cap'
    BY <2>1, NothingOverlooked
  <2>6. StateOverlooked'
    <3>1. held' = 0 /\ held' + timer' <= Cap'
      BY <2>2, <2>5
    <3>2. QED
      BY <2>2, <2>4, <3>1 DEF StateOverlooked
  <2>7. ASSUME ChecksStop PROVE StopOverlooked'
    <3>1. heard' = 0
      BY <2>2, <2>7, Zenon
    <3>2. heard' + timer' <= Cap'
      BY <2>5, <3>1
    <3>3. QED
      BY <2>4, <2>7, <3>1, <3>2 DEF StopOverlooked
  <2>8. QED
    BY <2>1, <2>3, <2>4, <2>6, <2>7
<1>7. CASE Wake
  BY <1>7 DEF Wake
<1>8. CASE Tick
  BY <1>8 DEF Tick
<1>9. CASE UNCHANGED waitVars
  BY <1>9 DEF waitVars
<1>10. QED
  BY <1>1, <1>2, <1>3, <1>4, <1>5, <1>6, <1>7, <1>8, <1>9 DEF WaitNext

(* The inductive invariant of the wait.                                    *)
THEOREM WaitInvariance == WaitSpec => []WaitIInv
BY WaitInitInvariant, WaitNextInvariant, PTL DEF WaitSpec

(* The wait keeps the types of its state: the clock passes the deadline by *)
(* the least sleep at most.                                                *)
THEOREM WaitTypeCorrect == WaitSpec => []WaitTypeOK
<1>1. WaitIInv => WaitTypeOK
  BY DEF WaitIInv
<1>2. QED
  BY <1>1, WaitInvariance, PTL

(* For every timeout and every cap, a wait overlooks the state it waits    *)
(* for, and the stop flag of a program that looks at it, for at most one   *)
(* sleep.                                                                  *)
THEOREM LostWakeUpCostsOneSleep == WaitSpec => []OverlooksAtMostOneSleep
<1>1. WaitIInv => OverlooksAtMostOneSleep
  BY ConstantsAssumption
     DEF WaitIInv, WaitTypeOK, OverlooksAtMostOneSleep, StateOverlooked, StopOverlooked, Waiting
<1>2. QED
  BY <1>1, WaitInvariance, PTL

-----------------------------------------------------------------------------
(* The refinement.                                                         *)

(* A program that has begun no wait has no answer.                         *)
LEMMA InitImplements == WaitInit => C!Init
BY DEF WaitInit, C!Init, States, C!States, Waiting

(* A step of the wait is a step of the contract: it answers with what the  *)
(* session's state is at that moment, the deadline passed or not.          *)
LEMMA NextImplements == WaitTypeOK /\ [WaitNext]_waitVars => [C!Next]_(C!vars)
<1> SUFFICES ASSUME WaitTypeOK, [WaitNext]_waitVars PROVE [C!Next]_(C!vars)
  OBVIOUS
<1> USE DEF WaitTypeOK, States, Pc, Waiting, C!Next, C!vars, C!States
<1>1. CASE Change
  BY <1>1 DEF Change, C!Change
<1>2. CASE OnConnect
  BY <1>2 DEF OnConnect
<1>3. CASE OnSignal
  BY <1>3 DEF OnSignal
<1>4. CASE Begin
  BY <1>4 DEF Begin, C!Begin
<1>5. CASE CheckState
  BY <1>5 DEF CheckState, C!Answer
<1>6. CASE Clear
  BY <1>6 DEF Clear
<1>7. CASE Wake
  BY <1>7 DEF Wake
<1>8. CASE Tick
  BY <1>8 DEF Tick
<1>9. CASE UNCHANGED waitVars
  BY <1>9 DEF waitVars
<1>10. QED
  BY <1>1, <1>2, <1>3, <1>4, <1>5, <1>6, <1>7, <1>8, <1>9 DEF WaitNext

(* The wait implements the safety part of the contract that the policy     *)
(* console relies on: it never reports a timeout of what has happened.     *)
THEOREM ImplementsWait == WaitSpec => C!Init /\ [][C!Next]_(C!vars)
BY InitImplements, NextImplements, WaitTypeCorrect, PTL DEF WaitSpec
=============================================================================
