--------------------------- MODULE OnboardingProofs ---------------------------
(***************************************************************************)
(* Proofs about Onboarding, for any commands, files, requests and peers.   *)
(*                                                                         *)
(* EgressInv says what an `up` in the exit-node loop knows of its target,  *)
(* WriterInv what a command that writes knows of profiles.yaml while       *)
(* nobody races it, TextInv which texts the commands hold, and LoadsInv    *)
(* which of them load.  The loop of `init` over the accounts is a          *)
(* recursive function; what holds after each account is proved by a least  *)
(* counterexample (StarterLoop, LoopStarts, LoopKeeps).                    *)
(***************************************************************************)
EXTENDS Onboarding, TLAPS, WellFoundedInduction

Places == Writing \cup {"idle", "up", "exit", "done"}
Stages == {"off", "set", "look", "again", "failed", "applied", "refused",
           "timedOut"}

\* No variant of the name was there.
NoVariant(name, peers) ==
    name \notin peers /\ \A h \in peers : ~IsVariant(Base(name), h)

\* What an `up` knows of the node it is after.
EgressOf(c) ==
    stage[c] # "off" =>
      /\ step[c] \in {"exit", "done"}
      /\ configured[c] = profile[c].exit
      /\ configured[c] \in Seq(STRING)
      /\ \/ target[c] = configured[c]
         \/ /\ target[c] \in saw[c] /\ configured[c] \notin saw[c]
            /\ IsVariant(Base(configured[c]), target[c])
      /\ stage[c] \in {"set", "look"} =>
           saw[c] = None /\ target[c] = configured[c]
      /\ stage[c] \in {"again", "failed", "refused"}
             /\ target[c] = configured[c] /\ saw[c] # None =>
           \/ configured[c] \in saw[c]
           \/ NoVariant(configured[c], saw[c])

EgressInv ==
    /\ step \in [Commands -> Places]
    /\ stage \in [Commands -> Stages]
    /\ netmap \subseteq Hosts
    /\ DOMAIN profile = Commands /\ DOMAIN configured = Commands
    /\ DOMAIN target = Commands /\ DOMAIN saw = Commands
    /\ \A c \in Commands : saw[c] = None \/ saw[c] \subseteq Hosts
    /\ \A c \in Commands : stage[c] = "off" => saw[c] = None
    /\ \A c \in Commands : EgressOf(c)
-----------------------------------------------------------------------------
\* Natural numbers have a least one.
LEMMA LeastIndex ==
    ASSUME NEW T, T \subseteq Nat, T # {}
    PROVE  \E i \in T : \A j \in T : i <= j
<1> DEFINE R == OpToRel(<, Nat)
<1>1. IsWellFoundedOn(R, Nat)
  BY NatLessThanWellFounded
<1>2. PICK i \in T : \A j \in T : <<j, i>> \notin R
  BY <1>1, WFMin
<1>3. ASSUME NEW j \in T, j < i PROVE FALSE
  BY <1>2, <1>3 DEF OpToRel
<1>4. \A j \in T : i <= j
  <2> HIDE DEF R
  <2> QED BY <1>3
<1> QED BY <1>4

\* Among the variants there is one that sorted() puts first.
LEMMA FirstVariant ==
    ASSUME NEW base, NEW V, V # {}, \A h \in V : IsVariant(base, h)
    PROVE  \E h \in V : \A g \in V : Before(base, h, g)
<1>1. CASE base \in V
  BY <1>1 DEF Before
<1>2. CASE base \notin V
  <2> DEFINE T == {i \in DOMAIN Numerals : Append(base, Numerals[i]) \in V}
  <2>1. T \subseteq Nat
    BY NamesAssumption
  <2>2. \A h \in V : \E i \in T : h = Append(base, Numerals[i])
    BY <1>2 DEF IsVariant
  <2>3. T # {}
    BY <2>2
  <2>4. PICK i \in T : \A j \in T : i <= j
    BY <2>1, <2>3, LeastIndex
  <2>5. \A g \in V : Before(base, Append(base, Numerals[i]), g)
    BY <2>2, <2>4 DEF Before
  <2> QED BY <2>4, <2>5
<1> QED BY <1>1, <1>2

\* What the discovery returns was there, and is the name or a variant of it.
LEMMA DiscoverFinds ==
    ASSUME NEW name, NEW peers, peers \subseteq Hosts
    PROVE  \/ Discover(name, peers) = name /\ name \in peers
           \/ Discover(name, peers) = None /\ NoVariant(name, peers)
           \/ /\ Discover(name, peers) \in peers /\ name \notin peers
              /\ IsVariant(Base(name), Discover(name, peers))
<1> DEFINE V == {h \in peers : IsVariant(Base(name), h)}
<1>1. CASE name \in peers
  BY <1>1 DEF Discover
<1>2. CASE name \notin peers /\ V = {}
  BY <1>2 DEF Discover, NoVariant
<1>3. CASE name \notin peers /\ V # {}
  <2>1. \E h \in V : \A g \in V : Before(Base(name), h, g)
    BY <1>3, FirstVariant
  <2>2. Discover(name, peers)
          = CHOOSE h \in V : \A g \in V : Before(Base(name), h, g)
    BY <1>3 DEF Discover
  <2>3. Discover(name, peers) \in V
    BY <2>1, <2>2
  <2> QED BY <1>3, <2>3
<1> QED BY <1>1, <1>2, <1>3

\* A name is its base, or its base with a numeral.
LEMMA BaseAndSuffix ==
    ASSUME NEW name \in Seq(STRING)
    PROVE  /\ Base(name) \in {name, SubSeq(name, 1, Len(name) - 1)}
           /\ Base(name) \in Seq(STRING)
           /\ IsVariant(Base(name), name)
<1>1. CASE ~(Len(name) > 1 /\ IsNumeral(name[Len(name)]))
  BY <1>1 DEF Base, IsVariant
<1>2. CASE Len(name) > 1 /\ IsNumeral(name[Len(name)])
  <2>1. Base(name) = SubSeq(name, 1, Len(name) - 1)
    BY <1>2 DEF Base
  <2>2. Base(name) \in Seq(STRING)
    BY <1>2, <2>1
  <2>3. name = Append(Base(name), name[Len(name)])
    BY <1>2, <2>1
  <2> QED BY <1>2, <2>1, <2>2, <2>3 DEF IsVariant, IsNumeral
<1> QED BY <1>1, <1>2

-----------------------------------------------------------------------------
LEMMA InitEgress == Init => EgressInv
BY DEF Init, ConfigInit, ExitInit, EgressInv, EgressOf, Places, Stages

\* A command that changes the file leaves what its `up` has loaded alone.
LEMMA ChangesNoProfile ==
    ASSUME NEW c \in Commands, ChangeFile(c), step \in [Commands -> Places]
    PROVE  /\ UNCHANGED <<profile, exitNode>>
           /\ step' \in [Commands -> Places]
           /\ \A d \in Commands : step[d] \in {"exit", "done"} =>
                                 step'[d] \in {"exit", "done"}
<1> USE DEF Places, Writing, Leave, Return, Go, Report, WriteFile
<1>1. CASE StartInit(c)
  BY <1>1, ChangeFile(c) DEF StartInit, ChangeFile
<1>2. CASE StartBootstrap(c)
  BY <1>2, ChangeFile(c) DEF StartBootstrap, ChangeFile
<1>3. CASE ReadOriginal(c)
  BY <1>3, ChangeFile(c) DEF ReadOriginal, ChangeFile
<1>4. CASE Truncate(c)
  BY <1>4, ChangeFile(c) DEF Truncate, ChangeFile
<1>5. CASE FillScaffold(c)
  BY <1>5, ChangeFile(c) DEF FillScaffold, ChangeFile
<1>6. CASE FillAppended(c)
  BY <1>6, ChangeFile(c) DEF FillAppended, ChangeFile
<1>7. CASE FillOriginal(c)
  BY <1>7, ChangeFile(c) DEF FillOriginal, ChangeFile
<1>8. CASE Accept(c)
  BY <1>8, ChangeFile(c) DEF Accept, ChangeFile
<1>9. CASE RollBack(c)
  BY <1>9, ChangeFile(c) DEF RollBack, ChangeFile
<1>10. CASE Kill(c)
  BY <1>10, ChangeFile(c) DEF Kill, ChangeFile
<1> QED BY <1>1, <1>2, <1>3, <1>4, <1>5, <1>6, <1>7, <1>8, <1>9, <1>10
        DEF ChangeFile

LEMMA ChangeFileKeeps ==
    ASSUME EgressInv, NEW c \in Commands, ChangeFile(c)
    PROVE  EgressInv'
<1>1. /\ UNCHANGED <<profile, exitNode>>
      /\ step' \in [Commands -> Places]
      /\ \A d \in Commands : step[d] \in {"exit", "done"} =>
                            step'[d] \in {"exit", "done"}
  BY ChangesNoProfile, EgressInv, ChangeFile(c) DEF EgressInv
<1>2. ASSUME NEW d \in Commands PROVE EgressOf(d)'
  BY <1>1, <1>2, EgressInv DEF EgressInv, EgressOf, exitNode
<1> QED BY <1>1, <1>2, EgressInv DEF EgressInv, exitNode

\* The exit node that `up` begins with is a name: config.load has seen to it.
LEMMA UpKeeps ==
    ASSUME EgressInv, NEW c \in Commands, Up(c)
    PROVE  EgressInv'
<1>1. step[c] \in {"idle", "up"} /\ stage[c] = "off"
  BY EgressInv, Up(c) DEF Up, LoadForUp, EgressInv, EgressOf, Stages
<1>2. /\ step' \in [Commands -> Places]
      /\ DOMAIN profile' = Commands
      /\ \A d \in Commands \ {c} :
           profile'[d] = profile[d] /\ step'[d] = step[d]
      /\ step'[c] \in {"exit", "done"}
      /\ step'[c] = "exit" => profile'[c].exit \in Seq(STRING)
  <2>1. \A n \in Offered(c) : file.profiles[n].exit = None
                            \/ file.profiles[n].exit \in Seq(STRING)
    BY DEF Offered, Loads, FieldsSound
  <2>2. CASE Offered(c) = {} /\ Return(c) /\ UNCHANGED profile
    BY <2>1, <2>2, EgressInv DEF EgressInv, Return, Leave, Places
  <2>3. CASE \E n \in Offered(c) :
               /\ profile' = [profile EXCEPT ![c] = file.profiles[n]]
               /\ \/ Return(c)
                  \/ file.profiles[n].exit # None /\ Leave(c, "exit")
    <3>1. PICK n \in Offered(c) :
               /\ profile' = [profile EXCEPT ![c] = file.profiles[n]]
               /\ \/ Return(c)
                  \/ file.profiles[n].exit # None /\ Leave(c, "exit")
      BY <2>3
    <3>2. profile'[c] = file.profiles[n]
      BY <3>1, EgressInv DEF EgressInv
    <3> QED BY <2>1, <3>1, <3>2, EgressInv
            DEF EgressInv, Return, Leave, Places
  <2> QED BY <2>2, <2>3, Up(c) DEF Up, LoadForUp
<1>3. CASE UNCHANGED exitNode
  <2>1. ASSUME NEW d \in Commands PROVE EgressOf(d)'
    BY <1>1, <1>2, <1>3, <2>1, EgressInv DEF EgressInv, EgressOf, exitNode
  <2> QED BY <1>2, <1>3, <2>1, EgressInv DEF EgressInv, exitNode
<1>4. CASE step'[c] = "exit" /\ Begin(c, profile'[c].exit)
  <2>1. EgressOf(c)'
    BY <1>1, <1>2, <1>4, EgressInv DEF EgressInv, EgressOf, Begin
  <2>2. ASSUME NEW d \in Commands \ {c} PROVE EgressOf(d)'
    BY <1>2, <1>4, <2>2, EgressInv DEF EgressInv, EgressOf, Begin
  <2> QED BY <1>2, <1>4, <2>1, <2>2, EgressInv DEF EgressInv, Begin, Stages
<1> QED BY <1>3, <1>4, Up(c) DEF Up

LEMMA ApplyKeeps ==
    ASSUME EgressInv, NEW c \in Commands, ApplyExitNode(c)
    PROVE  EgressInv'
<1>1. UNCHANGED config /\ step[c] = "exit"
  BY ApplyExitNode(c) DEF ApplyExitNode
<1>2. CASE SetExitNode(c)
  <2>1. EgressOf(c)'
    BY <1>1, <1>2, EgressInv
    DEF EgressInv, EgressOf, SetExitNode, To, config
  <2>2. ASSUME NEW d \in Commands \ {c} PROVE EgressOf(d)'
    BY <1>1, <1>2, <2>2, EgressInv
    DEF EgressInv, EgressOf, SetExitNode, To, config
  <2> QED BY <1>1, <1>2, <2>1, <2>2, EgressInv
          DEF EgressInv, SetExitNode, To, Stages, config
<1>3. CASE Look(c)
  <2>1. EgressOf(c)'
    <3>1. /\ saw'[c] = netmap /\ netmap \subseteq Hosts
          /\ target[c] = configured[c] /\ configured[c] \in Seq(STRING)
          /\ configured[c] = profile[c].exit
      BY <1>3, EgressInv DEF EgressInv, EgressOf, Look
    <3>2. CASE Discover(configured[c], netmap) \in {None, target[c]}
      <4>1. target'[c] = target[c] /\ stage'[c] = "failed"
        BY <1>3, <3>2, EgressInv DEF EgressInv, Look, To
      <4> QED BY <1>1, <1>3, <3>1, <3>2, <4>1, DiscoverFinds, NamesAssumption
              DEF EgressOf, Look, config
    <3>3. CASE Discover(configured[c], netmap) \notin {None, target[c]}
      <4>1. /\ target'[c] = Discover(configured[c], netmap)
            /\ stage'[c] = "again"
        BY <1>3, <3>3, EgressInv DEF EgressInv, Look, To
      <4> QED BY <1>1, <1>3, <3>1, <3>3, <4>1, DiscoverFinds
              DEF EgressOf, Look, config
    <3> QED BY <3>2, <3>3
  <2>2. ASSUME NEW d \in Commands \ {c} PROVE EgressOf(d)'
    BY <1>1, <1>3, <2>2, EgressInv DEF EgressInv, EgressOf, Look, To, config
  <2> QED BY <1>1, <1>3, <2>1, <2>2, EgressInv
          DEF EgressInv, Look, To, Stages, config
<1>4. CASE LookFails(c)
  <2>1. ASSUME NEW d \in Commands PROVE EgressOf(d)'
    BY <1>1, <1>4, <2>1, EgressInv
    DEF EgressInv, EgressOf, LookFails, To, config
  <2> QED BY <1>1, <1>4, <2>1, EgressInv
          DEF EgressInv, LookFails, To, Stages, config
<1>5. CASE Retry(c)
  <2>1. ASSUME NEW d \in Commands PROVE EgressOf(d)'
    BY <1>1, <1>5, <2>1, EgressInv
    DEF EgressInv, EgressOf, Retry, To, config
  <2> QED BY <1>1, <1>5, <2>1, EgressInv
          DEF EgressInv, Retry, To, Stages, config
<1>6. CASE TimesOut(c)
  <2>1. ASSUME NEW d \in Commands PROVE EgressOf(d)'
    BY <1>1, <1>6, <2>1, EgressInv
    DEF EgressInv, EgressOf, TimesOut, To, config
  <2> QED BY <1>1, <1>6, <2>1, EgressInv
          DEF EgressInv, TimesOut, To, Stages, config
<1> QED BY <1>2, <1>3, <1>4, <1>5, <1>6, ApplyExitNode(c) DEF ApplyExitNode

LEMMA OthersKeep ==
    ASSUME EgressInv, \/ Save /\ UNCHANGED exitNode
                      \/ ChangeNetmap /\ UNCHANGED config
                      \/ UNCHANGED vars
    PROVE  EgressInv'
<1>1. /\ UNCHANGED <<step, profile, stage, configured, target, saw>>
      /\ netmap' \subseteq Hosts
  BY EgressInv DEF EgressInv, Save, ChangeNetmap, vars, config, exitNode
<1>2. ASSUME NEW d \in Commands PROVE EgressOf(d)'
  BY <1>1, <1>2, EgressInv DEF EgressInv, EgressOf
<1> QED BY <1>1, <1>2, EgressInv DEF EgressInv

LEMMA EgressInvariance == Spec => []EgressInv
<1>1. ASSUME EgressInv, [Next]_vars PROVE EgressInv'
  BY <1>1, ChangeFileKeeps, UpKeeps, ApplyKeeps, OthersKeep DEF Next
<1> QED BY InitEgress, <1>1, PTL DEF Spec

\* Whatever the peers, the commands and the edits, an `up` that goes through
\* leaves by the node its profile names or by a suffix variant of it.
THEOREM EgressAsConfigured == Spec => []EgressIsConfigured
<1>1. ASSUME EgressInv PROVE EgressIsConfigured
  <2>1. SUFFICES ASSUME NEW c \in Commands, stage[c] = "applied",
                        target[c] # profile[c].exit
                 PROVE  /\ target[c] \in saw[c] /\ profile[c].exit \notin saw[c]
                        /\ SameButSuffix(target[c], profile[c].exit)
    BY DEF EgressIsConfigured
  <2> DEFINE name == profile[c].exit
             n == Base(name)
  <2>2. /\ name \in Seq(STRING)
        /\ target[c] \in saw[c] /\ name \notin saw[c]
        /\ IsVariant(Base(name), target[c])
    BY <1>1, <2>1 DEF EgressInv, EgressOf
  <2>3. /\ n \in {name, SubSeq(name, 1, Len(name) - 1)}
        /\ IsVariant(n, name)
    BY <2>2, BaseAndSuffix
  <2>4. {target[c], name} \subseteq
          {n} \cup {Append(n, Numerals[i]) : i \in DOMAIN Numerals}
    BY <2>2, <2>3 DEF IsVariant
  <2> HIDE DEF n
  <2>5. SameButSuffix(target[c], name)
    BY <2>3, <2>4 DEF SameButSuffix
  <2> QED BY <2>2, <2>5
<1> QED BY EgressInvariance, <1>1, PTL

\* It refuses under the name of the profile only when that node, or no variant
\* of it, was there, or the status could not be read.
THEOREM RefusesOnlyUnseen == Spec => []RefusedUnseen
<1>1. ASSUME EgressInv PROVE RefusedUnseen
  <2>1. SUFFICES ASSUME NEW c \in Commands, stage[c] = "refused",
                        target[c] = profile[c].exit, saw[c] # None,
                        profile[c].exit \notin saw[c],
                        NEW h \in saw[c]
                 PROVE  Base(h) # Base(profile[c].exit)
    BY DEF RefusedUnseen
  <2>2. ~IsVariant(Base(profile[c].exit), h)
    BY <1>1, <2>1 DEF EgressInv, EgressOf, NoVariant
  <2>3. h \in Seq(STRING)
    BY <1>1, <2>1, NamesAssumption DEF EgressInv
  <2> QED BY <2>2, <2>3, BaseAndSuffix
<1> QED BY EgressInvariance, <1>1, PTL

-----------------------------------------------------------------------------
\* What a command that writes knows of the file while nobody races it.
WriterOf(c) ==
    /\ step[c] \in {"idle", "read"} => result[c] = None /\ found[c] = None
    /\ step[c] \in Writing /\ found[c] # None => result[c] # "scaffolded"
    /\ step[c] = "validate" => result[c] # "scaffolded"
    /\ step[c] \in {"validate", "up"} /\ ~raced[c] =>
         file = Appended(found[c], request[c])
    /\ step[c] = "up" /\ ~raced[c] => Loads(file)
    /\ step[c] \notin {"exit", "done"} => profile[c] = None

WriterInv ==
    /\ step \in [Commands -> Places]
    /\ DOMAIN result = Commands /\ DOMAIN found = Commands
    /\ DOMAIN request = Commands /\ DOMAIN profile = Commands
    /\ DOMAIN raced = Commands
    /\ \A c \in Commands : WriterOf(c)

\* The block is in the text that bootstrap writes, and all else is as it was;
\* or load ignores it.
LEMMA AppendedHolds ==
    ASSUME NEW f, NEW r, Contents(Appended(f, r))
    PROVE  /\ Contents(f) /\ f.tail \in {"profiles", "ignored"}
           /\ f.tail = "ignored" => Appended(f, r) = f
           /\ f.tail = "profiles" => Extends(f, r, Appended(f, r))
<1>1. Contents(f) /\ f.tail \in {"profiles", "ignored"}
  BY Contents(Appended(f, r)) DEF Appended, Contents
<1>2. ASSUME f.tail = "profiles" PROVE Extends(f, r, Appended(f, r))
  <2>1. Appended(f, r) = [f EXCEPT !.profiles = With(@, r.name, AsRead(r.body))]
    BY <1>1, <1>2 DEF Appended
  <2>2. /\ Appended(f, r).profiles = With(f.profiles, r.name, AsRead(r.body))
        /\ Appended(f, r).default = f.default
    BY <1>1, <2>1 DEF Contents
  <2> QED BY <2>2 DEF With, Extends
<1>3. f.tail = "ignored" => Appended(f, r) = f
  BY <1>1 DEF Appended
<1> QED BY <1>1, <1>2, <1>3

LEMMA InitWriter == Init => WriterInv
BY DEF Init, ConfigInit, WriterInv, WriterOf, Places, Writing

\* A step of c, on the file or not, leaves the others what they know.
LEMMA OthersKnow ==
    ASSUME WriterInv, NEW c \in Commands, NEW d \in Commands \ {c},
           ChangeFile(c)
    PROVE  WriterOf(d)'
<1>1. /\ step'[d] = step[d] /\ found'[d] = found[d]
      /\ request'[d] = request[d] /\ result'[d] = result[d]
      /\ profile'[d] = profile[d]
      /\ ~raced'[d] /\ step[d] \in Writing \cup {"up"} =>
           ~raced[d] /\ file' = file
  <2> USE WriterInv DEF WriterInv, Leave, Return, Go, Report, WriteFile
  <2>1. CASE StartInit(c)
    BY <2>1 DEF StartInit
  <2>2. CASE StartBootstrap(c)
    BY <2>2 DEF StartBootstrap
  <2>3. CASE ReadOriginal(c)
    BY <2>3 DEF ReadOriginal
  <2>4. CASE Truncate(c)
    BY <2>4 DEF Truncate
  <2>5. CASE FillScaffold(c)
    BY <2>5 DEF FillScaffold
  <2>6. CASE FillAppended(c)
    BY <2>6 DEF FillAppended
  <2>7. CASE FillOriginal(c)
    BY <2>7 DEF FillOriginal
  <2>8. CASE Accept(c)
    BY <2>8 DEF Accept
  <2>9. CASE RollBack(c)
    BY <2>9 DEF RollBack
  <2>10. CASE Kill(c)
    BY <2>10 DEF Kill
  <2> QED BY <2>1, <2>2, <2>3, <2>4, <2>5, <2>6, <2>7, <2>8, <2>9, <2>10,
             ChangeFile(c) DEF ChangeFile
<1> QED BY <1>1, WriterInv DEF WriterInv, WriterOf, Writing

\* A step of c keeps what c itself knows.
LEMMA WriterKnows ==
    ASSUME WriterInv, NEW c \in Commands, ChangeFile(c)
    PROVE  WriterOf(c)'
<1> USE WriterInv, NamesAssumption
    DEF WriterInv, WriterOf, Writing, Leave, Return, Go, Report, WriteFile
<1>1. CASE StartInit(c)
  BY <1>1 DEF StartInit
<1>2. CASE StartBootstrap(c)
  BY <1>2 DEF StartBootstrap
<1>3. CASE ReadOriginal(c)
  BY <1>3 DEF ReadOriginal
<1>4. CASE Truncate(c)
  BY <1>4 DEF Truncate
<1>5. CASE FillScaffold(c)
  BY <1>5 DEF FillScaffold
<1>6. CASE FillAppended(c)
  BY <1>6 DEF FillAppended
<1>7. CASE FillOriginal(c)
  BY <1>7 DEF FillOriginal
<1>8. CASE Accept(c)
  BY <1>8 DEF Accept
<1>9. CASE RollBack(c)
  BY <1>9 DEF RollBack
<1>10. CASE Kill(c)
  BY <1>10 DEF Kill
<1> QED BY <1>1, <1>2, <1>3, <1>4, <1>5, <1>6, <1>7, <1>8, <1>9, <1>10,
           ChangeFile(c) DEF ChangeFile

LEMMA WriterDomains ==
    ASSUME WriterInv, NEW c \in Commands, ChangeFile(c)
    PROVE  /\ DOMAIN result' = Commands /\ DOMAIN found' = Commands
           /\ DOMAIN request' = Commands /\ DOMAIN raced' = Commands
BY ChangeFile(c)
DEF WriterInv, ChangeFile, StartInit, StartBootstrap, ReadOriginal, Truncate,
    FillScaffold, FillAppended, FillOriginal, Accept, RollBack, Kill,
    Leave, Return, Go, Report, WriteFile

LEMMA UpKnows ==
    ASSUME WriterInv, NEW c \in Commands, Up(c)
    PROVE  WriterInv'
<1>1. /\ UNCHANGED <<file, result, raced>>
      /\ \E place \in {"done", "exit"} : Leave(c, place)
      /\ DOMAIN profile' = Commands
      /\ \A d \in Commands \ {c} : profile'[d] = profile[d]
  BY Up(c) DEF Up, LoadForUp, Return, WriterInv
<1>2. ASSUME NEW d \in Commands PROVE WriterOf(d)'
  BY <1>1, WriterInv DEF WriterInv, WriterOf, Leave, Writing
<1> QED BY <1>1, <1>2, WriterInv DEF WriterInv, Leave, Places

LEMMA SaveKnows ==
    ASSUME WriterInv, Save
    PROVE  WriterInv'
<1>1. ASSUME NEW d \in Commands PROVE WriterOf(d)'
  <2>1. step[d] \in Writing \cup {"up"} => raced'[d]
    BY Save DEF Save
  <2> QED BY <2>1, WriterInv, Save DEF WriterInv, WriterOf, Save, Writing
<1> QED BY <1>1, WriterInv, Save DEF WriterInv, Save

LEMMA WriterInvariance == Spec => []WriterInv
<1>1. ASSUME WriterInv, [Next]_vars PROVE WriterInv'
  <2>1. ASSUME NEW c \in Commands, ChangeFile(c) PROVE WriterInv'
    <3>1. \A d \in Commands : WriterOf(d)'
      BY <1>1, <2>1, OthersKnow, WriterKnows
    <3> QED BY <1>1, <2>1, <3>1, ChangesNoProfile, WriterDomains DEF WriterInv
  <2>2. CASE UNCHANGED config
    BY <1>1, <2>2 DEF config, WriterInv, WriterOf
  <2> QED BY <1>1, <2>1, <2>2, UpKnows, SaveKnows
          DEF Next, ApplyExitNode, vars
<1> QED BY InitWriter, <1>1, PTL DEF Spec

\* bootstrap alone with the file is all or nothing, whatever file, request and
\* other commands: it ends with its block added, or with the text it found.
THEOREM BootstrapAllOrNothing == Spec => BootstrapIsAtomic
<1>1. ASSUME WriterInv, [Next]_vars, NEW c \in Commands,
             Finishes(c), found[c] # None
      PROVE  AllOrNothing(c)
  <2>1. FillOriginal(c) \/ Accept(c)
    <3>1. ~(\E d \in Commands : Up(d) \/ ApplyExitNode(d)) /\ ~Save
      BY <1>1 DEF WriterInv, Finishes, Up, LoadForUp, Leave, Return, Writing,
                  ApplyExitNode, config, Save
    <3>2. PICK d \in Commands : ChangeFile(d)
      BY <1>1, <3>1 DEF Next, Finishes, vars, config, Writing
    <3>3. d = c
      BY <1>1, <3>2
      DEF WriterInv, Finishes, ChangeFile, StartInit, StartBootstrap,
          ReadOriginal, Truncate, FillScaffold, FillAppended, FillOriginal,
          Accept, RollBack, Kill, Leave, Return, Go, Writing
    <3> QED BY <1>1, <3>2, <3>3
            DEF WriterInv, WriterOf, Finishes, ChangeFile, StartInit,
                StartBootstrap, ReadOriginal, Truncate, FillScaffold,
                FillAppended, RollBack, Kill, Leave, Return, Go, Writing
  <2>2. CASE FillOriginal(c)
    BY <2>2 DEF FillOriginal, WriteFile, AllOrNothing
  <2>3. CASE Accept(c)
    <3>1. /\ file' = file /\ Loads(file) /\ raced' = raced
          /\ result'[c] = "bootstrapped"
          /\ file = Appended(found[c], request[c])
      BY <1>1, <2>3 DEF Accept, Report, WriterInv, WriterOf, Finishes
    <3> QED BY <3>1, AppendedHolds DEF Loads, AllOrNothing
  <2> QED BY <2>1, <2>2, <2>3
<1>2. WriterInv /\ [Next]_vars => [\A c \in Commands : AllOrNothing(c)]_vars
  BY <1>1 DEF AllOrNothing
<1> QED BY WriterInvariance, <1>2, PTL DEF Spec, BootstrapIsAtomic

\* --register brings up the profile that was written, for every number of
\* commands, unless somebody wrote the file after it was validated.
THEOREM RegistersTheWritten == Spec => RegistersWhatItWrote
<1> DEFINE Registers(c) ==
             IF found[c].tail = "ignored" THEN LoadsFrom(c, found[c], request[c])
             ELSE profile'[c] = AsRead(request[c].body)
<1>1. ASSUME WriterInv, [Next]_vars, NEW c \in Commands,
             step[c] = "up", step'[c] # "up", ~raced'[c]
      PROVE  Registers(c)
  <2> DEFINE name == request[c].name
  <2>1. LoadForUp(c)
    <3>1. ~(\E d \in Commands : ChangeFile(d))
      BY <1>1
      DEF WriterInv, ChangeFile, StartInit, StartBootstrap,
          ReadOriginal, Truncate, FillScaffold, FillAppended, FillOriginal,
          Accept, RollBack, Kill, Leave, Return, Go, Writing
    <3> QED BY <1>1, <3>1
            DEF Next, Up, LoadForUp, Leave, Return, ApplyExitNode, Save, vars,
                config, WriterInv
  <2>2. /\ Loads(file) /\ file = Appended(found[c], request[c])
        /\ profile[c] = None
    BY <1>1, <2>1 DEF WriterInv, WriterOf, LoadForUp
  <2>3. Offered(c) = {name} \cap DOMAIN file.profiles
    BY <1>1, <2>2 DEF Offered
  <2>4. IF name \in DOMAIN file.profiles THEN profile'[c] = file.profiles[name]
        ELSE profile'[c] = None
    BY <1>1, <2>1, <2>2, <2>3 DEF LoadForUp, WriterInv
  <2>5. CASE found[c].tail = "ignored"
    BY <2>2, <2>4, <2>5, AppendedHolds DEF Loads, LoadsFrom
  <2>6. CASE found[c].tail # "ignored"
    <3>1. Extends(found[c], request[c], file)
      BY <2>2, <2>6, AppendedHolds DEF Loads
    <3> QED BY <2>4, <2>6, <3>1 DEF Extends
  <2> QED BY <2>5, <2>6
<1>2. WriterInv /\ [Next]_vars =>
        [\A c \in Commands : step[c] = "up" /\ step'[c] # "up" /\ ~raced'[c] =>
                             Registers(c)]_vars
  BY <1>1
<1> QED BY WriterInvariance, <1>2, PTL DEF Spec, RegistersWhatItWrote
-----------------------------------------------------------------------------
(* What init writes.                                                       *)

NoAccounts == [default |-> None, profiles |-> << >>, tail |-> "profiles"]

\* The name that the loop of init gives the account at j.
KeyOf(accounts, j) == NameFor(Starter(accounts)[j - 1].profiles, accounts[j])

\* The loop does what it says: induction, by the least length that it has no result for.
LEMMA StarterLoop ==
    ASSUME NEW accounts, Len(accounts) \in Nat
    PROVE  /\ Starter(accounts)[0] = NoAccounts
           /\ \A i \in 1..Len(accounts) :
                Starter(accounts)[i] = AddAccount(Starter(accounts)[i - 1], accounts[i])
<1> DEFINE n == Len(accounts)
           Loop(f, k) == f = [i \in 0..k |-> IF i = 0 THEN NoAccounts
                                             ELSE AddAccount(f[i - 1], accounts[i])]
           T == {k \in 0..n : ~\E f : Loop(f, k)}
<1>1. ASSUME T # {} PROVE FALSE
  <2>1. T \subseteq Nat
    OBVIOUS
  <2>2. PICK k \in T : \A j \in T : k <= j
    BY <1>1, <2>1, LeastIndex
  <2>3. CASE k = 0
    <3>1. Loop([i \in 0..0 |-> NoAccounts], 0)
      OBVIOUS
    <3> QED BY <2>2, <2>3, <3>1
  <2>4. CASE k # 0
    <3>1. k - 1 \in 0..n /\ k - 1 \notin T /\ k \in Nat
      BY <2>2, <2>4
    <3>2. PICK f : Loop(f, k - 1)
      BY <3>1
    <3> DEFINE g == [i \in 0..k |-> IF i = k THEN AddAccount(f[k - 1], accounts[k]) ELSE f[i]]
    <3>3. Loop(g, k)
      <4>1. ASSUME NEW i \in 0..k
            PROVE  g[i] = IF i = 0 THEN NoAccounts ELSE AddAccount(g[i - 1], accounts[i])
        BY <2>4, <3>1, <3>2
      <4> QED BY <4>1
    <3> QED BY <2>2, <3>3
  <2> QED BY <2>3, <2>4
<1>2. PICK f : Loop(f, n)
  BY <1>1
<1>3. Starter(accounts) = CHOOSE h : Loop(h, n)
  BY DEF Starter, NoAccounts
<1>4. Loop(Starter(accounts), n)
  BY <1>2, <1>3
<1> HIDE DEF n
<1>5. n \in Nat
  BY DEF n
<1> QED BY <1>4, <1>5 DEF n

\* A row of profiles that comes from the account at j, under the name it was given.
FromAccount(accounts, f, k, j) == k = KeyOf(accounts, j) /\ f.profiles[k] = BodyOf(accounts[j])

\* The text after i accounts.
Started(accounts, i) ==
    LET f == Starter(accounts)[i]
    IN  /\ DOMAIN f = {"default", "profiles", "tail"} /\ f.tail = "profiles"
        /\ f.default = None \/ f.default \in DOMAIN f.profiles
        /\ i > 0 => accounts[1].name \in DOMAIN f.profiles
        /\ \A k \in DOMAIN f.profiles : \E j \in 1..i : FromAccount(accounts, f, k, j)

\* No name is another one with its account's id appended.
Apart(accounts) ==
    \A i, j \in DOMAIN accounts : accounts[i].name # Append(accounts[j].name, accounts[j].id)

\* Each of the first i accounts has its profile.
Kept(accounts, i) ==
    LET profiles == Starter(accounts)[i].profiles
    IN  \A j \in 1..i : /\ KeyOf(accounts, j) \in DOMAIN profiles
                        /\ profiles[KeyOf(accounts, j)].account = accounts[j].id

\* g is f with a profile for one account more, under that name.
Adds(f, account, name, g) ==
    /\ DOMAIN g = {"default", "profiles", "tail"} /\ g.tail = f.tail
    /\ DOMAIN g.profiles = DOMAIN f.profiles \cup {name}
    /\ g.profiles[name] = BodyOf(account)
    /\ \A k \in DOMAIN f.profiles \ {name} : g.profiles[k] = f.profiles[k]
    /\ g.default \in {f.default, name}
    /\ name = account.name \/ account.name \in DOMAIN f.profiles

LEMMA AddsOne ==
    ASSUME NEW f, DOMAIN f = {"default", "profiles", "tail"}, NEW account
    PROVE  Adds(f, account, NameFor(f.profiles, account), AddAccount(f, account))
<1> PICK g, name : g = AddAccount(f, account) /\ name = NameFor(f.profiles, account)
  OBVIOUS
<1>1. /\ DOMAIN g = {"default", "profiles", "tail"} /\ g.tail = f.tail
      /\ g.profiles = With(f.profiles, name, BodyOf(account))
      /\ g.default \in {f.default, name}
  BY DEF AddAccount
<1>2. name = account.name \/ account.name \in DOMAIN f.profiles
  BY DEF NameFor
<1>3. Adds(f, account, name, g)
  BY <1>1, <1>2 DEF With, Adds
<1> QED BY <1>3

LEMMA SeqElement ==
    ASSUME NEW S, NEW s \in Seq(S), NEW i \in DOMAIN s
    PROVE  s[i] \in S
OBVIOUS

LEMMA SameLast ==
    ASSUME NEW s \in Seq(STRING), NEW t \in Seq(STRING), NEW x, NEW y,
           Append(s, x) = Append(t, y)
    PROVE  x = y
<1>1. Len(Append(s, x)) = Len(s) + 1 /\ Len(Append(t, y)) = Len(t) + 1
  OBVIOUS
<1>2. Append(s, x)[Len(s) + 1] = x /\ Append(t, y)[Len(t) + 1] = y
  OBVIOUS
<1> QED BY <1>1, <1>2

\* The loop keeps what it has: by induction, over the least length at which it has not.
LEMMA LoopStarts ==
    ASSUME NEW accounts, Len(accounts) \in Nat, NEW i \in 0..Len(accounts)
    PROVE  Started(accounts, i)
<1> DEFINE T == {k \in 0..Len(accounts) : ~Started(accounts, k)}
<1>1. T \subseteq Nat
  OBVIOUS
<1>2. ASSUME T # {} PROVE FALSE
  <2>1. PICK k \in T : \A j \in T : k <= j
    BY <1>1, <1>2, LeastIndex
  <2>2. CASE k = 0
    <3>1. Started(accounts, 0)
      BY StarterLoop DEF Started, NoAccounts
    <3> QED BY <2>1, <2>2, <3>1
  <2>3. CASE k # 0
    <3>1. /\ k \in 1..Len(accounts) /\ k - 1 \in 0..Len(accounts)
          /\ Started(accounts, k - 1)
      BY <2>1, <2>3
    <3> PICK f, g, name : /\ f = Starter(accounts)[k - 1]
                          /\ g = Starter(accounts)[k]
                          /\ name = KeyOf(accounts, k)
      OBVIOUS
    <3>2. g = AddAccount(f, accounts[k]) /\ DOMAIN f = {"default", "profiles", "tail"}
      BY <3>1, StarterLoop DEF Started
    <3>3. name = NameFor(f.profiles, accounts[k])
      BY DEF KeyOf
    <3>4. Adds(f, accounts[k], name, g)
      BY <3>2, <3>3, AddsOne
    <3>5. /\ f.default = None \/ f.default \in DOMAIN f.profiles
          /\ f.tail = "profiles"
          /\ k - 1 > 0 => accounts[1].name \in DOMAIN f.profiles
          /\ \A m \in DOMAIN f.profiles : \E j \in 1..k-1 : FromAccount(accounts, f, m, j)
      BY <3>1 DEF Started
    <3>6. accounts[1].name \in DOMAIN g.profiles
      BY <3>1, <3>4, <3>5 DEF Adds
    <3>7. ASSUME NEW m \in DOMAIN g.profiles
          PROVE  \E j \in 1..k : FromAccount(accounts, g, m, j)
      <4>1. CASE m = name
        BY <3>1, <3>4, <4>1 DEF Adds, FromAccount
      <4>2. CASE m # name
        <5>1. PICK j \in 1..k-1 : FromAccount(accounts, f, m, j)
          BY <3>4, <3>5, <3>7, <4>2 DEF Adds
        <5>2. j \in 1..k /\ FromAccount(accounts, g, m, j)
          BY <3>1, <3>4, <3>7, <4>2, <5>1 DEF Adds, FromAccount
        <5> QED BY <5>2
      <4> QED BY <4>1, <4>2
    <3>8. Started(accounts, k)
      BY <3>4, <3>5, <3>6, <3>7 DEF Adds, Started
    <3> QED BY <2>1, <3>8
  <2> QED BY <2>2, <2>3
<1> QED BY <1>2

LEMMA LoopKeeps ==
    ASSUME NEW accounts, Len(accounts) \in Nat, DOMAIN accounts = 1..Len(accounts),
           Apart(accounts), \A j \in DOMAIN accounts : accounts[j].name \in Seq(STRING),
           NEW i \in 0..Len(accounts)
    PROVE  Kept(accounts, i)
<1> DEFINE T == {k \in 0..Len(accounts) : ~Kept(accounts, k)}
<1>1. T \subseteq Nat
  OBVIOUS
<1>2. ASSUME T # {} PROVE FALSE
  <2>1. PICK k \in T : \A j \in T : k <= j
    BY <1>1, <1>2, LeastIndex
  <2>2. k # 0
    BY <2>1 DEF Kept
  <2>3. /\ k \in 1..Len(accounts) /\ k - 1 \in 0..Len(accounts)
        /\ Kept(accounts, k - 1) /\ Started(accounts, k - 1)
    BY <2>1, <2>2, LoopStarts
  <2> PICK f, g, name : /\ f = Starter(accounts)[k - 1]
                        /\ g = Starter(accounts)[k]
                        /\ name = KeyOf(accounts, k)
    OBVIOUS
  <2>4. g = AddAccount(f, accounts[k]) /\ DOMAIN f = {"default", "profiles", "tail"}
    BY <2>3, StarterLoop DEF Started
  <2>5. name = NameFor(f.profiles, accounts[k])
    BY DEF KeyOf
  <2>6. Adds(f, accounts[k], name, g)
    BY <2>4, <2>5, AddsOne
  <2>7. ASSUME NEW j \in 1..k
        PROVE  /\ KeyOf(accounts, j) \in DOMAIN g.profiles
               /\ g.profiles[KeyOf(accounts, j)].account = accounts[j].id
    <3>1. CASE j = k
      BY <2>6, <3>1 DEF Adds, BodyOf
    <3>2. CASE j # k
      <4>1. /\ KeyOf(accounts, j) \in DOMAIN f.profiles
            /\ f.profiles[KeyOf(accounts, j)].account = accounts[j].id
        BY <2>3, <2>7, <3>2 DEF Kept
      <4>2. CASE KeyOf(accounts, j) # name
        BY <2>6, <4>1, <4>2 DEF Adds
      <4>3. CASE KeyOf(accounts, j) = name
        <5>1. name = Append(accounts[k].name, accounts[k].id)
          BY <2>5, <4>1, <4>3 DEF NameFor
        <5>2. KeyOf(accounts, j) \in {accounts[j].name, Append(accounts[j].name, accounts[j].id)}
          BY DEF KeyOf, NameFor
        <5>3. j \in DOMAIN accounts /\ k \in DOMAIN accounts
          BY <2>3, <2>7
        <5>4. Append(accounts[j].name, accounts[j].id) = Append(accounts[k].name, accounts[k].id)
          BY <4>3, <5>1, <5>2, <5>3 DEF Apart
        <5>5. accounts[j].id = accounts[k].id
          BY <5>3, <5>4, SameLast
        <5> QED BY <2>6, <4>3, <5>5 DEF Adds, BodyOf
      <4> QED BY <4>2, <4>3
    <3> QED BY <3>1, <3>2
  <2>8. Kept(accounts, k)
    BY <2>7 DEF Kept
  <2> QED BY <2>1, <2>8
<1> QED BY <1>2

\* What init writes for accounts it was told of.
LEMMA ScaffoldBuilt ==
    ASSUME NEW accounts \in AccountLists \ {<< >>}
    PROVE  /\ Len(accounts) \in Nat \ {0} /\ DOMAIN accounts = 1..Len(accounts)
           /\ Started(accounts, Len(accounts))
           /\ DOMAIN Scaffold(accounts) = {"default", "profiles", "tail"}
           /\ Scaffold(accounts).tail = "profiles"
           /\ Scaffold(accounts).profiles = Starter(accounts)[Len(accounts)].profiles
           /\ Scaffold(accounts).default \in DOMAIN Scaffold(accounts).profiles
<1>1. accounts \in Seq([id : STRING, name : Seq(STRING), selected : BOOLEAN])
  BY ConfigAssumption
<1>2. Len(accounts) \in Nat \ {0} /\ DOMAIN accounts = 1..Len(accounts)
  BY <1>1
<1>3. Len(accounts) \in Nat /\ Len(accounts) \in 0..Len(accounts)
  BY <1>2
<1>4. Started(accounts, Len(accounts))
  BY <1>3, LoopStarts
<1> PICK f : f = Starter(accounts)[Len(accounts)]
  OBVIOUS
<1>5. /\ DOMAIN f = {"default", "profiles", "tail"} /\ f.tail = "profiles"
      /\ f.default = None \/ f.default \in DOMAIN f.profiles
      /\ accounts[1].name \in DOMAIN f.profiles
  BY <1>2, <1>4 DEF Started
<1>6. Scaffold(accounts) = IF f.default = None THEN [f EXCEPT !.default = accounts[1].name] ELSE f
  BY DEF Scaffold
<1> QED BY <1>2, <1>4, <1>5, <1>6

\* It is a file that config.load accepts: no two of its profiles are of one account.
LEMMA ScaffoldLoads ==
    ASSUME NEW accounts \in AccountLists \ {<< >>}
    PROVE  Scaffold(accounts) = Absent \/ Loads(Scaffold(accounts))
<1> PICK g : g = Scaffold(accounts)
  OBVIOUS
<1>1. /\ Len(accounts) \in Nat \ {0} /\ DOMAIN accounts = 1..Len(accounts)
      /\ DOMAIN g = {"default", "profiles", "tail"} /\ g.tail = "profiles"
      /\ g.default \in DOMAIN g.profiles
      /\ \A m \in DOMAIN g.profiles : \E j \in 1..Len(accounts) :
           FromAccount(accounts, g, m, j)
  BY ScaffoldBuilt DEF Started, FromAccount
<1>2. FieldsSound(g)
  <2> SUFFICES ASSUME NEW m \in DOMAIN g.profiles
               PROVE  g.profiles[m].exit = None /\ PortForwardsSound(g.profiles[m].services)
    BY DEF FieldsSound
  <2>1. PICK j \in 1..Len(accounts) : FromAccount(accounts, g, m, j)
    BY <1>1
  <2>2. g.profiles[m].exit = None /\ g.profiles[m].services = << >>
    BY <2>1 DEF FromAccount, BodyOf
  <2> QED BY <2>2 DEF PortForwardsSound, IsInjective
<1>3. ASSUME NEW m \in DOMAIN g.profiles, NEW n \in DOMAIN g.profiles, m # n
      PROVE  g.profiles[m].account # g.profiles[n].account
  <2>1. PICK i \in 1..Len(accounts) : FromAccount(accounts, g, m, i)
    BY <1>1
  <2>2. PICK j \in 1..Len(accounts) : FromAccount(accounts, g, n, j)
    BY <1>1
  <2>3. i # j /\ g.profiles[m].account = accounts[i].id /\ g.profiles[n].account = accounts[j].id
    BY <1>3, <2>1, <2>2 DEF FromAccount, BodyOf
  <2>4. IsInjective([k \in DOMAIN accounts |-> accounts[k].id])
    BY ConfigAssumption
  <2>5. accounts[i].id # accounts[j].id
    BY <1>1, <2>3, <2>4 DEF IsInjective
  <2> QED BY <2>3, <2>5
<1>4. g # Unreadable
  BY ConfigAssumption
<1> QED BY <1>1, <1>2, <1>3, <1>4 DEF Loads, Contents

\* Each of its profiles is one that may be.
LEMMA ScaffoldText ==
    ASSUME NEW accounts \in AccountLists \ {<< >>}
    PROVE  Text(Scaffold(accounts))
<1> PICK g : g = Scaffold(accounts)
  OBVIOUS
<1>1. /\ DOMAIN accounts = 1..Len(accounts)
      /\ DOMAIN g = {"default", "profiles", "tail"} /\ g.tail = "profiles"
      /\ \A m \in DOMAIN g.profiles : \E j \in 1..Len(accounts) :
           FromAccount(accounts, g, m, j)
  BY ScaffoldBuilt DEF Started, FromAccount
<1>2. ASSUME NEW m \in DOMAIN g.profiles PROVE g.profiles[m] \in Bodies
  <2>1. PICK j \in DOMAIN accounts : FromAccount(accounts, g, m, j)
    BY <1>1
  <2>2. [account |-> accounts[j].id, exit |-> None, services |-> << >>] \in Bodies
    BY ConfigAssumption
  <2> QED BY <2>1, <2>2 DEF FromAccount, BodyOf
<1> QED BY <1>1, <1>2 DEF Text, Contents

\* Each account has a profile in it, unless two names collide.
LEMMA ScaffoldKeeps ==
    ASSUME NEW accounts \in AccountLists \ {<< >>}, Apart(accounts),
           NEW j \in DOMAIN accounts
    PROVE  \E n \in DOMAIN Scaffold(accounts).profiles :
             Scaffold(accounts).profiles[n].account = accounts[j].id
<1>1. /\ Len(accounts) \in Nat /\ Len(accounts) \in 0..Len(accounts)
      /\ DOMAIN accounts = 1..Len(accounts)
      /\ Scaffold(accounts).profiles = Starter(accounts)[Len(accounts)].profiles
  BY ScaffoldBuilt
<1>2. accounts \in Seq([id : STRING, name : Seq(STRING), selected : BOOLEAN])
  BY ConfigAssumption
<1>3. ASSUME NEW i \in DOMAIN accounts PROVE accounts[i].name \in Seq(STRING)
  <2>1. accounts[i] \in [id : STRING, name : Seq(STRING), selected : BOOLEAN]
    BY <1>2, SeqElement
  <2> QED BY <2>1
<1>4. Kept(accounts, Len(accounts))
  BY <1>1, <1>3, LoopKeeps
<1> QED BY <1>1, <1>4 DEF Kept

-----------------------------------------------------------------------------
(* What the commands know of the texts they hold.                          *)

Reports == {None, "refused", "scaffolded", "bootstrapped", "reverted"}

\* init holds accounts, bootstrap a request and, once it has read it, a text.
HoldsOf(c) ==
    /\ step[c] \in Writing =>
         IF result[c] = "scaffolded" THEN request[c] \in AccountLists \ {<< >>}
         ELSE request[c] \in Requests
    /\ step[c] \in {"truncate", "fill", "validate"} /\ result[c] # "scaffolded"
         => Text(found[c])

TextInv ==
    /\ WriterInv
    /\ Text(file) /\ result \in [Commands -> Reports]
    /\ \A c \in Commands : HoldsOf(c)

\* The block of a request makes a text of a text.
LEMMA AppendedText ==
    ASSUME NEW f, Text(f), NEW r \in Requests
    PROVE  Text(Appended(f, r))
<1>1. CASE Contents(f) /\ f.tail = "profiles"
  <2> PICK g : g = Appended(f, r)
    OBVIOUS
  <2>1. /\ DOMAIN g = {"default", "profiles", "tail"} /\ g.tail = "profiles"
        /\ g.profiles = With(f.profiles, r.name, AsRead(r.body))
    BY <1>1 DEF Appended, Contents
  <2>2. /\ AsRead(r.body) \in Bodies
        /\ \A n \in DOMAIN f.profiles : f.profiles[n] \in Bodies
    BY <1>1, ConfigAssumption DEF Text, Contents
  <2>3. \A n \in DOMAIN g.profiles : g.profiles[n] \in Bodies
    BY <2>1, <2>2 DEF With
  <2> QED BY <2>1, <2>3 DEF Text, Contents
<1>2. CASE ~(Contents(f) /\ f.tail = "profiles")
  BY <1>2 DEF Appended, Text, Contents
<1> QED BY <1>1, <1>2

LEMMA InitText == Init => TextInv
BY InitWriter, ConfigAssumption
DEF Init, ConfigInit, TextInv, HoldsOf, Reports, Writing

\* A step of c, on the file or not, leaves the others what they hold.
LEMMA OthersHold ==
    ASSUME TextInv, NEW c \in Commands, NEW d \in Commands \ {c}, ChangeFile(c)
    PROVE  HoldsOf(d)'
<1>1. /\ step'[d] = step[d] /\ found'[d] = found[d]
      /\ request'[d] = request[d] /\ result'[d] = result[d]
  BY ChangeFile(c)
  DEF TextInv, WriterInv, ChangeFile, StartInit, StartBootstrap, ReadOriginal, Truncate,
      FillScaffold, FillAppended, FillOriginal, Accept, RollBack, Kill, Leave, Return, Go,
      Report
<1> QED BY <1>1 DEF TextInv, HoldsOf

LEMMA HolderKeeps ==
    ASSUME TextInv, NEW c \in Commands, ChangeFile(c)
    PROVE  Text(file') /\ result' \in [Commands -> Reports] /\ HoldsOf(c)'
<1> USE NamesAssumption
    DEF TextInv, WriterInv, HoldsOf, Reports, Writing, Leave, Return, Go, Report, WriteFile
<1>1. CASE StartInit(c)
  BY <1>1 DEF StartInit
<1>2. CASE StartBootstrap(c)
  BY <1>2 DEF StartBootstrap, WriterOf
<1>3. CASE ReadOriginal(c)
  BY <1>3 DEF ReadOriginal, WriterOf
<1>4. CASE Truncate(c)
  BY <1>4 DEF Truncate, Text
<1>5. CASE FillScaffold(c)
  BY <1>5, ScaffoldText DEF FillScaffold
<1>6. CASE FillAppended(c)
  BY <1>6, AppendedText DEF FillAppended
<1>7. CASE FillOriginal(c)
  BY <1>7 DEF FillOriginal
<1>8. CASE Accept(c)
  BY <1>8 DEF Accept
<1>9. CASE RollBack(c)
  BY <1>9 DEF RollBack, WriterOf
<1>10. CASE Kill(c)
  BY <1>10 DEF Kill
<1> QED BY <1>1, <1>2, <1>3, <1>4, <1>5, <1>6, <1>7, <1>8, <1>9, <1>10,
           ChangeFile(c) DEF ChangeFile

LEMMA UpHolds ==
    ASSUME TextInv, NEW c \in Commands, Up(c)
    PROVE  Text(file') /\ result' = result /\ \A d \in Commands : HoldsOf(d)'
<1>1. /\ UNCHANGED <<file, result>>
      /\ \E place \in {"done", "exit"} : Leave(c, place)
  BY Up(c) DEF Up, LoadForUp, Return
<1>2. ASSUME NEW d \in Commands PROVE HoldsOf(d)'
  BY <1>1 DEF TextInv, WriterInv, HoldsOf, Leave, Writing
<1> QED BY <1>1, <1>2 DEF TextInv

LEMMA NextText == ASSUME TextInv, [Next]_vars, WriterInv' PROVE TextInv'
<1>1. ASSUME NEW c \in Commands, ChangeFile(c) PROVE TextInv'
  BY <1>1, OthersHold, HolderKeeps DEF TextInv
<1>2. ASSUME NEW c \in Commands, Up(c) PROVE TextInv'
  BY <1>2, UpHolds DEF TextInv
<1>3. CASE Save
  BY <1>3, ConfigAssumption DEF TextInv, HoldsOf, Save
<1>4. CASE UNCHANGED config
  BY <1>4 DEF TextInv, HoldsOf, config
<1> QED BY <1>1, <1>2, <1>3, <1>4 DEF Next, ApplyExitNode, vars

LEMMA TextInvariance == Spec => []TextInv
<1>1. Init => TextInv
  BY InitText
<1>2. TextInv /\ [Next]_vars /\ WriterInv' => TextInv'
  BY NextText
<1> QED BY <1>1, <1>2, WriterInvariance, PTL DEF Spec

\* Every variable keeps its range, and every text of profiles.yaml that init, bootstrap
\* or a roll-back leaves is a mapping of names to bodies, or not readable.
THEOREM OnboardingTyped == Spec => []TypeOK
<1> DEFINE Begun == \A c \in Commands : step[c] = "exit" => stage[c] # "off"
<1>1. Init => Begun
  BY DEF Init, ConfigInit
<1>2. ASSUME EgressInv, Begun, [Next]_vars PROVE Begun'
  <2>1. ASSUME NEW c \in Commands, ChangeFile(c) PROVE Begun'
    <3>1. \A d \in Commands : step'[d] = "exit" => step[d] = "exit"
      BY <1>2, <2>1
      DEF EgressInv, ChangeFile, StartInit, StartBootstrap, ReadOriginal, Truncate,
          FillScaffold, FillAppended, FillOriginal, Accept, RollBack, Kill, Leave, Return,
          Go
    <3> QED BY <1>2, <2>1, <3>1 DEF ChangeFile, exitNode
  <2>2. ASSUME NEW c \in Commands, Up(c) PROVE Begun'
    BY <1>2, <2>2 DEF EgressInv, Up, LoadForUp, Begin, Leave, Return, exitNode
  <2>3. ASSUME NEW c \in Commands, ApplyExitNode(c) PROVE Begun'
    BY <1>2, <2>3
    DEF EgressInv, ApplyExitNode, SetExitNode, Look, LookFails, Retry, TimesOut, To,
        config
  <2>4. CASE Save /\ UNCHANGED exitNode
    BY <1>2, <2>4 DEF Save, exitNode
  <2>5. CASE ChangeNetmap /\ UNCHANGED config
    BY <1>2, <2>5 DEF ChangeNetmap, config
  <2>6. CASE UNCHANGED vars
    BY <1>2, <2>6 DEF vars, config, exitNode
  <2> QED BY <1>2, <2>1, <2>2, <2>3, <2>4, <2>5, <2>6 DEF Next
<1>3. TextInv /\ EgressInv /\ Begun => TypeOK
  BY DEF TextInv, WriterInv, EgressInv, TypeOK, Places, Stages, Reports
<1> HIDE DEF Begun
<1>4. EgressInv /\ Begun /\ [Next]_vars => Begun'
  BY <1>2
<1> QED BY <1>1, <1>3, <1>4, TextInvariance, EgressInvariance, PTL DEF Spec

\* Every account that is signed in has a profile in the file that init writes, unless one
\* account's name is another's with its id appended; whoever else writes the file.
THEOREM InitKeepsThem == Spec => InitKeepsAccounts
<1> DEFINE Keeps(c) ==
             Finishes(c) /\ result'[c] = "scaffolded" =>
               \/ \A i \in DOMAIN request[c] :
                    \E n \in DOMAIN file'.profiles :
                      file'.profiles[n].account = request[c][i].id
               \/ \E i, j \in DOMAIN request[c] :
                    request[c][i].name
                      = Append(request[c][j].name, request[c][j].id)
<1>1. ASSUME TextInv, [Next]_vars, NEW c \in Commands,
             Finishes(c), result'[c] = "scaffolded"
      PROVE  FillScaffold(c)
  <2>1. ~(\E d \in Commands : Up(d) \/ ApplyExitNode(d)) /\ ~Save
    BY <1>1 DEF TextInv, WriterInv, Finishes, Up, LoadForUp, Leave, Return, Writing,
                ApplyExitNode, config, Save
  <2>2. PICK d \in Commands : ChangeFile(d)
    BY <1>1, <2>1 DEF Next, Finishes, vars, config, Writing
  <2>3. d = c
    BY <1>1, <2>2
    DEF TextInv, WriterInv, Finishes, ChangeFile, StartInit, StartBootstrap, ReadOriginal,
        Truncate, FillScaffold, FillAppended, FillOriginal, Accept, RollBack, Kill, Leave,
        Return, Go, Writing
  <2> QED BY <1>1, <2>2, <2>3
          DEF TextInv, WriterInv, Finishes, ChangeFile, StartInit, StartBootstrap,
              ReadOriginal, Truncate, FillAppended, FillOriginal, Accept, RollBack, Kill,
              Leave, Return, Go, Report, Writing
<1>2. ASSUME TextInv, [Next]_vars, NEW c \in Commands PROVE Keeps(c)
  <2>1. SUFFICES ASSUME Finishes(c), result'[c] = "scaffolded", Apart(request[c])
                 PROVE  \A i \in DOMAIN request[c] :
                          \E n \in DOMAIN file'.profiles :
                            file'.profiles[n].account = request[c][i].id
    BY DEF Apart
  <2>2. FillScaffold(c)
    BY <1>1, <1>2, <2>1
  <2>3. file' = Scaffold(request[c]) /\ request[c] \in AccountLists \ {<< >>}
    BY <1>2, <2>2 DEF FillScaffold, WriteFile, TextInv, HoldsOf, Writing
  <2> QED BY <2>1, <2>3, ScaffoldKeeps
<1>3. TextInv /\ [Next]_vars => [\A c \in Commands : Keeps(c)]_vars
  BY <1>2
<1> QED BY TextInvariance, <1>3, PTL DEF Spec, InitKeepsAccounts

-----------------------------------------------------------------------------
(* The file between the commands.                                          *)

\* c has begun to write and is not through.
Dirty(c) ==
    \/ step[c] \in {"fill", "validate"}
    \/ step[c] = "truncate" /\ result[c] = "reverted"

\* While nobody who writes is raced: the file loads unless somebody is writing it, and
\* what bootstrap has read, and may have to write back, loads.
LoadsInv ==
    ~spoiled =>
      /\ (\A c \in Commands : ~Dirty(c)) => file = Absent \/ Loads(file)
      /\ \A c \in Commands :
           /\ step[c] = "read" => Loads(file)
           /\ step[c] \in {"truncate", "fill", "validate"} /\ result[c] # "scaffolded"
                => Loads(found[c])

LEMMA ChangesLoad ==
    ASSUME TextInv, LoadsInv, NEW c \in Commands, ChangeFile(c)
    PROVE  LoadsInv'
<1> SUFFICES ASSUME ~spoiled' PROVE LoadsInv'
  BY DEF LoadsInv
<1>1. ~spoiled
  BY ChangeFile(c)
  DEF ChangeFile, StartInit, StartBootstrap, ReadOriginal, Truncate, FillScaffold,
      FillAppended, FillOriginal, Accept, RollBack, Kill, WriteFile
<1>2. ASSUME NEW d \in Commands \ {c}
      PROVE  /\ step'[d] = step[d] /\ found'[d] = found[d] /\ result'[d] = result[d]
             /\ step[d] = "read" => file' = file
  <2> USE DEF Leave, Return, Go, Report, WriteFile, Writing
  <2>1. step'[d] = step[d] /\ found'[d] = found[d] /\ result'[d] = result[d]
    BY ChangeFile(c)
    DEF TextInv, WriterInv, ChangeFile, StartInit, StartBootstrap, ReadOriginal, Truncate,
        FillScaffold, FillAppended, FillOriginal, Accept, RollBack, Kill
  <2>2. step[d] = "read" => file' = file
    BY ChangeFile(c)
    DEF ChangeFile, StartInit, StartBootstrap, ReadOriginal, Truncate, FillScaffold,
        FillAppended, FillOriginal, Accept, RollBack, Kill
  <2> QED BY <2>1, <2>2
<1>3. /\ (\A d \in Commands : ~Dirty(d)) => file = Absent \/ Loads(file)
      /\ step[c] = "read" => Loads(file)
      /\ step[c] \in {"truncate", "fill", "validate"} /\ result[c] # "scaffolded"
           => Loads(found[c])
  BY <1>1 DEF LoadsInv
<1>4. /\ step'[c] = "read" => Loads(file')
      /\ step'[c] \in {"truncate", "fill", "validate"} /\ result'[c] # "scaffolded"
           => Loads(found'[c])
      /\ \/ Dirty(c)'
         \/ ~Dirty(c) /\ file' = file
         \/ file' = Absent \/ Loads(file')
  <2> USE <1>3, NamesAssumption
      DEF TextInv, WriterInv, Dirty, Leave, Return, Go, Report, WriteFile, Writing
  <2>1. CASE StartInit(c)
    BY <2>1 DEF StartInit
  <2>2. CASE StartBootstrap(c)
    BY <2>2 DEF StartBootstrap
  <2>3. CASE ReadOriginal(c)
    BY <2>3 DEF ReadOriginal
  <2>4. CASE Truncate(c)
    BY <2>4 DEF Truncate
  <2>5. CASE FillScaffold(c)
    <3>1. file' = Scaffold(request[c]) /\ request[c] \in AccountLists \ {<< >>}
      BY <2>5 DEF FillScaffold, HoldsOf
    <3> QED BY <2>5, <3>1, ScaffoldLoads DEF FillScaffold
  <2>6. CASE FillAppended(c)
    BY <2>6 DEF FillAppended
  <2>7. CASE FillOriginal(c)
    BY <2>7 DEF FillOriginal
  <2>8. CASE Accept(c)
    BY <2>8 DEF Accept
  <2>9. CASE RollBack(c)
    BY <2>9 DEF RollBack, WriterOf
  <2>10. CASE Kill(c)
    BY <2>10 DEF Kill
  <2> QED BY <2>1, <2>2, <2>3, <2>4, <2>5, <2>6, <2>7, <2>8, <2>9, <2>10,
             ChangeFile(c) DEF ChangeFile
<1>5. \A d \in Commands \ {c} : Dirty(d)' = Dirty(d)
  BY <1>2 DEF Dirty
<1>6. (\A d \in Commands : ~Dirty(d)') => file' = Absent \/ Loads(file')
  BY <1>3, <1>4, <1>5
<1>7. ASSUME NEW d \in Commands \ {c}
      PROVE  /\ step'[d] = "read" => Loads(file')
             /\ step'[d] \in {"truncate", "fill", "validate"} /\ result'[d] # "scaffolded"
                  => Loads(found'[d])
  BY <1>1, <1>2 DEF LoadsInv
<1> QED BY <1>4, <1>6, <1>7 DEF LoadsInv

LEMMA NextLoads == ASSUME TextInv, LoadsInv, [Next]_vars PROVE LoadsInv'
<1>1. ASSUME NEW c \in Commands, Up(c) PROVE LoadsInv'
  <2>1. /\ UNCHANGED <<file, result, spoiled>>
        /\ step[c] \in {"idle", "up"}
        /\ \E place \in {"done", "exit"} : Leave(c, place)
    BY <1>1 DEF Up, LoadForUp, Return
  <2>2. \A d \in Commands : Dirty(d)' = Dirty(d)
    BY <2>1 DEF Dirty, Leave, TextInv, WriterInv
  <2> QED BY <2>1, <2>2 DEF LoadsInv, Leave, TextInv, WriterInv
<1>2. CASE Save
  <2>1. ~spoiled' => /\ ~spoiled /\ Loads(file')
                     /\ \A c \in Commands : step[c] \notin Writing
    BY <1>2 DEF Save
  <2> QED BY <1>2, <2>1 DEF LoadsInv, Save, Writing
<1>3. CASE UNCHANGED config
  BY <1>3 DEF LoadsInv, Dirty, config
<1> QED BY <1>1, <1>2, <1>3, ChangesLoad DEF Next, ApplyExitNode, vars

\* Whatever commands run one after the other on a file that loads, or is not there, the
\* next one can load it, if each was let to finish and the user saved no bad one.
THEOREM FileAlwaysLoads ==
    ASSUME \A f \in Found : f = Absent \/ Loads(f)
    PROVE  Spec => []FileLoads
<1>1. Init => LoadsInv
  BY DEF Init, ConfigInit, LoadsInv
<1>2. TextInv /\ LoadsInv /\ [Next]_vars => LoadsInv'
  BY NextLoads
<1>3. LoadsInv => FileLoads
  BY DEF LoadsInv, FileLoads, Dirty, Writing
<1> QED BY <1>1, <1>2, <1>3, TextInvariance, PTL DEF Spec
=============================================================================
