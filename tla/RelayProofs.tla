------------------------------ MODULE RelayProofs ------------------------------
(***************************************************************************)
(* A relay keeps an owner, for every value of the constants of             *)
(* InstanceManager: the row that names it, or the command that has started *)
(* it and is about to write it down, unless that command fails on a later  *)
(* forward.                                                                *)
(*                                                                         *)
(* A relay would be lost with the row that names it, so wherever a row is  *)
(* dropped or written over its relays must have been killed (Bare).  The   *)
(* one place where that is not the same transaction's doing is the         *)
(* bring-up, which registers over whatever row the profile has (SpareBare).*)
(***************************************************************************)
EXTENDS ReadyProofs

\* No relay of the row of p is left.
Bare(p) == \A f \in registry[p].fwds : relay[f] = None

\* The row that a transaction drops has no relays any more.
DroppedBare ==
    regLock # None => \A p \in Profiles : registry[p] # None /\ work[p] = None => Bare(p)

\* Relays are started once the instance has logged in.
PendingBare ==
    \A p \in Profiles : registry[p] # None /\ ~registry[p].finalized => registry[p].fwds = {}

FinishPending ==
    \A c \in Clients : pc[c] \in {"finish", "claim"} => ~work[prof[c]].finalized

\* A command that has started relays is in the loop, or about to write them down.
StartedAt == \A c \in Clients : started[c] # {} => pc[c] \in {"register", "claim"}

\* The row that a bring-up may register over has no relays, and so the row that the
\* re-check under the spawn lock finds, unless its daemon runs.
SpareBare ==
    \A c \in Clients, p \in Profiles : prof[c] = p /\ registry[p] # None =>
        /\ pc[c] \in Spawning => Bare(p)
        /\ pc[c] = "reuse" /\ spawnLock[p] = c /\ work[p] # None
           => registry[p].daemon \in PidsForSocket(p) \/ Bare(p)

\* The row whose daemon died under a `run`.
ZombieBare ==
    \A p \in Profiles : registry[p] # None /\ registry[p].daemon \in zombies => Bare(p)

USE ConstantsAssumption, NoneAssumption
-----------------------------------------------------------------------------
(* Relays that start and relays that stop.                                 *)

Starts(b, f) ==
    /\ SpawnForward(b) \/ ReuseForward(b)
    /\ FreshForwarder(f) /\ relay'[f] = prof[b] /\ started'[b] = started[b] \cup {f}

LEMMA StartsOne ==
    ASSUME TypeOK, NEW b \in Clients, StartForward(b), NEW f \in Forwarders
    PROVE  \/ relay'[f] = relay[f]
           \/ FreshForwarder(f) /\ relay'[f] = prof[b] /\ started'[b] = started[b] \cup {f}
  <1>1. PICK g \in Forwarders : /\ FreshForwarder(g)
                                /\ relay' = [relay EXCEPT ![g] = prof[b]]
                                /\ started' = [started EXCEPT ![b] = @ \cup {g}]
    BY Zenon DEF StartForward
  <1> QED BY <1>1 DEF TypeOK

LEMMA CommandRelays ==
    ASSUME TypeOK, NEW b \in Clients, CommandStep(b), NEW f \in Forwarders
    PROVE  relay'[f] \in {relay[f], None} \/ Starts(b, f)
  <1> USE DEF rest, hostVars
  <1>1. ASSUME NEW fs, KillRelays(fs) PROVE relay'[f] \in {relay[f], None}
    BY <1>1 DEF KillRelays
  <1>2. ReapInplace(b) => \E fs : KillRelays(fs)
    BY Zenon DEF ReapInplace
  <1>3. FixShields(b) \/ TeardownAll(b) \/ ReuseRefused(b) => \E fs : KillRelays(fs)
    BY Zenon DEF FixShields, TeardownAll, ReuseRefused, Teardown
  <1>4. Down(b) => relay' = relay \/ \E fs : KillRelays(fs)
    BY Zenon DEF Down, Teardown
  <1>5. ASSUME SpawnForward(b) \/ ReuseForward(b)
        PROVE  relay'[f] = relay[f] \/ Starts(b, f)
    BY <1>5, StartsOne DEF Starts, SpawnForward, ReuseForward
  <1>6. User(b) \/ Return(b) \/ RunCommand(b) => relay' = relay
    BY Zenon DEF User, StartUp, StartDown, ScheduledReap, StartGlobal, Start, CommandEnds, Pass,
       Crash, Return, Exit, RunCommand
  <1>7. CommitTxn(b) \/ SweepRead(b) \/ (\E q \in Profiles : SweepOne(b, q)) \/ ReuseAbsent(b)
        \/ ReusePending(b) \/ ReuseReady(b) \/ ReuseShields(b) \/ ReuseExitFails(b)
        \/ ReuseExit(b) \/ ReuseNoPort(b) \/ Claim(b) => relay' = relay
    BY Zenon DEF CommitTxn, SweepRead, SweepOne, ReuseAbsent, ReusePending, ReuseReady,
       ReuseShields, ReuseExitFails, ReuseExit, ReuseNoPort, Claim
  <1>8. ClearSocket(b) \/ Spawn(b) \/ SpawnFails(b) \/ Boot(b) \/ LoginRunning(b)
        \/ LoginPending(b) \/ EnforceShields(b) \/ SetExitNode(b) \/ BringUpFails(b)
        \/ ForwardsNoPort(b) \/ TimeoutExpired(b) \/ Register(b) \/ AcquireSpawnLock(b)
          => relay' = relay
    BY Zenon DEF ClearSocket, Spawn, SpawnFails, Boot, LoginRunning, LoginPending,
       EnforceShields, SetExitNode, BringUpFails, ForwardsNoPort, ForwardFails,
       TimeoutExpired, Register, AcquireSpawnLock, Pass
  <1> QED BY <1>1, <1>2, <1>3, <1>4, <1>5, <1>6, <1>7, <1>8, Zenon
     DEF CommandStep, Advance, Acquire

LEMMA WhoRelays ==
    ASSUME TypeOK, [Next]_vars, NEW f \in Forwarders
    PROVE  relay'[f] \in {relay[f], None} \/ \E b \in Clients : Starts(b, f)
  <1>1. Environment \/ UNCHANGED vars => relay' = relay
    BY Zenon DEF Environment, DaemonDies, LoginCompletes, LoginLost, ShieldsDrop, LingerElapses,
       EditProfile, OwnerDies, OwnerStarts, vars, rest, hostVars
  <1> QED BY <1>1, CommandRelays, WhoSteps

\* What is bare stays so: relays that start are in no row.
LEMMA BareStays ==
    ASSUME TypeOK, [Next]_vars, NEW p \in Profiles, registry[p] # None, Bare(p)
    PROVE  \A f \in registry[p].fwds : relay'[f] = None
  <1>1. SUFFICES ASSUME NEW f \in registry[p].fwds PROVE relay'[f] = None
    OBVIOUS
  <1>2. f \in Forwarders /\ relay[f] = None
    BY DEF TypeOK, Row, Bare
  <1>3. ASSUME NEW b \in Clients, Starts(b, f) PROVE FALSE
    BY <1>3 DEF Starts, FreshForwarder
  <1> QED BY <1>2, <1>3, WhoRelays

\* Killing the relays of some rows makes these bare.
LEMMA KillsRelays ==
    ASSUME TypeOK, NEW p \in Rows, NEW fs, registry[p].fwds \subseteq fs, KillRelays(fs)
    PROVE  \A f \in registry[p].fwds : relay'[f] = None
  <1>1. registry[p].fwds \subseteq Forwarders
    BY DEF Rows, TypeOK, Row
  <1> QED BY <1>1 DEF KillRelays

\* A reap kills the relays of what it does not keep.
LEMMA ReapBares ==
    ASSUME TypeOK, NEW b \in Clients, ReapInplace(b), NEW p \in Profiles,
           registry[p] # None, ~Keeps(p)
    PROVE  \A f \in registry[p].fwds : relay'[f] = None
  <1> DEFINE dropped == {q \in Profiles : registry[q] # None /\ ~Keeps(q)}
             fs == UNION {registry[q].fwds : q \in dropped}
  <1>1. KillRelays(fs)
    BY Zenon DEF ReapInplace
  <1>2. registry[p].fwds \subseteq fs /\ p \in Rows
    BY DEF Rows
  <1> HIDE DEF fs
  <1> QED BY <1>1, <1>2, KillsRelays

\* What stops the daemon of a row kills its relays as well.
LEMMA StopsBare ==
    ASSUME RowInv, NEW b \in Clients, NEW p \in Profiles, registry[p] # None, StopsRow(b, p),
           FixShields(b) => work'[p] = None
    PROVE  \A f \in registry[p].fwds : relay'[f] = None
  <1>1. TypeOK /\ p \in Rows
    BY DEF RowInv, HostInv, IInv, Rows
  <1>2. CASE ReapInplace(b) /\ ~Keeps(p)
    BY <1>1, <1>2, ReapBares
  <1>3. CASE FixShields(b)
    <2>1. PICK refused \in SUBSET {q \in Profiles : work[q] # None} :
            /\ Teardown(work, refused)
            /\ work' = [q \in Profiles |-> IF q \in refused THEN None ELSE work[q]]
      BY <1>3, Zenon DEF FixShields
    <2>2. work[p] # None
      BY <1>3 DEF StopsRow, FixShields, TeardownAll, ReapInplace, Down, ReuseRefused
    <2> DEFINE fs == UNION {work[q].fwds : q \in refused}
    <2>3. p \in refused
      BY <1>3, <2>1, <2>2
    <2>4. KillRelays(fs) /\ registry[p].fwds \subseteq fs
      BY <2>1, <2>2, <2>3 DEF RowInv, WorkSame, Teardown
    <2> HIDE DEF fs
    <2> QED BY <1>1, <2>4, KillsRelays
  <1>4. CASE TeardownAll(b)
    <2> DEFINE fs == UNION {registry[q].fwds : q \in Rows}
    <2>1. KillRelays(fs)
      BY <1>4, Zenon DEF TeardownAll, Teardown, Rows
    <2>2. registry[p].fwds \subseteq fs
      BY <1>1
    <2> HIDE DEF fs
    <2> QED BY <1>1, <2>1, <2>2, KillsRelays
  <1>5. CASE Down(b) /\ prof[b] = p /\ ~Linger /\ \A h \in registry[p].holders : h[1] = OwnerOf[b]
    <2>1. Teardown(registry, {p})
      <3>1. {h \in registry[p].holders : h[1] # OwnerOf[b]} = {}
        BY <1>5
      <3> QED BY <1>5, <3>1, Zenon DEF Down
    <2> DEFINE fs == UNION {registry[q].fwds : q \in {p}}
    <2>2. KillRelays(fs) /\ registry[p].fwds \subseteq fs
      BY <2>1 DEF Teardown
    <2> HIDE DEF fs
    <2> QED BY <1>1, <2>2, KillsRelays
  <1>6. CASE ReuseRefused(b) /\ prof[b] = p
    <2> DEFINE fs == UNION {work[q].fwds : q \in {p}}
    <2>1. KillRelays(fs) /\ work[p] # None
      BY <1>6 DEF ReuseRefused, Teardown
    <2>2. registry[p].fwds \subseteq fs
      BY <2>1 DEF RowInv, WorkSame
    <2> HIDE DEF fs
    <2> QED BY <1>1, <2>1, <2>2, KillsRelays
  <1> QED BY <1>2, <1>3, <1>4, <1>5, <1>6 DEF StopsRow

LEMMA DroppedBareHolds ==
    ASSUME RowInv, DroppedBare, [Next]_vars
    PROVE  DroppedBare'
  <1>1. IInv /\ TypeOK
    BY DEF RowInv, HostInv, IInv
  <1>2. SUFFICES ASSUME regLock' # None,
                        NEW p \in Profiles, registry'[p] # None, work'[p] = None
                 PROVE  \A f \in registry[p].fwds : relay'[f] = None
    <2>1. regLock' # None => registry' = registry
      BY <1>1, LockedRows
    <2> QED BY <2>1 DEF DroppedBare, Bare
  <1>3. registry[p] # None
    BY <1>1, <1>2, LockedRows
  <1>4. CASE work[p] = None /\ regLock # None
    BY <1>1, <1>3, <1>4, BareStays DEF DroppedBare
  <1>5. CASE UNCHANGED <<regLock, work>>
    BY <1>2, <1>4, <1>5
  <1>6. ASSUME NEW b \in Clients, ReapInplace(b) \/ TeardownAll(b)
        PROVE  \A f \in registry[p].fwds : relay'[f] = None
    <2>1. ReapInplace(b) => ~Keeps(p)
      BY <1>1, <1>2, <1>3, ReapKeeps
    <2>2. TeardownAll(b) => StopsRow(b, p) /\ ~FixShields(b)
      BY DEF StopsRow, TeardownAll, FixShields
    <2> QED BY <1>1, <1>3, <1>6, <2>1, <2>2, ReapBares, StopsBare
  <1>7. ASSUME NEW b \in Clients, FixShields(b)
        PROVE  \A f \in registry[p].fwds : relay'[f] = None
    <2>1. regLock # None
      BY <1>1, <1>7 DEF FixShields, IInv, RegLockOK, TxnPlaces
    <2>2. CASE work[p] # None
      BY <1>2, <1>3, <1>7, <2>2, StopsBare DEF StopsRow
    <2> QED BY <1>4, <2>1, <2>2
  <1> QED BY <1>1, <1>2, <1>5, <1>6, <1>7, WhoWorks

\* The relays of a row that goes have been killed, by then or with it.
LEMMA RowsGoBare ==
    ASSUME RowInv, DroppedBare, [Next]_vars, NEW p \in Profiles,
           registry[p] # None, registry'[p] = None
    PROVE  \A f \in registry[p].fwds : relay'[f] = None
  <1>1. IInv /\ TypeOK /\ p \in Rows
    BY DEF RowInv, HostInv, IInv, Rows
  <1>2. CASE regLock # None /\ work[p] = None
    BY <1>1, <1>2, BareStays DEF DroppedBare
  <1>3. CASE Teardown(registry, {p})
    <2> DEFINE fs == UNION {registry[q].fwds : q \in {p}}
    <2>1. KillRelays(fs) /\ registry[p].fwds \subseteq fs
      BY <1>3 DEF Teardown
    <2> HIDE DEF fs
    <2> QED BY <1>1, <2>1, KillsRelays
  <1> QED BY <1>1, <1>2, <1>3, WhoDrops

-----------------------------------------------------------------------------
(* The places of a command that starts relays.                             *)

LEMMA FinishPendingHolds ==
    ASSUME RowInv, FinishPending, [Next]_vars
    PROVE  FinishPending'
  <1>1. IInv /\ TypeOK
    BY DEF RowInv, HostInv, IInv
  <1>2. SUFFICES ASSUME NEW c \in Clients, pc'[c] \in {"finish", "claim"}
                 PROVE  ~work'[prof'[c]].finalized
    BY DEF FinishPending
  <1>3. CASE Untouched(c)
    BY <1>1, <1>2, <1>3, HeldWork DEF Untouched, FinishPending
  <1>4. CASE SecurePath(c) /\ pc'[c] = "finish"
    BY <1>4 DEF SecurePath, ReuseShields, lockVars, regVars
  <1>5. CASE SecurePath(c) /\ pc'[c] = "claim"
    <2>1. pc[c] \in {"finish", "claim"} /\ prof'[c] = prof[c] /\ work' = work
      BY <1>5 DEF SecurePath, ReuseExit, ReuseForward, StartForward, lockVars, regVars
    <2> QED BY <2>1 DEF FinishPending
  <1>6. UNCHANGED <<lockVars, pc, cmdVars, ownVars>> => Untouched(c)
    BY DEF lockVars, cmdVars, ownVars, Untouched
  <1> QED BY <1>1, <1>2, <1>3, <1>4, <1>5, <1>6, WhoSteps, SecuresAlong DEF Shielded

\* A command starts relays on its way to write them down.
LEMMA StartedPath ==
    ASSUME TypeOK, NEW b \in Clients, CommandStep(b), started'[b] # {}
    PROVE  \/ started'[b] = started[b] /\ pc[b] \notin {"register", "claim"}
           \/ pc'[b] \in {"register", "claim"}
  <1> USE DEF rest, ownVars, Goto, TypeOK
  <1>1. Exit(b) \/ Claim(b) \/ Register(b) \/ ReuseNoPort(b) \/ ForwardsNoPort(b) => FALSE
    BY DEF Exit, Claim, Register, ReuseNoPort, ForwardsNoPort, ForwardFails
  <1>2. ReuseForward(b) \/ SpawnForward(b) => pc'[b] \in {"register", "claim"}
    BY DEF ReuseForward, SpawnForward, StartForward
  <1>3. User(b) \/ RunCommand(b) => Exit(b) \/ (started'[b] = started[b]
                                                  /\ pc[b] \notin {"register", "claim"})
    BY Zenon DEF User, StartUp, StartDown, ScheduledReap, StartGlobal, Start, CommandEnds,
       Pass, Crash, RunCommand
  <1>4. ReapInplace(b) \/ FixShields(b) \/ TeardownAll(b) \/ Down(b) \/ CommitTxn(b)
        \/ SweepRead(b) \/ (\E q \in Profiles : SweepOne(b, q)) \/ ReuseAbsent(b)
        \/ ReusePending(b) \/ ReuseReady(b) \/ ReuseRefused(b) \/ ReuseShields(b)
        \/ ReuseExitFails(b) \/ ReuseExit(b)
          => started' = started /\ pc[b] \notin {"register", "claim"}
    BY DEF ReapInplace, FixShields, TeardownAll, Down, CommitTxn, SweepRead, SweepOne,
           ReuseAbsent, ReusePending, ReuseReady, ReuseRefused, ReuseShields, ReuseExitFails,
           ReuseExit
  <1>5. ClearSocket(b) \/ Spawn(b) \/ SpawnFails(b) \/ Boot(b) \/ LoginRunning(b)
        \/ LoginPending(b) \/ BringUpFails(b) \/ EnforceShields(b) \/ SetExitNode(b)
        \/ AcquireSpawnLock(b)
          => started' = started /\ pc[b] \notin {"register", "claim"}
    BY DEF ClearSocket, Spawn, SpawnFails, Boot, LoginRunning, LoginPending, BringUpFails,
           EnforceShields, SetExitNode, AcquireSpawnLock, Pass
  <1>6. TimeoutExpired(b) => started' = started /\ pc[b] \notin {"register", "claim"}
    BY DEF TimeoutExpired
  <1> QED BY <1>1, <1>2, <1>3, <1>4, <1>5, <1>6, Zenon
     DEF CommandStep, Advance, Acquire, Return

LEMMA StartedAtHolds ==
    ASSUME TypeOK, StartedAt, [Next]_vars
    PROVE  StartedAt'
  <1>1. SUFFICES ASSUME NEW c \in Clients, started'[c] # {}
                 PROVE  pc'[c] \in {"register", "claim"}
    BY DEF StartedAt
  <1>2. CommandStep(c) => pc'[c] \in {"register", "claim"}
    BY <1>1, StartedPath DEF StartedAt
  <1>3. Untouched(c) => pc'[c] \in {"register", "claim"}
    BY <1>1 DEF Untouched, StartedAt
  <1>4. UNCHANGED <<lockVars, pc, cmdVars, ownVars>> => Untouched(c)
    BY DEF lockVars, cmdVars, ownVars, Untouched
  <1> QED BY <1>2, <1>3, <1>4, WhoSteps

\* Which it does, unless it fails on a later forward or is killed.
LEMMA StartedStep ==
    ASSUME TypeOK, NEW b \in Clients, CommandStep(b), pc[b] \in {"register", "claim"}
    PROVE  \/ Claim(b) \/ Register(b) \/ Crash(b)
           \/ (ReuseForward(b) \/ SpawnForward(b)) /\ StartForward(b)
           \/ pc'[b] = "failed"
  <1> USE DEF Outcomes, Failures
  <1>1. Return(b) => FALSE
    BY DEF Return
  <1>2. User(b) => Crash(b)
    BY DEF User, StartUp, StartDown, ScheduledReap, StartGlobal, Start, CommandEnds, Pass
  <1>3. ReapInplace(b) \/ FixShields(b) \/ TeardownAll(b) \/ Down(b) \/ CommitTxn(b)
        \/ SweepRead(b) \/ (\E q \in Profiles : SweepOne(b, q)) \/ ReuseAbsent(b)
        \/ ReusePending(b) \/ ReuseReady(b) \/ ReuseRefused(b) \/ ReuseShields(b)
        \/ ReuseExitFails(b) \/ ReuseExit(b) \/ RunCommand(b) => FALSE
    BY DEF ReapInplace, FixShields, TeardownAll, Down, CommitTxn, SweepRead, SweepOne,
           ReuseAbsent, ReusePending, ReuseReady, ReuseRefused, ReuseShields, ReuseExitFails,
           ReuseExit, RunCommand
  <1>4. ClearSocket(b) \/ Spawn(b) \/ SpawnFails(b) \/ Boot(b) \/ LoginRunning(b)
        \/ LoginPending(b) \/ BringUpFails(b) \/ EnforceShields(b) \/ SetExitNode(b)
        \/ AcquireSpawnLock(b) \/ TimeoutExpired(b) => FALSE
    BY DEF ClearSocket, Spawn, SpawnFails, Boot, LoginRunning, LoginPending, BringUpFails,
           EnforceShields, SetExitNode, AcquireSpawnLock, TimeoutExpired, Pass
  <1>5. ReuseForward(b) \/ SpawnForward(b) => StartForward(b)
    BY DEF ReuseForward, SpawnForward
  <1>6. ReuseNoPort(b) \/ ForwardsNoPort(b) => pc'[b] = "failed"
    BY DEF ReuseNoPort, ForwardsNoPort, ForwardFails, Goto, TypeOK
  <1> QED BY <1>1, <1>2, <1>3, <1>4, <1>5, <1>6, Zenon DEF CommandStep, Advance, Acquire

LEMMA PendingBareHolds ==
    ASSUME RowInv, PendingBare, StartedAt, [Next]_vars
    PROVE  PendingBare'
  <1>1. SUFFICES ASSUME NEW p \in Profiles, registry'[p] # None, ~registry'[p].finalized
                 PROVE  registry'[p].fwds = {}
    BY DEF PendingBare
  <1>2. CASE SameLogin(p)
    BY <1>1, <1>2 DEF SameLogin, PendingBare
  <1>3. ASSUME NEW b \in Clients, pc[b] # "register", Register(b) PROVE started[b] = {}
    BY <1>3 DEF Register, StartedAt
  <1> QED BY <1>1, <1>2, <1>3, RowLogin

-----------------------------------------------------------------------------
(* The rows that a bring-up writes over.                                   *)

LEMMA SpareBareHolds ==
    ASSUME RowInv, SpareBare, ZombieBare, [Next]_vars, ~May("daemonDies")
    PROVE  SpareBare'
  <1>1. HostInv /\ IInv /\ ServeInv /\ TypeOK /\ IInv'
    BY NextIInv DEF RowInv, HostInv, IInv
  <1>2. ASSUME NEW c \in Clients, NEW p \in Profiles, prof'[c] = p, registry'[p] # None,
               pc'[c] \in Spawning
        PROVE  \A f \in registry'[p].fwds : relay'[f] = None
    <2>1. CASE ReuseAbsent(c) /\ spawnLock[prof[c]] = c /\ prof'[c] = prof[c]
      <3>1. pc[c] = "reuse" /\ ~LiveRow(work, p) /\ registry' = work
        BY <1>2, <2>1 DEF ReuseAbsent, Commit
      <3>2. /\ registry[p] # None /\ work[p].daemon = registry[p].daemon
            /\ registry'[p].fwds = registry[p].fwds
        BY <1>1, <1>2, <3>1 DEF IInv, RegLockOK, RowInv, WorkSame
      <3>3. registry[p].daemon \notin PidsForSocket(p)
        BY <1>2, <3>1, <3>2 DEF LiveRow, IsAlive, PidsForSocket
      <3>4. Bare(p)
        BY <1>2, <2>1, <3>1, <3>2, <3>3 DEF SpareBare
      <3> QED BY <1>1, <3>2, <3>4, BareStays
    <2>2. CASE pc[c] \in Spawning /\ prof'[c] = prof[c]
      <3>1. work[p] = None
        BY <1>1, <1>2, <2>2 DEF ServeInv, SpawnNotWorked
      <3>2. ASSUME NEW b \in Clients, Claim(b), prof[b] = p PROVE FALSE
        BY <1>1, <3>1, <3>2 DEF Claim, IInv, CommandOK
      <3>3. ASSUME NEW b \in Clients, Register(b), prof[b] = p PROVE FALSE
        <4>1. pc[b] \in Spawning /\ pc'[b] \in {"ready", "auth"}
          BY <1>1, <3>3 DEF Register, Spawning, Goto, TypeOK
        <4>2. b = c
          BY <1>1, <1>2, <2>2, <3>3, <4>1, SpawnerAlone
        <4> QED BY <1>2, <4>1, <4>2 DEF Spawning
      <3>4. registry[p] # None /\ registry'[p].fwds = registry[p].fwds
        BY <1>2, <3>2, <3>3, RowLogin DEF SameLogin
      <3>5. Bare(p)
        BY <1>2, <2>2, <3>4 DEF SpareBare
      <3> QED BY <1>1, <3>4, <3>5, BareStays
    <2> QED BY <1>1, <1>2, <2>1, <2>2, WhoSpawns DEF Onward, Untouched, Spawned, Spawning
  <1>3. ASSUME NEW c \in Clients, NEW p \in Profiles, prof'[c] = p, pc'[c] = "reuse",
               spawnLock'[p] = c, work'[p] # None
        PROVE  \/ registry'[p].daemon \in PidsForSocket(p)'
               \/ \A f \in registry'[p].fwds : relay'[f] = None
    <2>1. CASE ReapInplace(c)
      <3>1. LeavesAlone(p) /\ registry' = registry
        BY <1>1, <1>3, <2>1, ReapSparesKept DEF ReapInplace
      <3>2. registry[p] # None /\ IsAlive(registry[p].daemon)
        BY <1>1, <1>3, <2>1, ReapSpares DEF Keeps
      <3>3. registry[p].daemon \in Daemons /\ daemon[registry[p].daemon] = p
        BY <1>1, <3>2 DEF IsAlive, ServeInv, RowServes, TypeOK, Row
      <3>4. CASE registry[p].daemon \in zombies
        BY <1>1, <3>1, <3>2, <3>4, BareStays DEF ZombieBare
      <3> QED BY <3>1, <3>3, <3>4 DEF LeavesAlone, PidsForSocket
    <2>2. CASE Untouched(c)
      <3>1. pc[c] = "reuse" /\ prof[c] = p /\ regLock = c
        BY <1>1, <1>3, <2>2 DEF Untouched, IInv, RegLockOK, TxnPlaces
      <3>2. spawnLock[p] = c
        <4>1. ASSUME NEW b \in Clients, AcquireSpawnLock(b)
              PROVE  spawnLock'[p] \in {b, spawnLock[p]} /\ b # c
          BY <1>1, <3>1, <4>1 DEF AcquireSpawnLock, TypeOK
        <4> QED BY <1>1, <1>3, <4>1, LocksTaken, NoneAssumption
      <3>3. LeavesAlone(p)
        BY <1>1, <1>3, <3>1, <3>2, ReuseSpared
      <3>4. work' = work /\ registry' = registry
        BY <1>1, <1>3, <3>1, HeldWork
      <3>5. registry[p] # None
        BY <1>1, <1>3, <3>4 DEF IInv, RegLockOK
      <3>6. registry[p].daemon \in PidsForSocket(p) \/ Bare(p)
        BY <1>3, <3>1, <3>2, <3>4, <3>5 DEF SpareBare
      <3> QED BY <1>1, <3>3, <3>4, <3>5, <3>6, BareStays DEF LeavesAlone
    <2>3. UNCHANGED <<lockVars, pc, cmdVars, ownVars>> => Untouched(c)
      BY DEF lockVars, cmdVars, ownVars, Untouched
    <2> QED BY <1>1, <1>3, <2>1, <2>2, <2>3, ReusePath, WhoSteps
  <1> QED BY <1>2, <1>3 DEF SpareBare, Bare
-----------------------------------------------------------------------------
(* Relays keep their owners.                                               *)

\* A command that has started the relay f fails on a later forward.
Loses(c, f) == /\ f \in started[c] /\ pc[c] \in {"claim", "register"}
               /\ pc'[c] = "failed"

LEMMA RelayKept ==
    ASSUME RowInv, DroppedBare, PendingBare, FinishPending, StartedAt, SpareBare,
           [Next]_vars, Mortal = {}, NEW f \in Forwarders, relay'[f] # None,
           relay[f] # None => Tracked(f),
           \A c \in Clients : ~Loses(c, f)
    PROVE  Tracked(f)'
  <1>1. IInv /\ TypeOK
    BY DEF RowInv, HostInv, IInv
  <1>2. SUFFICES ASSUME NEW p, p = relay'[f], p # None
                 PROVE  \/ registry'[p] # None /\ f \in registry'[p].fwds
                        \/ \E c \in Clients : f \in started'[c] /\ prof'[c] = p
    BY DEF Tracked
  <1>3. ASSUME NEW b \in Clients, Starts(b, f)
        PROVE  f \in started'[b] /\ prof'[b] = p
    <2>1. prof' = prof
      BY <1>3 DEF Starts, SpawnForward, StartForward, ReuseForward, cmdVars
    <2> QED BY <1>2, <1>3, <2>1 DEF Starts
  <1>4. CASE relay'[f] = relay[f]
    <2>1. p \in Profiles /\ p = relay[f]
      BY <1>1, <1>2, <1>4 DEF TypeOK
    <2>2. CASE registry[p] # None /\ f \in registry[p].fwds
      <3>1. ~Bare(p)
        BY <1>2, <2>1, <2>2 DEF Bare
      <3>2. registry'[p] # None
        BY <1>2, <2>1, <2>2, RowsGoBare
      <3>3. ASSUME NEW b \in Clients, Claim(b), prof[b] = p PROVE FALSE
        <4>1. pc[b] = "claim" /\ work[p] # None
          BY <1>1, <3>3 DEF Claim, IInv, CommandOK
        <4>2. ~registry[p].finalized
          BY <2>1, <3>3, <4>1 DEF FinishPending, RowInv, WorkSame
        <4> QED BY <2>1, <2>2, <4>2 DEF PendingBare
      <3>4. ASSUME NEW b \in Clients, Register(b), prof[b] = p PROVE FALSE
        BY <2>1, <2>2, <3>1, <3>4 DEF Register, Spawning, SpareBare
      <3> QED BY <2>1, <2>2, <3>2, <3>3, <3>4, RowLogin DEF SameLogin
    <2>3. ASSUME NEW c \in Clients, f \in started[c], prof[c] = p
          PROVE  \/ registry'[p] # None /\ f \in registry'[p].fwds
                 \/ f \in started'[c] /\ prof'[c] = p
      <3>1. pc[c] \in {"register", "claim"}
        BY <2>3 DEF StartedAt
      <3>2. CASE Untouched(c)
        BY <2>3, <3>2 DEF Untouched
      <3>3. CASE Register(c)
        BY <1>1, <2>3, <3>3, StepRegisters, NoneAssumption
      <3>4. CASE Claim(c)
        <4>1. work[p] # None /\ Claimed(c) \in Row
          BY <1>1, <2>3, <3>4, ClaimedHolds DEF Claim, IInv, CommandOK
        <4>2. registry'[p] = [Claimed(c) EXCEPT !.finalized = TRUE, !.fwds = started[c]]
          BY <1>1, <2>1, <2>3, <3>4 DEF Claim, Commit, Claimed, IInv, TypeOK
        <4>3. registry'[p] \in Row
          BY <1>1, <4>1, <4>2 DEF IInv, TypeOK, Row
        <4> QED BY <2>3, <4>1, <4>2, <4>3, NoneAssumption DEF Row
      <3>5. ~Crash(c) /\ pc'[c] # "failed"
        BY <2>3, <3>1 DEF Crash, Loses
      <3>7. CASE StartForward(c)
        <4>1. prof' = prof /\ f \in started'[c]
          BY <1>1, <2>3, <3>7 DEF StartForward, cmdVars, TypeOK
        <4> QED BY <2>3, <4>1
      <3>6. UNCHANGED <<lockVars, pc, cmdVars, ownVars>> => Untouched(c)
        BY DEF lockVars, cmdVars, ownVars, Untouched
      <3> QED BY <1>1, <3>1, <3>2, <3>3, <3>4, <3>5, <3>6, <3>7, StartedStep, WhoSteps
    <2> QED BY <1>2, <2>1, <2>2, <2>3 DEF Tracked
  <1> QED BY <1>1, <1>2, <1>3, <1>4, WhoRelays

-----------------------------------------------------------------------------
(* A daemon that dies under its `run`, where nobody reaps.                 *)

\* The daemon that a command brings up is named by nobody else.
MineOwn ==
    \A b \in Clients : pc[b] \in Spawned =>
        /\ \A c \in Clients \ {b} : mine[c] # mine[b]
        /\ \A p \in Profiles : registry[p] # None => registry[p].daemon # mine[b]

\* A zombie is waited for by the `run` that has spawned it.
ZombieUsed ==
    \A z \in zombies : \E c \in Clients : mine[c] = z /\ pc[c] \in {"using", "down", "done"}

\* How a command comes to name a daemon.
Names(b) ==
    \/ mine'[b] \in {mine[b], None}
    \/ Spawn(b)
    \/ /\ prof[b] \in Profiles /\ work[prof[b]] # None
       /\ mine'[b] = work[prof[b]].daemon

LEMMA CommandNames == ASSUME IInv, NEW b \in Clients, CommandStep(b) PROVE Names(b)
  <1> USE DEF rest, ownVars
  <1>1. TypeOK /\ CommandOK
    BY DEF IInv
  <1>2. Exit(b) => mine'[b] = None
    BY <1>1 DEF Exit, TypeOK
  <1>3. User(b) \/ RunCommand(b) => Exit(b) \/ mine' = mine
    BY Zenon DEF User, StartUp, StartDown, ScheduledReap, StartGlobal, Start, CommandEnds,
       Pass, Crash, RunCommand
  <1>4. ReapInplace(b) \/ FixShields(b) \/ TeardownAll(b) \/ Down(b) \/ CommitTxn(b)
        \/ SweepRead(b) \/ (\E q \in Profiles : SweepOne(b, q)) \/ ReuseAbsent(b)
        \/ ReusePending(b) \/ ReuseReady(b) \/ ReuseShields(b) \/ ReuseNoPort(b)
        \/ ReuseExit(b) \/ ReuseForward(b) \/ Claim(b) => mine' = mine
    BY Zenon DEF ReapInplace, FixShields, TeardownAll, Down, CommitTxn, SweepRead, SweepOne,
       ReuseAbsent, ReusePending, ReuseReady, ReuseShields, ReuseNoPort, ForwardFails,
       ReuseExit, ReuseForward, StartForward, Claim
  <1>5. ClearSocket(b) \/ SpawnFails(b) \/ Boot(b) \/ LoginRunning(b)
        \/ LoginPending(b) \/ BringUpFails(b) \/ EnforceShields(b) \/ SetExitNode(b)
        \/ SpawnForward(b) \/ ForwardsNoPort(b) \/ Register(b) \/ AcquireSpawnLock(b)
          => mine' = mine
    BY Zenon DEF ClearSocket, SpawnFails, Boot, LoginRunning, LoginPending, BringUpFails,
       EnforceShields, SetExitNode, SpawnForward, StartForward, ForwardsNoPort,
       ForwardFails, Register, AcquireSpawnLock, Pass
  <1>6. pc[b] \in {"reuse", "finish"} => prof[b] \in Profiles
    BY <1>1 DEF CommandOK, UpPlaces
  <1>7. ReuseRefused(b) \/ ReuseExitFails(b) => Names(b)
    BY <1>1, <1>6 DEF ReuseRefused, ReuseExitFails, Names, TypeOK, CommandOK
  <1>8. TimeoutExpired(b) => Names(b)
    <2>1. TimeoutExpired(b) => \/ mine' = mine
                               \/ /\ pc[b] \in {"reuse", "finish"} /\ work[prof[b]] # None
                                  /\ mine' = [mine EXCEPT ![b] = work[prof[b]].daemon]
      BY <1>1 DEF TimeoutExpired, LiveRow, CommandOK
    <2> QED BY <1>1, <1>6, <2>1 DEF Names, TypeOK
  <1> QED BY <1>2, <1>3, <1>4, <1>5, <1>7, <1>8, Zenon
     DEF CommandStep, Advance, Acquire, Return, Names

LEMMA MineOwnHolds ==
    ASSUME HostInv, MineOwn, [Next]_vars
    PROVE  MineOwn'
  <1>1. IInv /\ ServeInv /\ TypeOK /\ IInv'
    BY NextIInv DEF HostInv, IInv
  <1>2. SUFFICES ASSUME NEW b \in Clients, pc'[b] \in Spawned
                 PROVE  /\ \A c \in Clients \ {b} : mine'[c] # mine'[b]
                        /\ \A p \in Profiles : registry'[p] # None => registry'[p].daemon # mine'[b]
    BY DEF MineOwn
  <1>3. mine'[b] \in Daemons
    BY <1>1, <1>2 DEF IInv, CommandOK
  <1>4. CASE Spawn(b)
    <2>1. FreshDaemon(mine'[b]) /\ mine' = [mine EXCEPT ![b] = mine'[b]]
      BY <1>1, <1>4, SpawnStarts
    <2>2. registry' = registry
      BY <1>4 DEF Spawn, lockVars, regVars
    <2> QED BY <1>1, <2>1, <2>2 DEF FreshDaemon, TypeOK
  <1>5. CASE pc[b] \in Spawned /\ mine'[b] = mine[b]
    <2>1. ASSUME NEW c \in Clients \ {b} PROVE mine'[c] # mine[b]
      <3>1. mine[c] # mine[b]
        BY <1>5 DEF MineOwn
      <3>2. ASSUME Spawn(c) PROVE mine'[c] # mine[b]
        BY <1>1, <3>2, SpawnStarts DEF FreshDaemon
      <3>3. ASSUME NEW q \in Profiles, work[q] # None PROVE work[q].daemon # mine[b]
        BY <1>1, <1>5, <3>3 DEF MineOwn, IInv, RegLockOK
      <3>4. Names(c) => mine'[c] # mine[b]
        BY <1>3, <1>5, <3>1, <3>2, <3>3 DEF Names
      <3>5. Untouched(c) \/ UNCHANGED <<lockVars, pc, cmdVars, ownVars>> => mine'[c] = mine[c]
        BY DEF Untouched, ownVars
      <3> QED BY <1>1, <3>1, <3>4, <3>5, CommandNames, WhoSteps
    <2>2. ASSUME NEW p \in Profiles, registry'[p] # None PROVE registry'[p].daemon # mine[b]
      <3>1. ASSUME NEW c \in Clients, Register(c) PROVE mine[c] # mine[b]
        <4>1. pc'[c] \in {"ready", "auth"}
          BY <1>1, <3>1 DEF Register, Goto, TypeOK
        <4>2. c # b
          BY <1>2, <4>1 DEF Spawned, Spawning
        <4> QED BY <1>5, <4>2 DEF MineOwn
      <3> QED BY <1>1, <1>5, <2>2, <3>1, RowDaemon DEF MineOwn
    <2> QED BY <1>5, <2>1, <2>2
  <1>6. pc'[b] \in Spawning /\ pc'[b] \notin {"clear", "spawn"}
    BY <1>2 DEF Spawned, Spawning
  <1>7. Onward(b) => Spawn(b) \/ (pc[b] \in Spawned /\ mine'[b] = mine[b])
    BY <1>6, Zenon DEF Onward
  <1>8. pc[b] \in Spawning /\ Untouched(b) => pc[b] \in Spawned /\ mine'[b] = mine[b]
    BY <1>6 DEF Untouched, Spawned
  <1> QED BY <1>1, <1>4, <1>5, <1>6, <1>7, <1>8, WhoSpawns

LEMMA UsedStep ==
    ASSUME TypeOK, NEW b \in Clients, CommandStep(b), pc[b] \in {"using", "down", "done"}
    PROVE  \/ Exit(b)
           \/ mine'[b] = mine[b] /\ pc'[b] \in {"using", "down", "done"}
  <1> USE DEF rest, ownVars, Goto, TypeOK
  <1>1. CommandEnds(b) \/ Down(b) => mine'[b] = mine[b] /\ pc'[b] \in {"using", "down", "done"}
    BY DEF CommandEnds, Pass, Down
  <1>2. User(b) => CommandEnds(b) \/ Exit(b)
    BY DEF User, StartUp, StartDown, ScheduledReap, StartGlobal, Start, Crash
  <1>3. ReapInplace(b) \/ FixShields(b) \/ TeardownAll(b) \/ CommitTxn(b)
        \/ SweepRead(b) \/ (\E q \in Profiles : SweepOne(b, q)) \/ ReuseAbsent(b)
        \/ ReusePending(b) \/ ReuseReady(b) \/ ReuseRefused(b) \/ ReuseShields(b)
        \/ ReuseExitFails(b) \/ ReuseNoPort(b) \/ RunCommand(b) => FALSE
    BY DEF ReapInplace, FixShields, TeardownAll, CommitTxn, SweepRead, SweepOne,
           ReuseAbsent, ReusePending, ReuseReady, ReuseRefused, ReuseShields, ReuseExitFails,
           ReuseNoPort, ForwardFails, RunCommand
  <1>4. ClearSocket(b) \/ Spawn(b) \/ SpawnFails(b) \/ Boot(b) \/ LoginRunning(b)
        \/ LoginPending(b) \/ BringUpFails(b) \/ EnforceShields(b) \/ SetExitNode(b)
        \/ ForwardsNoPort(b) \/ AcquireSpawnLock(b) \/ ReuseExit(b) \/ ReuseForward(b)
        \/ SpawnForward(b) \/ TimeoutExpired(b) \/ Claim(b) \/ Register(b) => FALSE
    BY DEF ClearSocket, Spawn, SpawnFails, Boot, LoginRunning, LoginPending, BringUpFails,
           EnforceShields, SetExitNode, ForwardsNoPort, ForwardFails, AcquireSpawnLock,
           ReuseExit, ReuseForward, StartForward, SpawnForward, TimeoutExpired, Claim,
           Register, Pass
  <1> QED BY <1>1, <1>2, <1>3, <1>4, Zenon DEF CommandStep, Advance, Acquire, Return

LEMMA ZombieUsedHolds ==
    ASSUME TypeOK, ZombieUsed, [Next]_vars
    PROVE  ZombieUsed'
  <1>1. SUFFICES ASSUME NEW z \in zombies'
                 PROVE  \E c \in Clients : mine'[c] = z /\ pc'[c] \in {"using", "down", "done"}
    BY DEF ZombieUsed
  <1>2. CASE z \notin zombies
    BY <1>2, ZombiesArise
  <1>3. CASE z \in zombies
    <2>1. PICK c \in Clients : mine[c] = z /\ pc[c] \in {"using", "down", "done"}
      BY <1>3 DEF ZombieUsed
    <2>2. Exit(c) => FALSE
      BY <2>1 DEF Exit, Reaped
    <2>3. CommandStep(c) \/ Untouched(c)
      <3>1. UNCHANGED <<lockVars, pc, cmdVars, ownVars>> => Untouched(c)
        BY DEF lockVars, cmdVars, ownVars, Untouched
      <3> QED BY <3>1, WhoSteps
    <2> QED BY <2>1, <2>2, <2>3, UsedStep DEF Untouched
  <1> QED BY <1>2, <1>3

LEMMA ZombieBareHolds ==
    ASSUME RowInv, VerbOK, MineOwn, ZombieUsed, FinishAlive, ZombieBare, [Next]_vars,
           ~May("daemonDies"), NoVerb("reap")
    PROVE  ZombieBare'
  <1>1. HostInv /\ IInv /\ ServeInv /\ TypeOK
    BY DEF RowInv, HostInv, IInv
  <1>2. SUFFICES ASSUME NEW p \in Profiles, registry'[p] # None, registry'[p].daemon \in zombies'
                 PROVE  \A f \in registry'[p].fwds : relay'[f] = None
    BY DEF ZombieBare, Bare
  <1>3. ASSUME NEW b \in Clients, Register(b), prof[b] = p PROVE FALSE
    <2>1. registry'[p].daemon = mine[b] /\ pc[b] \in Spawned /\ zombies' = zombies
      BY <1>1, <1>3, StepRegisters DEF Register, hostVars, procVars, Spawned, Spawning
    <2>2. PICK c \in Clients : mine[c] = mine[b] /\ pc[c] \in {"using", "down", "done"}
      BY <1>2, <2>1 DEF ZombieUsed
    <2> QED BY <2>1, <2>2 DEF MineOwn, Spawned, Spawning
  <1>4. registry[p] # None /\ registry'[p].daemon = registry[p].daemon
    BY <1>1, <1>2, <1>3, RowDaemon
  <1>5. ASSUME NEW b \in Clients, Claim(b), prof[b] = p PROVE FALSE
    <2>1. registry[p].daemon \in PidsForSocket(p) /\ zombies' = zombies
      BY <1>5 DEF Claim, FinishAlive, hostVars, procVars
    <2> QED BY <1>2, <1>4, <2>1 DEF PidsForSocket
  <1>6. registry'[p].fwds = registry[p].fwds
    BY <1>2, <1>3, <1>5, RowLogin DEF SameLogin
  <1>7. CASE registry[p].daemon \in zombies
    BY <1>1, <1>4, <1>6, <1>7, BareStays DEF ZombieBare
  <1>8. CASE registry[p].daemon \notin zombies
    <2>1. registry[p].daemon \in Daemons /\ IsAlive(registry[p].daemon)
      BY <1>1, <1>2, <1>4, <1>8, ZombiesArise DEF TypeOK, Row
    <2>2. registry[p].daemon \in PidsForSocket(p)
      BY <1>1, <1>4, <1>8, <2>1 DEF ServeInv, RowServes, IsAlive, PidsForSocket
    <2>3. registry[p].daemon \notin PidsForSocket(p)'
      BY <1>2, <1>4 DEF PidsForSocket
    <2>4. ~LeavesAlone(p) /\ LiveRow(registry, p)
      BY <1>4, <2>1, <2>2, <2>3 DEF LeavesAlone, LiveRow
    <2>5. ASSUME NEW b \in Clients, pc[b] \in Spawning PROVE prof[b] # p
      BY <1>1, <2>4, <2>5 DEF IInv, SpawnSparesTracked
    <2>6. ASSUME NEW b \in Clients, ClearsSocket(b, p) \/ (BringUpFails(b) /\ prof[b] = p)
          PROVE  FALSE
      <3>1. BringUpFails(b) \/ ClearSocket(b) => pc[b] \in Spawning
        BY DEF BringUpFails, ClearSocket, Spawning
      <3>2. ~SweepOne(b, p)
        BY DEF SweepOne, VerbOK, NoVerb, Verbs
      <3> QED BY <2>4, <2>5, <2>6, <3>1, <3>2 DEF ClearsSocket
    <2>7. ASSUME NEW b \in Clients, Spawn(b) PROVE FALSE
      <3>1. prof[b] # p
        BY <2>5, <2>7 DEF Spawn, Spawning
      <3> QED BY <1>1, <2>4, <2>7, <3>1, SpawnStarts
    <2>8. PICK b \in Clients : StopsRow(b, p)
      BY <1>1, <2>4, <2>6, <2>7, WhoDisturbs DEF Disturbance, Dies, DaemonDies
    <2>9. FixShields(b) => work'[p] = None
      <3>1. SUFFICES ASSUME FixShields(b), work'[p] # None PROVE LeavesAlone(p)
        BY <2>4
      <3>2. PICK refused \in SUBSET {q \in Profiles : work[q] # None} :
              /\ Teardown(work, refused)
              /\ work' = [q \in Profiles |-> IF q \in refused THEN None ELSE work[q]]
        BY <3>1, Zenon DEF FixShields
      <3>3. refused \in SUBSET Rows /\ \A q \in refused : work[q].daemon = registry[q].daemon
        BY <1>1 DEF Rows, IInv, RegLockOK
      <3>4. \A q \in Profiles \ refused : LeavesAlone(q)
        BY <1>1, <3>2, <3>3, TeardownDisturbs DEF ServeInv
      <3> QED BY <3>1, <3>2, <3>4
    <2> QED BY <1>1, <1>4, <1>6, <2>8, <2>9, StopsBare
  <1> QED BY <1>7, <1>8
-----------------------------------------------------------------------------
(* The theorem.                                                            *)

\* Commands are not killed half way and daemons do not die by themselves; and one that
\* dies under its `run` is not found dead by a sweep's doing.
Tended == Mortal = {} /\ ~May("daemonDies") /\ (NoVerb("run") \/ NoVerb("reap"))

RelayInv == DroppedBare /\ PendingBare /\ FinishPending /\ StartedAt /\ SpareBare

LEMMA ZombieBareInvariance ==
    ASSUME Tended
    PROVE  Spec => [](RowInv /\ ZombieBare)
  <1>1. CASE NoVerb("run")
    <2>1. RunFree => ZombieBare
      BY DEF RunFree, ZombieBare
    <2>2. Spec => []RunFree
      BY <1>1, RunFreeInvariance DEF Tended, Undying
    <2> QED BY <2>1, <2>2, RowInvariance, PTL
  <1>2. CASE NoVerb("reap")
    <2>1. Init => VerbOK /\ MineOwn /\ ZombieUsed /\ FinishAlive /\ ZombieBare
      BY InitVerb DEF Init, MineOwn, ZombieUsed, FinishAlive, ZombieBare, NoRows, Spawned,
         Spawning
    <2>2. RowInv /\ VerbOK /\ MineOwn /\ ZombieUsed /\ FinishAlive /\ ZombieBare /\ [Next]_vars
            => VerbOK' /\ MineOwn' /\ ZombieUsed' /\ FinishAlive' /\ ZombieBare'
      <3> SUFFICES ASSUME RowInv, VerbOK, MineOwn, ZombieUsed, FinishAlive, ZombieBare,
                          [Next]_vars
                   PROVE  VerbOK' /\ MineOwn' /\ ZombieUsed' /\ FinishAlive' /\ ZombieBare'
        OBVIOUS
      <3>1. HostInv /\ TypeOK /\ ~May("daemonDies")
        BY DEF RowInv, HostInv, IInv, Tended
      <3> QED BY <1>2, <3>1, VerbHolds, MineOwnHolds, ZombieUsedHolds, FinishAliveHolds,
                 ZombieBareHolds
    <2> QED BY <2>1, <2>2, RowInvariance, PTL DEF Spec
  <1> QED BY <1>1, <1>2 DEF Tended

\* A relay that runs is in the row of its profile, where a teardown finds it, or with
\* the command that is about to write it down, and stays accounted for until it is
\* stopped: only a command that fails on a later forward of the same profile loses
\* those that it has started, whatever else is refused, fails or times out, on a host
\* where no daemon dies by itself and no command is killed: with `reap`, which may
\* sweep a daemon away under a row, as long as nobody uses `run`.
THEOREM RelaysStayTracked ==
    ASSUME Mortal = {}, ~May("daemonDies"), NoVerb("run") \/ NoVerb("reap")
    PROVE  Spec => RelaysKept
  <1>1. Init => RelayInv
    BY DEF Init, RelayInv, DroppedBare, PendingBare, FinishPending, StartedAt, SpareBare, NoRows
  <1>2. RowInv /\ ZombieBare /\ RelayInv /\ [Next]_vars => RelayInv'
    <2> SUFFICES ASSUME RowInv, ZombieBare, RelayInv, [Next]_vars PROVE RelayInv'
      OBVIOUS
    <2>1. DroppedBare /\ PendingBare /\ FinishPending /\ StartedAt /\ SpareBare /\ TypeOK
      BY DEF RelayInv, RowInv, HostInv, IInv
    <2>2. DroppedBare' /\ FinishPending' /\ StartedAt' /\ PendingBare'
      BY <2>1, DroppedBareHolds, FinishPendingHolds, StartedAtHolds, PendingBareHolds
    <2>3. SpareBare'
      BY <2>1, SpareBareHolds
    <2> QED BY <2>2, <2>3 DEF RelayInv
  <1>3. RowInv /\ RelayInv /\ [Next]_vars =>
          \A f \in Forwarders : relay'[f] # None =>
             \/ Tracked(f)'
             \/ relay[f] # None /\ ~Tracked(f)
             \/ \E c \in Clients : /\ f \in started[c]
                                   /\ pc[c] \in {"claim", "register"}
                                   /\ pc'[c] = "failed"
    BY RelayKept, Zenon DEF RelayInv, Loses
  <1>4. Spec => [](RowInv /\ ZombieBare)
    BY ZombieBareInvariance DEF Tended
  <1> QED BY <1>1, <1>2, <1>3, <1>4, PTL DEF Spec, RelaysKept
================================================================================
