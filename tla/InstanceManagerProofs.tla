------------------------ MODULE InstanceManagerProofs ------------------------
(***************************************************************************)
(* Theorems about InstanceManager, for every value of its constants: the   *)
(* types of its variables, the mutual exclusion between bringing a daemon  *)
(* up and having one registered, and the linger flag of the rows.          *)
(*                                                                         *)
(* All three follow from one inductive invariant, IInv.  SpawnSparesTracked *)
(* alone is not inductive: that a registry without a live daemon stays so  *)
(* during a bring-up needs the spawn lock (SpawnLockOK), that every other  *)
(* writer of the row holds that lock too or only rewrites a row that was   *)
(* there (RegLockOK), and that no step revives a process (DieSpares).      *)
(***************************************************************************)
EXTENDS InstanceManager, TLAPS

UpPlaces  == Spawning \cup {"reuse", "finish", "claim", "await", "ready", "using"}
TxnPlaces == {"reuse", "finish", "claim", "fixing", "commit"}
Spawned   == Spawning \ {"clear", "spawn"}

\* What a command carries at each place.
CommandOK ==
    \A c \in Clients :
        /\ verb[c] \in {"up", "run"} => prof[c] \in Profiles /\ ct[c] \in CreateTimes
        /\ pc[c] \in UpPlaces => verb[c] \in {"up", "run"}
        /\ pc[c] = "down" => prof[c] \in Profiles
        /\ pc[c] \in Spawned => mine[c] \in Daemons
        /\ pc[c] \in {"finish", "claim"} => work[prof[c]] # None

\* One command is inside transaction(), and the rows it works on are those of
\* the file, up to their claims.
RegLockOK ==
    /\ regLock = None => work = NoRows
    /\ \A c \in Clients : pc[c] \in TxnPlaces => regLock = c
    /\ \A p \in Profiles : work[p] # None =>
          registry[p] # None /\ work[p].daemon = registry[p].daemon

SpawnLockOK == \A c \in Clients : pc[c] \in Spawning => spawnLock[prof[c]] = c

\* LingerIffUnheld, of the file and of the rows about to be written to it.
LingerOK ==
    \A p \in Profiles :
        /\ registry[p] # None => (registry[p].released <=> registry[p].holders = {})
        /\ work[p] # None => (work[p].released <=> work[p].holders = {})

IInv == TypeOK /\ CommandOK /\ RegLockOK /\ SpawnLockOK /\ SpawnSparesTracked /\ LingerOK

USE ConstantsAssumption, NoneAssumption
USE DEF rest, lockVars, regVars, cmdVars, ownVars, hostVars, procVars, prefVars, envVars,
        timeVars, NoRows, Places, Outcomes, Failures, Spawning, Spawned, UpPlaces, TxnPlaces
-----------------------------------------------------------------------------
(* The building blocks of the handlers.                                    *)

\* Die keeps the process table well typed and brings no process to life.
LEMMA DieSpares ==
    ASSUME TypeOK, NEW ds \in SUBSET Daemons, Die(ds)
    PROVE  /\ daemon' \in [Daemons -> Profiles \cup {None}]
           /\ zombies' \subseteq Daemons
           /\ running' \subseteq Daemons
           /\ \A d \in Daemons : daemon'[d] # None => daemon[d] # None
  <1> DEFINE unreaped == {d \in ds : /\ IsAlive(d)
                                     /\ \E c \in Clients : pc[c] = "using" /\ mine[c] = d}
  <1>1. daemon' = [d \in Daemons |-> IF d \in ds \ unreaped THEN None ELSE daemon[d]]
    BY Zenon DEF Die
  <1>2. zombies' = zombies \cup unreaped /\ running' = running \ ds
    BY Zenon DEF Die
  <1>3. unreaped \subseteq Daemons
    OBVIOUS
  <1> QED BY <1>1, <1>2, <1>3 DEF TypeOK

\* A claim clears released_at, and leaves the row well formed.
LEMMA AddHolderHolds ==
    ASSUME NEW row \in Row, NEW h \in Owners \X CreateTimes
    PROVE  /\ AddHolder(row, h) \in Row
           /\ AddHolder(row, h).daemon = row.daemon
           /\ AddHolder(row, h).holders # {}
           /\ AddHolder(row, h).released = FALSE
  <1> DEFINE claims == {g \in row.holders : g[1] # h[1]} \cup {h}
  <1>1. claims \in SUBSET (Owners \X CreateTimes) /\ claims # {}
    BY DEF Row
  <1>2. AddHolder(row, h) = [row EXCEPT !.holders = claims, !.released = FALSE]
    BY Zenon DEF AddHolder
  <1> HIDE DEF claims
  <1> QED BY <1>1, <1>2 DEF Row

\* What reap keeps of a row, and what down leaves of it, is a row as well.
LEMMA LiveHoldersHolds ==
    ASSUME NEW row \in Row
    PROVE  LET live == [row EXCEPT !.holders = LiveHolders(row)]
           IN  /\ live \in Row
               /\ live.daemon = row.daemon
               /\ live.released = row.released
               /\ live.holders = LiveHolders(row)
  <1>1. LiveHolders(row) \in SUBSET (Owners \X CreateTimes)
    BY DEF LiveHolders, Row
  <1> QED BY <1>1 DEF Row

LEMMA LeaveToHolds ==
    ASSUME NEW row \in Row, NEW left \in SUBSET row.holders, row.released => left = {}
    PROVE  /\ LeaveTo(row, left) \in Row
           /\ LeaveTo(row, left).daemon = row.daemon
           /\ LeaveTo(row, left).released <=> LeaveTo(row, left).holders = {}
  <1> DEFINE new == row.released \/ left = {}
  <1>1. /\ new \in BOOLEAN /\ (new <=> left = {})
        /\ left \in SUBSET (Owners \X CreateTimes)
    BY DEF Row
  <1>2. LeaveTo(row, left) = [row EXCEPT !.holders = left, !.released = new]
    BY DEF LeaveTo, Row
  <1> HIDE DEF new
  <1> QED BY <1>1, <1>2 DEF Row

\* The row that an `up` has claimed, before it is written.
Claimed(c) == AddHolder(work[prof[c]], Claimant(c))

\* A command about to claim a row has a profile and an owner to claim it with.
LEMMA ClaimedHolds ==
    ASSUME TypeOK, CommandOK, NEW c \in Clients, pc[c] \in {"reuse", "claim"},
           work[prof[c]] # None
    PROVE  /\ prof[c] \in Profiles
           /\ Claimed(c) \in Row
           /\ Claimed(c).daemon = work[prof[c]].daemon
           /\ Claimed(c).holders # {}
           /\ Claimed(c).released = FALSE
  <1>1. prof[c] \in Profiles /\ work[prof[c]] \in Row
    BY DEF TypeOK, CommandOK
  <1>2. Claimant(c) \in Owners \X CreateTimes
    BY DEF TypeOK, CommandOK, Claimant
  <1> QED BY <1>1, <1>2, AddHolderHolds DEF Claimed

\* A relay that is started gets an owner: the command, and the profile.
LEMMA StartForwardStep ==
    ASSUME IInv, NEW c \in Clients, pc[c] \in {"claim", "register"}, StartForward(c)
    PROVE  IInv'
  <1> USE DEF IInv, TypeOK
  <1>1. prof[c] \in Profiles
    BY DEF CommandOK
  <1>2. PICK f \in Forwarders : /\ relay' = [relay EXCEPT ![f] = prof[c]]
                                /\ started' = [started EXCEPT ![c] = @ \cup {f}]
    BY Zenon DEF StartForward
  <1>3. TypeOK'
    BY <1>1, <1>2 DEF StartForward
  <1>4. CommandOK' /\ RegLockOK' /\ SpawnLockOK' /\ SpawnSparesTracked' /\ LingerOK'
    BY DEF StartForward, CommandOK, RegLockOK, SpawnLockOK, SpawnSparesTracked, LingerOK,
           LiveRow, IsAlive
  <1> QED BY <1>3, <1>4

-----------------------------------------------------------------------------
(* The invariant holds initially and every step keeps it.                  *)

\* Nothing is registered, locked or running at first.
LEMMA InitIInv == Init => IInv
  <1> SUFFICES ASSUME Init PROVE IInv
    OBVIOUS
  <1> USE DEF Init
  <1>1. TypeOK
    BY DEF TypeOK
  <1>2. CommandOK
    BY DEF CommandOK, Verbs
  <1>3. RegLockOK
    BY DEF RegLockOK
  <1>4. SpawnLockOK
    BY DEF SpawnLockOK
  <1>5. SpawnSparesTracked
    BY DEF SpawnSparesTracked, LiveRow
  <1>6. LingerOK
    BY DEF LingerOK
  <1> QED BY <1>1, <1>2, <1>3, <1>4, <1>5, <1>6 DEF IInv

\* The end of a process, orderly or not, frees its locks and reaps its children.
LEMMA ExitStep ==
    ASSUME IInv, NEW c \in Clients, Exit(c)
    PROVE  IInv'
  <1> USE DEF IInv, TypeOK, CommandOK, RegLockOK, SpawnLockOK, SpawnSparesTracked, LingerOK,
              LiveRow, IsAlive
  <1>a. \A d \in Daemons : daemon'[d] # None => daemon[d] # None
    BY DEF Exit
  <1>1. TypeOK'
    BY DEF Exit, Goto
  <1>2. CommandOK'
    BY DEF Exit, Goto, Verbs
  <1>3. RegLockOK'
    BY DEF Exit, Goto
  <1>4. SpawnLockOK'
    BY DEF Exit, Goto
  <1>5. SpawnSparesTracked'
    BY <1>a DEF Exit, Goto, Row
  <1>6. LingerOK'
    BY DEF Exit, Goto
  <1> QED BY <1>1, <1>2, <1>3, <1>4, <1>5, <1>6

\* Starting and ending a command.
LEMMA UserStep ==
    ASSUME IInv, NEW c \in Clients,
           User(c) \/ Return(c) \/ RunCommand(c)
    PROVE  IInv'
  <1> USE DEF IInv, TypeOK, CommandOK, RegLockOK, SpawnLockOK, SpawnSparesTracked, LingerOK,
              LiveRow, IsAlive
  <1>1. ASSUME NEW v \in Verbs, NEW p \in Profiles, StartUp(c, v, p)
        PROVE  IInv'
    <2>1. TypeOK'
      <3>1. CASE c \in SelfOwned
        <4>1. PICK t \in CreateTimes : /\ born' = [born EXCEPT ![OwnerOf[c]] = t]
                                       /\ ct' = [ct EXCEPT ![c] = t]
          BY <1>1, <3>1 DEF StartUp
        <4> QED BY <1>1, <4>1 DEF StartUp, Start, Goto
      <3>2. CASE c \notin SelfOwned
        BY <1>1, <3>2 DEF StartUp, Start, Goto
      <3> QED BY <3>1, <3>2
    <2>2. CommandOK'
      BY <1>1 DEF StartUp, Start, Goto
    <2>3. RegLockOK'
      BY <1>1 DEF StartUp, Start, Goto
    <2>4. SpawnLockOK'
      BY <1>1 DEF StartUp, Start, Goto
    <2>5. SpawnSparesTracked'
      BY <1>1 DEF StartUp, Start, Goto
    <2>6. LingerOK'
      BY <1>1 DEF StartUp, Start, Goto
    <2> QED BY <2>1, <2>2, <2>3, <2>4, <2>5, <2>6
  <1>2. ASSUME NEW p \in Profiles, StartDown(c, p)
        PROVE  IInv'
    BY <1>2 DEF StartDown, Start, Goto
  <1>3. ASSUME NEW v \in Verbs, StartGlobal(c, v)
        PROVE  IInv'
    BY <1>3 DEF StartGlobal, Start, Goto
  <1>4. ASSUME NEW p \in Profiles, ScheduledReap(c, p)
        PROVE  IInv'
    BY <1>4 DEF ScheduledReap, Start, Goto
  <1>5. CASE Return(c)
    <2>1. Exit(c)
      BY <1>5 DEF Return
    <2> QED BY <2>1, ExitStep
  <1>6. CASE Crash(c)
    <2>1. Exit(c)
      BY <1>6 DEF Crash
    <2> QED BY <2>1, ExitStep
  <1>7. CASE RunCommand(c)
    BY <1>7 DEF RunCommand, Goto
  <1>8. CASE CommandEnds(c)
    BY <1>8 DEF CommandEnds, Pass, Goto
  <1> QED BY <1>1, <1>2, <1>3, <1>4, <1>5, <1>6, <1>7, <1>8, Zenon DEF User

\* The transactions of reap, shields, reset and down, and the sweep.
LEMMA TransactionStep ==
    ASSUME IInv, NEW c \in Clients,
           \/ ReapInplace(c)
           \/ FixShields(c)
           \/ TeardownAll(c)
           \/ CommitTxn(c)
           \/ Down(c)
           \/ SweepRead(c)
           \/ \E p \in Profiles : SweepOne(c, p)
    PROVE  IInv'
  <1> USE DEF IInv, TypeOK, CommandOK, RegLockOK, SpawnLockOK, SpawnSparesTracked, LingerOK,
              LiveRow, IsAlive
  <1>1. CASE ReapInplace(c)
    <2>c. /\ daemon' \in [Daemons -> Profiles \cup {None}]
          /\ zombies' \subseteq Daemons
          /\ running' \subseteq Daemons
          /\ \A d \in Daemons : daemon'[d] # None => daemon[d] # None
      <3> DEFINE dropped == {p \in Profiles : registry[p] # None /\ ~Keeps(p)}
                 stale   == {p \in dropped : ~IsAlive(registry[p].daemon)}
                 dead    == {registry[p].daemon : p \in dropped \ stale}
                               \cup UNION {PidsForSocket(p) : p \in stale}
      <3>1. dead \in SUBSET Daemons
        BY DEF PidsForSocket, Row
      <3>2. Die(dead)
        BY <1>1, Zenon DEF ReapInplace
      <3> QED BY <3>1, <3>2, DieSpares
    <2>d. /\ work' \in [Profiles -> Row \cup {None}]
          /\ \A p \in Profiles : work'[p] # None =>
                /\ registry[p] # None /\ Keeps(p)
                /\ work'[p].daemon = registry[p].daemon
                /\ work'[p].released = registry[p].released
                /\ work'[p].holders = LiveHolders(registry[p])
      <3> DEFINE live(p) == [registry[p] EXCEPT !.holders = LiveHolders(registry[p])]
      <3>1. work' = [p \in Profiles |->
                       IF registry[p] = None \/ ~Keeps(p) THEN None ELSE live(p)]
        BY <1>1 DEF ReapInplace
      <3>2. ASSUME NEW p \in Profiles, registry[p] # None
            PROVE  /\ live(p) \in Row
                   /\ live(p).daemon = registry[p].daemon
                   /\ live(p).released = registry[p].released
                   /\ live(p).holders = LiveHolders(registry[p])
        BY <3>2, registry[p] \in Row, LiveHoldersHolds
      <3> HIDE DEF live
      <3> QED BY <3>1, <3>2
    <2>1. TypeOK'
      BY <1>1, <2>c, <2>d DEF ReapInplace, KillRelays, Unlink, Goto
    <2>2. CommandOK'
      BY <1>1, <2>d DEF ReapInplace, Goto, Row
    <2>3. RegLockOK'
      BY <1>1, <2>d DEF ReapInplace, Goto, Row
    <2>4. SpawnLockOK'
      BY <1>1, <2>d DEF ReapInplace, Goto, Row
    <2>5. SpawnSparesTracked'
      BY <1>1, <2>c DEF ReapInplace, Goto, Row
    <2>6. LingerOK'
      BY <1>1, <2>d DEF ReapInplace, Keeps, Lingering, LiveHolders, Goto, Row
    <2> QED BY <2>1, <2>2, <2>3, <2>4, <2>5, <2>6
  <1>2. CASE FixShields(c)
    <2>1. TypeOK'
      BY <1>2 DEF FixShields, Teardown, Die, KillRelays, Unlink, Goto, Row
    <2>2. CommandOK'
      BY <1>2 DEF FixShields, Teardown, Die, KillRelays, Unlink, Goto, Row
    <2>3. RegLockOK'
      BY <1>2 DEF FixShields, Teardown, Die, KillRelays, Unlink, Goto, Row
    <2>4. SpawnLockOK'
      BY <1>2 DEF FixShields, Teardown, Die, KillRelays, Unlink, Goto, Row
    <2>5. SpawnSparesTracked'
      BY <1>2 DEF FixShields, Teardown, Die, KillRelays, Unlink, Goto, Row
    <2>6. LingerOK'
      BY <1>2 DEF FixShields, Teardown, Die, KillRelays, Unlink, Goto, Row
    <2> QED BY <2>1, <2>2, <2>3, <2>4, <2>5, <2>6
  <1>3. CASE TeardownAll(c)
    BY <1>3 DEF TeardownAll, Teardown, Die, KillRelays, Unlink, Goto, Row
  <1>4. CASE CommitTxn(c)
    <2>1. TypeOK'
      BY <1>4 DEF CommitTxn, Commit, Goto
    <2>2. CommandOK'
      BY <1>4 DEF CommitTxn, Commit, Goto
    <2>3. RegLockOK'
      BY <1>4 DEF CommitTxn, Commit, Goto
    <2>4. SpawnLockOK'
      BY <1>4 DEF CommitTxn, Commit, Goto
    <2>5. SpawnSparesTracked'
      BY <1>4 DEF CommitTxn, Commit, Goto
    <2>6. LingerOK'
      BY <1>4 DEF CommitTxn, Commit, Goto
    <2> QED BY <2>1, <2>2, <2>3, <2>4, <2>5, <2>6
  <1>5. CASE Down(c)
    <2>c. /\ daemon' \in [Daemons -> Profiles \cup {None}]
          /\ zombies' \subseteq Daemons
          /\ running' \subseteq Daemons
          /\ \A d \in Daemons : daemon'[d] # None => daemon[d] # None
      <3>1. \/ UNCHANGED procVars
            \/ /\ prof[c] \in Profiles /\ registry[prof[c]] # None
               /\ Die({registry[q].daemon : q \in {prof[c]}})
        BY <1>5 DEF Down, Teardown
      <3>2. CASE prof[c] \in Profiles /\ registry[prof[c]] # None
                 /\ Die({registry[q].daemon : q \in {prof[c]}})
        <4>1. {registry[q].daemon : q \in {prof[c]}} \in SUBSET Daemons
          BY <3>2 DEF Row
        <4> QED BY <3>2, <4>1, DieSpares
      <3> QED BY <3>1, <3>2
    <2>d. /\ registry' \in [Profiles -> Row \cup {None}]
          /\ \A p \in Profiles : registry'[p] # None =>
                /\ registry[p] # None /\ registry'[p].daemon = registry[p].daemon
                /\ registry'[p].released <=> registry'[p].holders = {}
      <3> DEFINE row  == registry[prof[c]]
                 left == {h \in row.holders : h[1] # OwnerOf[c]}
      <3>1. prof[c] \in Profiles
        BY <1>5 DEF Down
      <3>2. ASSUME row # None
            PROVE  /\ LeaveTo(row, left) \in Row
                   /\ LeaveTo(row, left).daemon = row.daemon
                   /\ LeaveTo(row, left).released <=> LeaveTo(row, left).holders = {}
        <4>1. row \in Row /\ left \in SUBSET row.holders /\ (row.released => left = {})
          BY <3>1, <3>2
        <4> HIDE DEF left, row
        <4> QED BY <4>1, LeaveToHolds
      <3>3. \/ registry' = registry
            \/ row # None /\ registry' = [registry EXCEPT ![prof[c]] = LeaveTo(row, left)]
            \/ registry' = [registry EXCEPT ![prof[c]] = None]
        BY <1>5, Zenon DEF Down
      <3> HIDE DEF left
      <3>4. CASE registry' = registry
        BY <3>4
      <3>5. CASE row # None /\ registry' = [registry EXCEPT ![prof[c]] = LeaveTo(row, left)]
        BY <3>1, <3>2, <3>5
      <3>6. CASE registry' = [registry EXCEPT ![prof[c]] = None]
        BY <3>1, <3>6
      <3> QED BY <3>3, <3>4, <3>5, <3>6
    <2>1. TypeOK'
      BY <1>5, <2>c, <2>d DEF Down, KillRelays, Unlink, Teardown, Goto
    <2>2. CommandOK'
      BY <1>5 DEF Down, Goto, Row
    <2>3. RegLockOK'
      BY <1>5, <2>d DEF Down, Goto
    <2>4. SpawnLockOK'
      BY <1>5 DEF Down, Goto, Row
    <2>5. SpawnSparesTracked'
      BY <1>5, <2>c, <2>d DEF Down, Goto, Row
    <2>6. LingerOK'
      BY <1>5, <2>d DEF Down, Goto
    <2> QED BY <2>1, <2>2, <2>3, <2>4, <2>5, <2>6
  <1>6. CASE SweepRead(c)
    BY <1>6 DEF SweepRead, Goto
  <1>7. ASSUME NEW p \in Profiles, SweepOne(c, p)
        PROVE  IInv'
    <2> DEFINE dead == IF spawnLock[p] = None THEN PidsForSocket(p) ELSE {}
    <2>a. dead \in SUBSET Daemons
      BY <1>7 DEF PidsForSocket
    <2>b. Die(dead)
      BY <1>7, Zenon DEF SweepOne
    <2>c. /\ daemon' \in [Daemons -> Profiles \cup {None}]
          /\ zombies' \subseteq Daemons
          /\ running' \subseteq Daemons
          /\ \A d \in Daemons : daemon'[d] # None => daemon[d] # None
      BY <2>a, <2>b, DieSpares
    <2> HIDE DEF dead
    <2>1. TypeOK'
      BY <1>7, <2>c DEF SweepOne, Unlink, Goto
    <2>2. CommandOK'
      BY <1>7 DEF SweepOne, Unlink, Goto
    <2>3. RegLockOK'
      BY <1>7 DEF SweepOne, Unlink, Goto
    <2>4. SpawnLockOK'
      BY <1>7 DEF SweepOne, Unlink, Goto
    <2>5. SpawnSparesTracked'
      BY <1>7, <2>c DEF SweepOne, Unlink, Goto, Row
    <2>6. LingerOK'
      BY <1>7 DEF SweepOne, Unlink, Goto
    <2> QED BY <2>1, <2>2, <2>3, <2>4, <2>5, <2>6
  <1> QED BY <1>1, <1>2, <1>3, <1>4, <1>5, <1>6, <1>7, Zenon

\* up on a registered instance.
LEMMA ReuseStep ==
    ASSUME IInv, NEW c \in Clients,
           \/ ReuseAbsent(c)
           \/ ReusePending(c)
           \/ ReuseReady(c)
           \/ ReuseRefused(c)
           \/ ReuseShields(c)
           \/ ReuseExitFails(c)
           \/ ReuseExit(c)
           \/ ReuseForward(c)
           \/ ReuseNoPort(c)
           \/ Claim(c)
    PROVE  IInv'
  <1>a. pc[c] \in {"reuse", "claim"} /\ work[prof[c]] # None =>
            /\ prof[c] \in Profiles
            /\ Claimed(c) \in Row
            /\ Claimed(c).daemon = work[prof[c]].daemon
            /\ Claimed(c).holders # {}
            /\ Claimed(c).released = FALSE
    BY ClaimedHolds DEF IInv
  <1> USE DEF IInv, TypeOK, CommandOK, RegLockOK, SpawnLockOK, SpawnSparesTracked, LingerOK,
              LiveRow, IsAlive
  <1>1. CASE ReuseAbsent(c)
    <2>1. TypeOK'
      BY <1>1 DEF ReuseAbsent, Commit, Goto
    <2>2. CommandOK'
      BY <1>1 DEF ReuseAbsent, Commit, Goto
    <2>3. RegLockOK'
      BY <1>1 DEF ReuseAbsent, Commit, Goto
    <2>4. SpawnLockOK'
      BY <1>1 DEF ReuseAbsent, Commit, Goto
    <2>5. SpawnSparesTracked'
      BY <1>1 DEF ReuseAbsent, Commit, Goto
    <2>6. LingerOK'
      BY <1>1 DEF ReuseAbsent, Commit, Goto
    <2> QED BY <2>1, <2>2, <2>3, <2>4, <2>5, <2>6
  <1>2. CASE ReusePending(c)
    <2>a. pc[c] = "reuse" /\ work[prof[c]] # None
      BY <1>2 DEF ReusePending
    <2>b. /\ registry' = [work EXCEPT ![prof[c]] = Claimed(c)]
          /\ work' = NoRows /\ regLock' = None
      BY <1>2, Zenon DEF ReusePending, Commit, Claimed
    <2>1. TypeOK'
      BY <1>2, <1>a, <2>a, <2>b DEF ReusePending, Goto, Row
    <2>2. CommandOK'
      BY <1>2 DEF ReusePending, Commit, Goto, Row
    <2>3. RegLockOK'
      BY <1>2, <1>a, <2>a, <2>b DEF ReusePending, Goto, Row
    <2>4. SpawnLockOK'
      BY <1>2 DEF ReusePending, Commit, Goto, Row
    <2>5. SpawnSparesTracked'
      BY <1>2, <1>a, <2>a, <2>b DEF ReusePending, Goto, Row
    <2>6. LingerOK'
      BY <1>2, <1>a, <2>a, <2>b DEF ReusePending, Goto, Row
    <2> QED BY <2>1, <2>2, <2>3, <2>4, <2>5, <2>6
  <1>3. CASE ReuseReady(c)
    <2>a. pc[c] = "reuse" /\ work[prof[c]] # None
      BY <1>3 DEF ReuseReady
    <2>b. /\ registry' = [work EXCEPT ![prof[c]] = Claimed(c)]
          /\ work' = NoRows /\ regLock' = None
      BY <1>3, Zenon DEF ReuseReady, Commit, Claimed
    <2>1. TypeOK'
      BY <1>3, <1>a, <2>a, <2>b DEF ReuseReady, Goto, Row
    <2>2. CommandOK'
      BY <1>3 DEF ReuseReady, Commit, Goto, Row
    <2>3. RegLockOK'
      BY <1>3, <1>a, <2>a, <2>b DEF ReuseReady, Goto, Row
    <2>4. SpawnLockOK'
      BY <1>3 DEF ReuseReady, Commit, Goto, Row
    <2>5. SpawnSparesTracked'
      BY <1>3, <1>a, <2>a, <2>b DEF ReuseReady, Goto, Row
    <2>6. LingerOK'
      BY <1>3, <1>a, <2>a, <2>b DEF ReuseReady, Goto, Row
    <2> QED BY <2>1, <2>2, <2>3, <2>4, <2>5, <2>6
  <1>4. CASE ReuseRefused(c)
    <2>1. TypeOK'
      BY <1>4 DEF ReuseRefused, Abort, Teardown, Die, KillRelays, Unlink, Goto, Row
    <2>2. CommandOK'
      BY <1>4 DEF ReuseRefused, Abort, Teardown, Die, KillRelays, Unlink, Goto, Row
    <2>3. RegLockOK'
      BY <1>4 DEF ReuseRefused, Abort, Teardown, Die, KillRelays, Unlink, Goto, Row
    <2>4. SpawnLockOK'
      BY <1>4 DEF ReuseRefused, Abort, Teardown, Die, KillRelays, Unlink, Goto, Row
    <2>5. SpawnSparesTracked'
      BY <1>4 DEF ReuseRefused, Abort, Teardown, Die, KillRelays, Unlink, Goto, Row
    <2>6. LingerOK'
      BY <1>4 DEF ReuseRefused, Abort, Teardown, Die, KillRelays, Unlink, Goto, Row
    <2> QED BY <2>1, <2>2, <2>3, <2>4, <2>5, <2>6
  <1>5. CASE ReuseShields(c)
    BY <1>5 DEF ReuseShields, Goto
  <1>6. CASE ReuseExitFails(c)
    BY <1>6 DEF ReuseExitFails, Abort, Goto, Row
  <1>7. CASE ReuseExit(c) \/ ReuseForward(c)
    <2>1. CASE ReuseExit(c)
      BY <2>1 DEF ReuseExit, ApplyExitNode, Goto
    <2>2. CASE ReuseForward(c)
      BY <2>2, StartForwardStep DEF ReuseForward
    <2> QED BY <1>7, <2>1, <2>2
  <1>8. CASE ReuseNoPort(c)
    BY <1>8 DEF ReuseNoPort, ForwardFails, Abort, Goto
  <1>9. CASE Claim(c)
    <2>a. pc[c] = "claim" /\ work[prof[c]] # None /\ prof[c] \in Profiles
      BY <1>9 DEF Claim
    <2>b. Claimed(c) \in Row /\ started[c] \in SUBSET Forwarders
      BY <1>a, <2>a
    <2> DEFINE claimed == [Claimed(c) EXCEPT !.finalized = TRUE, !.fwds = started[c]]
    <2>c. claimed \in Row
      BY <2>b DEF Row
    <2>d. /\ claimed.daemon = work[prof[c]].daemon
          /\ claimed.holders # {}
          /\ claimed.released = FALSE
      BY <1>a, <2>a, <2>b DEF Row
    <2>e. /\ registry' = [work EXCEPT ![prof[c]] = claimed]
          /\ work' = NoRows /\ regLock' = None
      BY <1>9, Zenon DEF Claim, Commit, Claimed
    <2> HIDE DEF claimed
    <2>1. TypeOK'
      BY <1>9, <2>a, <2>c, <2>d, <2>e DEF Claim, Goto, Row
    <2>2. CommandOK'
      BY <1>9 DEF Claim, Commit, Goto, Row
    <2>3. RegLockOK'
      BY <1>9, <2>a, <2>c, <2>d, <2>e DEF Claim, Goto, Row
    <2>4. SpawnLockOK'
      BY <1>9 DEF Claim, Commit, Goto, Row
    <2>5. SpawnSparesTracked'
      BY <1>9, <2>a, <2>c, <2>d, <2>e DEF Claim, Goto, Row
    <2>6. LingerOK'
      BY <1>9, <2>a, <2>c, <2>d, <2>e DEF Claim, Goto, Row
    <2> QED BY <2>1, <2>2, <2>3, <2>4, <2>5, <2>6
  <1> QED BY <1>1, <1>2, <1>3, <1>4, <1>5, <1>6, <1>7, <1>8, <1>9, Zenon

\* up on the slow path; the pid of a new daemon is in no row (FreshDaemon).
LEMMA SpawnStep ==
    ASSUME IInv, NEW c \in Clients,
           \/ AcquireSpawnLock(c)
           \/ ClearSocket(c)
           \/ Spawn(c)
           \/ SpawnFails(c)
           \/ Boot(c)
           \/ LoginRunning(c)
           \/ LoginPending(c)
           \/ BringUpFails(c)
           \/ EnforceShields(c)
           \/ SetExitNode(c)
           \/ SpawnForward(c)
           \/ ForwardsNoPort(c)
           \/ Register(c)
           \/ TimeoutExpired(c)
    PROVE  IInv'
  <1> USE DEF IInv, TypeOK, CommandOK, RegLockOK, SpawnLockOK, SpawnSparesTracked, LingerOK,
              LiveRow, IsAlive
  <1>1. CASE AcquireSpawnLock(c)
    BY <1>1 DEF AcquireSpawnLock, Goto
  <1>2. CASE ClearSocket(c)
    <2> DEFINE dead == PidsForSocket(prof[c])
    <2>a. dead \in SUBSET Daemons
      BY <1>2 DEF PidsForSocket
    <2>b. Die(dead)
      BY <1>2, Zenon DEF ClearSocket
    <2>c. /\ daemon' \in [Daemons -> Profiles \cup {None}]
          /\ zombies' \subseteq Daemons
          /\ running' \subseteq Daemons
          /\ \A d \in Daemons : daemon'[d] # None => daemon[d] # None
      BY <2>a, <2>b, DieSpares
    <2> HIDE DEF dead
    <2>1. TypeOK'
      BY <1>2, <2>c DEF ClearSocket, Unlink, Goto
    <2>2. CommandOK'
      BY <1>2 DEF ClearSocket, Unlink, Goto
    <2>3. RegLockOK'
      BY <1>2 DEF ClearSocket, Unlink, Goto
    <2>4. SpawnLockOK'
      BY <1>2 DEF ClearSocket, Unlink, Goto
    <2>5. SpawnSparesTracked'
      BY <1>2, <2>c DEF ClearSocket, Unlink, Goto, Row
    <2>6. LingerOK'
      BY <1>2 DEF ClearSocket, Unlink, Goto
    <2> QED BY <2>1, <2>2, <2>3, <2>4, <2>5, <2>6
  <1>3. CASE Spawn(c)
    BY <1>3 DEF Spawn, FreshDaemon, Goto
  <1>4. CASE SpawnFails(c)
    <2>1. CASE Pass(c, "spawn", "failed")
      BY <2>1 DEF Pass, Goto
    <2>2. CASE Pass(c, "boot", "failed")
      BY <2>2 DEF Pass, Goto
    <2> QED BY <1>4, <2>1, <2>2 DEF SpawnFails
  <1>5. CASE Boot(c)
    BY <1>5 DEF Boot, Pass, Goto
  <1>6. CASE LoginRunning(c)
    BY <1>6 DEF LoginRunning, Pass, Goto
  <1>7. CASE LoginPending(c)
    BY <1>7 DEF LoginPending, Pass, Goto
  <1>8. CASE BringUpFails(c)
    <2> DEFINE dead == {mine[c]}
    <2>a. dead \in SUBSET Daemons
      BY <1>8 DEF BringUpFails, Goto
    <2>b. Die(dead)
      BY <1>8, Zenon DEF BringUpFails
    <2>c. /\ daemon' \in [Daemons -> Profiles \cup {None}]
          /\ zombies' \subseteq Daemons
          /\ running' \subseteq Daemons
          /\ \A d \in Daemons : daemon'[d] # None => daemon[d] # None
      BY <2>a, <2>b, DieSpares
    <2> HIDE DEF dead
    <2>1. TypeOK'
      <3>1. PICK place \in Failures : pc' = [pc EXCEPT ![c] = place]
        BY <1>8 DEF BringUpFails, Goto
      <3> QED BY <1>8, <2>c, <3>1 DEF BringUpFails, Unlink
    <2>2. CommandOK'
      BY <1>8 DEF BringUpFails, Unlink, Goto
    <2>3. RegLockOK'
      BY <1>8 DEF BringUpFails, Unlink, Goto
    <2>4. SpawnLockOK'
      BY <1>8 DEF BringUpFails, Unlink, Goto
    <2>5. SpawnSparesTracked'
      BY <1>8, <2>c DEF BringUpFails, Unlink, Goto, Row
    <2>6. LingerOK'
      BY <1>8 DEF BringUpFails, Unlink, Goto
    <2> QED BY <2>1, <2>2, <2>3, <2>4, <2>5, <2>6
  <1>9. CASE EnforceShields(c)
    BY <1>9 DEF EnforceShields, Goto
  <1>10. CASE SetExitNode(c)
    BY <1>10 DEF SetExitNode, ApplyExitNode, Goto
  <1>11. CASE SpawnForward(c)
    BY <1>11, StartForwardStep DEF SpawnForward
  <1>12. CASE ForwardsNoPort(c)
    BY <1>12 DEF ForwardsNoPort, ForwardFails, Goto
  <1>13. CASE Register(c)
    <2> DEFINE new == [daemon    |-> mine[c],
                       holders   |-> {Claimant(c)},
                       finalized |-> pc[c] = "register",
                       released  |-> FALSE,
                       fwds      |-> started[c]]
    <2>a. pc[c] \in {"register", "pending"} /\ prof[c] \in Profiles
      BY <1>13 DEF Register
    <2>b. new \in Row
      BY <2>a DEF Claimant, Row
    <2>c. registry' = [registry EXCEPT ![prof[c]] = new]
      BY <1>13, Zenon DEF Register
    <2>1. TypeOK'
      <3>1. /\ pc' \in [Clients -> Places]
            /\ started' \in [Clients -> SUBSET Forwarders]
        BY <1>13 DEF Register, Goto
      <3>2. registry' \in [Profiles -> Row \cup {None}]
        <4> HIDE DEF new
        <4> QED BY <2>a, <2>b, <2>c
      <3> QED BY <1>13, <3>1, <3>2 DEF Register
    <2>2. CommandOK'
      BY <1>13 DEF Register, Claimant, Goto, Row
    <2>3. RegLockOK'
      BY <1>13 DEF Register, Claimant, Goto, Row
    <2>4. SpawnLockOK'
      BY <1>13 DEF Register, Claimant, Goto, Row
    <2>5. SpawnSparesTracked'
      BY <1>13 DEF Register, Claimant, Goto, Row
    <2>6. LingerOK'
      BY <1>13 DEF Register, Claimant, Goto, Row
    <2> QED BY <2>1, <2>2, <2>3, <2>4, <2>5, <2>6
  <1>14. CASE TimeoutExpired(c)
    <2>1. TypeOK'
      <3>1. pc[c] \in {"reuse", "finish"} => work[prof[c]] \in Row
        BY <1>14 DEF TimeoutExpired
      <3>2. mine' \in [Clients -> Daemons \cup {None}]
        BY <1>14, <3>1 DEF TimeoutExpired, Row
      <3>3. /\ regLock' \in Clients \cup {None}
            /\ registry' \in [Profiles -> Row \cup {None}]
            /\ work' \in [Profiles -> Row \cup {None}]
        BY <1>14 DEF TimeoutExpired, Abort
      <3> QED BY <1>14, <3>2, <3>3 DEF TimeoutExpired, Goto
    <2>2. CommandOK'
      BY <1>14 DEF TimeoutExpired, Abort, Goto, Row
    <2>3. RegLockOK'
      BY <1>14 DEF TimeoutExpired, Abort, Goto, Row
    <2>4. SpawnLockOK'
      BY <1>14 DEF TimeoutExpired, Abort, Goto, Row
    <2>5. SpawnSparesTracked'
      BY <1>14 DEF TimeoutExpired, Abort, Goto, Row
    <2>6. LingerOK'
      BY <1>14 DEF TimeoutExpired, Abort, Goto, Row
    <2> QED BY <2>1, <2>2, <2>3, <2>4, <2>5, <2>6
  <1> QED BY <1>1, <1>2, <1>3, <1>4, <1>5, <1>6, <1>7, <1>8, <1>9, <1>10, <1>11, <1>12,
     <1>13, <1>14, Zenon

\* What happens to the host.
LEMMA EnvironmentStep ==
    ASSUME IInv, Environment
    PROVE  IInv'
  <1> USE DEF IInv, TypeOK, CommandOK, RegLockOK, SpawnLockOK, SpawnSparesTracked, LingerOK,
              LiveRow, IsAlive
  <1>1. ASSUME NEW d \in Daemons, DaemonDies(d)
        PROVE  IInv'
    <2> DEFINE dead == {d}
    <2>a. dead \in SUBSET Daemons
      BY <1>1 DEF DaemonDies
    <2>b. Die(dead)
      BY <1>1, Zenon DEF DaemonDies
    <2>c. /\ daemon' \in [Daemons -> Profiles \cup {None}]
          /\ zombies' \subseteq Daemons
          /\ running' \subseteq Daemons
          /\ \A e \in Daemons : daemon'[e] # None => daemon[e] # None
      BY <2>a, <2>b, DieSpares
    <2> HIDE DEF dead
    <2>1. TypeOK'
      BY <1>1, <2>c DEF DaemonDies
    <2>2. CommandOK'
      BY <1>1 DEF DaemonDies
    <2>3. RegLockOK'
      BY <1>1 DEF DaemonDies
    <2>4. SpawnLockOK'
      BY <1>1 DEF DaemonDies
    <2>5. SpawnSparesTracked'
      BY <1>1, <2>c DEF DaemonDies, Row
    <2>6. LingerOK'
      BY <1>1 DEF DaemonDies
    <2> QED BY <2>1, <2>2, <2>3, <2>4, <2>5, <2>6
  <1>2. ASSUME NEW d \in Daemons, LoginCompletes(d)
        PROVE  IInv'
    BY <1>2 DEF LoginCompletes
  <1>3. ASSUME NEW d \in Daemons, LoginLost(d)
        PROVE  IInv'
    BY <1>3 DEF LoginLost
  <1>4. ASSUME NEW p \in Profiles, ShieldsDrop(p)
        PROVE  IInv'
    BY <1>4 DEF ShieldsDrop
  <1>5. ASSUME NEW p \in Profiles, NEW e \in Nodes \cup {None}, EditProfile(p, e)
        PROVE  IInv'
    BY <1>5 DEF EditProfile
  <1>6. ASSUME NEW o \in Owners, OwnerDies(o)
        PROVE  IInv'
    BY <1>6 DEF OwnerDies
  <1>7. ASSUME NEW o \in Owners, OwnerStarts(o)
        PROVE  IInv'
    BY <1>7 DEF OwnerStarts
  <1>8. ASSUME NEW p \in Profiles, LingerElapses(p)
        PROVE  IInv'
    BY <1>8 DEF LingerElapses
  <1> QED BY <1>1, <1>2, <1>3, <1>4, <1>5, <1>6, <1>7, <1>8, Zenon DEF Environment

\* Every step of the system, and stuttering, keeps the invariant.
LEMMA NextIInv == IInv /\ [Next]_vars => IInv'
  <1> SUFFICES ASSUME IInv, [Next]_vars PROVE IInv'
    OBVIOUS
  <1>1. ASSUME NEW c \in Clients, Advance(c) PROVE IInv'
    BY <1>1, UserStep, TransactionStep, ReuseStep, SpawnStep DEF Advance
  <1>2. ASSUME NEW c \in Clients, Acquire(c) PROVE IInv'
    BY <1>2, TransactionStep, SpawnStep DEF Acquire
  <1>3. ASSUME NEW c \in Clients, User(c) PROVE IInv'
    BY <1>3, UserStep
  <1>4. CASE Environment
    BY <1>4, EnvironmentStep
  <1>5. CASE UNCHANGED vars
    BY <1>5 DEF vars, IInv, TypeOK, CommandOK, RegLockOK, SpawnLockOK, SpawnSparesTracked,
                LingerOK, LiveRow, IsAlive
  <1> QED BY <1>1, <1>2, <1>3, <1>4, <1>5 DEF Next

\* The strengthened invariant holds in every reachable state.
THEOREM Invariance == Spec => []IInv
  BY InitIInv, NextIInv, PTL DEF Spec
-----------------------------------------------------------------------------
(* What it gives.                                                          *)

\* Every variable stays in its type, whatever the commands, crashes and host do.
THEOREM TypeCorrect == Spec => []TypeOK
  <1>1. IInv => TypeOK
    BY DEF IInv
  <1> QED BY <1>1, Invariance, PTL

\* While a command brings a daemon up for a profile (_spawn_and_register under
\* the spawn lock), no live daemon is registered for that profile: no two `up`s
\* ever race to register, whatever dies, times out or is killed meanwhile.
THEOREM SpawnExclusive == Spec => []SpawnSparesTracked
  <1>1. IInv => SpawnSparesTracked
    BY DEF IInv
  <1> QED BY <1>1, Invariance, PTL

\* released_at is set exactly on the committed rows that nobody holds, so the
\* next reap neither keeps such a row for ever nor drops it before its window.
THEOREM LingerSound == Spec => []LingerIffUnheld
  <1>1. IInv => LingerIffUnheld
    BY DEF IInv, LingerOK, LingerIffUnheld
  <1> QED BY <1>1, Invariance, PTL
=============================================================================
