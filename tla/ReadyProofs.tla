------------------------------ MODULE ReadyProofs ------------------------------
(***************************************************************************)
(* What tailctl hands out, for every value of the constants of             *)
(* InstanceManager: that a finalized instance is secured, that one which a *)
(* living owner holds stays, as does what `up` and `run` answered.         *)
(*                                                                         *)
(* Each property needs the rows of the file beside those of a transaction  *)
(* in progress (WorkSame), and follows the rows through every writer       *)
(* (Rewrites) and the daemons through every killer (WhoDisturbs).          *)
(***************************************************************************)
EXTENDS SpawnProofs

USE ConstantsAssumption, NoneAssumption
-----------------------------------------------------------------------------
(* The rows of a transaction, and what it writes.                          *)

\* Up to its claims, a row that a transaction works on is that of the file.
WorkSame ==
    \A p \in Profiles : work[p] # None =>
        work[p].finalized = registry[p].finalized /\ work[p].fwds = registry[p].fwds

RowInv == HostInv /\ WorkSame

LEMMA WorkSameHolds == ASSUME RowInv, [Next]_vars PROVE WorkSame'
  <1>1. IInv /\ IInv' /\ TypeOK /\ WorkSame
    BY NextIInv DEF RowInv, HostInv, IInv
  <1>2. SUFFICES ASSUME NEW p \in Profiles, work'[p] # None
                 PROVE  /\ work'[p].finalized = registry'[p].finalized
                        /\ work'[p].fwds = registry'[p].fwds
    BY DEF WorkSame
  <1>3. work' # NoRows
    BY <1>2 DEF NoRows
  <1>4. registry' = registry
    BY <1>1, <1>3, LockedRows DEF IInv, RegLockOK
  <1>5. ASSUME NEW b \in Clients, FixShields(b) PROVE work'[p] = work[p]
    BY <1>2, <1>5 DEF FixShields
  <1>6. ASSUME NEW b \in Clients, ReapInplace(b)
        PROVE  /\ work'[p].finalized = registry[p].finalized
               /\ work'[p].fwds = registry[p].fwds
    BY <1>1, <1>2, <1>6, ReapKept DEF Kept
  <1>7. ASSUME NEW b \in Clients, TeardownAll(b) PROVE FALSE
    BY <1>3, <1>7 DEF TeardownAll
  <1>8. work'[p] = work[p] => /\ work'[p].finalized = registry[p].finalized
                              /\ work'[p].fwds = registry[p].fwds
    BY <1>1, <1>2 DEF WorkSame
  <1> QED BY <1>1, <1>3, <1>4, <1>5, <1>6, <1>7, <1>8, WhoWorks

LEMMA RowInvariance == Spec => []RowInv
  <1>1. Init => RowInv
    BY InitServe DEF RowInv, WorkSame, Init, NoRows
  <1>2. RowInv /\ [Next]_vars => RowInv'
    BY NextServe, WorkSameHolds DEF RowInv
  <1> QED BY <1>1, <1>2, PTL DEF Spec

\* What may become of what a row says of the login and the relays.
SameLogin(p) ==
    /\ registry[p] # None
    /\ registry'[p].finalized = registry[p].finalized
    /\ registry'[p].fwds = registry[p].fwds

LEMMA RowLogin ==
    ASSUME RowInv, [Next]_vars, NEW p \in Profiles, registry'[p] # None
    PROVE  \/ SameLogin(p)
           \/ \E b \in Clients : /\ Claim(b) /\ prof[b] = p /\ registry[p] # None
                                 /\ registry'[p].finalized /\ registry'[p].fwds = started[b]
           \/ \E b \in Clients : /\ Register(b) /\ prof[b] = p
                                 /\ registry'[p].finalized = (pc[b] = "register")
                                 /\ registry'[p].fwds = started[b]
  <1>1. IInv /\ TypeOK /\ registry[p] \in Row \cup {None} /\ work[p] \in Row \cup {None}
    BY DEF RowInv, HostInv, IInv, TypeOK
  <1>2. work[p] # None => /\ registry[p] # None
                          /\ work[p].finalized = registry[p].finalized
                          /\ work[p].fwds = registry[p].fwds
    BY <1>1 DEF RowInv, WorkSame, IInv, RegLockOK
  <1>3. CASE UNCHANGED registry
    BY <1>3 DEF SameLogin
  <1>4. ASSUME NEW b \in Clients, Rewrites(b, p)
        PROVE  \/ SameLogin(p)
               \/ /\ Claim(b) /\ prof[b] = p /\ registry[p] # None
                  /\ registry'[p].finalized /\ registry'[p].fwds = started[b]
               \/ /\ Register(b) /\ prof[b] = p
                  /\ registry'[p].finalized = (pc[b] = "register")
                  /\ registry'[p].fwds = started[b]
    <2>1. CASE registry'[p] = registry[p] \/ registry'[p] = work[p]
      BY <1>2, <2>1 DEF SameLogin
    <2>2. ASSUME pc[b] \in {"reuse", "claim"}, prof[b] = p, work[p] # None
          PROVE  /\ Claimed(b) \in Row
                 /\ Claimed(b).finalized = registry[p].finalized
                 /\ Claimed(b).fwds = registry[p].fwds
      <3>1. Claimed(b) \in Row
        BY <1>1, <2>2, ClaimedHolds DEF IInv
      <3>2. \E holders : Claimed(b) = [work[p] EXCEPT !.holders = holders, !.released = FALSE]
        BY <2>2 DEF Claimed, AddHolder
      <3>3. Claimed(b).finalized = work[p].finalized /\ Claimed(b).fwds = work[p].fwds
        BY <1>1, <2>2, <3>2 DEF Row
      <3> QED BY <1>2, <2>2, <3>1, <3>3
    <2>3. CASE (ReusePending(b) \/ ReuseReady(b)) /\ prof[b] = p /\ work[p] # None
               /\ registry'[p] = Claimed(b)
      BY <1>2, <2>2, <2>3 DEF ReusePending, ReuseReady, SameLogin
    <2>4. CASE Claim(b) /\ prof[b] = p /\ work[p] # None
               /\ registry'[p] = [Claimed(b) EXCEPT !.finalized = TRUE, !.fwds = started[b]]
      <3>1. Claimed(b) \in Row
        BY <2>2, <2>4 DEF Claim
      <3> QED BY <1>2, <2>4, <3>1 DEF Row
    <2>5. CASE Register(b) /\ prof[b] = p
      BY <1>1, <2>5, StepRegisters
    <2>6. CASE registry[p] # None /\ \E left : registry'[p] = LeaveTo(registry[p], left)
      BY <1>1, <2>6 DEF LeaveTo, Row, SameLogin
    <2> QED BY <1>4, <2>1, <2>3, <2>4, <2>5, <2>6, Zenon DEF Rewrites
  <1> QED BY <1>1, <1>3, <1>4, WhoWrites
-----------------------------------------------------------------------------
(* Shields and exit nodes.                                                 *)

\* A profile without an exit node has not been given one.
PrefOK == \A p \in Profiles : cfgExit[p] = None => pref[p] = None

\* What a command has secured by the places where it goes on to hand out an instance.
Shielded == {"exit", "register", "finish", "claim"}
Routed   == {"register", "claim"}

PlaceSecured ==
    \A c \in Clients : /\ pc[c] \in Shielded => prof[c] \in shields
                       /\ pc[c] \in Routed => pref[prof[c]] = cfgExit[prof[c]]

\* ReadyIsSecured, of rows whose daemon is dead as well.
RowSecured ==
    \A p \in Profiles :
        registry[p] # None /\ registry[p].finalized => p \in shields /\ pref[p] = cfgExit[p]

SecureInv == RowInv /\ PrefOK /\ PlaceSecured /\ RowSecured

\* Nothing that was secured is undone: only the environment lowers shields, and only
\* an edit of profiles.yaml asks for another exit node.
Secures ==
    /\ shields \subseteq shields' /\ cfgExit' = cfgExit
    /\ \A p \in Profiles : \/ pref'[p] = pref[p]
                           \/ cfgExit[p] # None /\ pref'[p] = cfgExit[p]

LEMMA StepSecures ==
    ASSUME TypeOK, [Next]_vars, ~May("shieldsDrop"), ~May("edit")
    PROVE  Secures
  <1> USE DEF rest, prefVars, envVars
  <1>1. CASE UNCHANGED <<shields, pref, cfgExit>>
    BY <1>1 DEF Secures
  <1>2. ASSUME NEW b \in Clients, User(b) PROVE UNCHANGED <<shields, pref, cfgExit>>
    BY <1>2, Zenon DEF User, StartUp, StartDown, ScheduledReap, StartGlobal, Start, CommandEnds,
       Pass, Crash, Exit
  <1>3. Environment \/ UNCHANGED vars => UNCHANGED <<shields, pref, cfgExit>>
    BY Zenon DEF Environment, DaemonDies, LoginCompletes, LoginLost, ShieldsDrop, LingerElapses,
       EditProfile, OwnerDies, OwnerStarts, vars
  <1>4. ASSUME NEW b \in Clients, ReuseExit(b) \/ SetExitNode(b)
        PROVE  Secures
    <2>1. shields' = shields /\ cfgExit' = cfgExit /\ ApplyExitNode(prof[b])
      BY <1>4 DEF ReuseExit, SetExitNode
    <2> QED BY <2>1 DEF Secures, ApplyExitNode, TypeOK
  <1>5. ASSUME NEW b \in Clients, EnforceShields(b) \/ ReuseReady(b) \/ ReuseShields(b)
                                  \/ FixShields(b)
        PROVE  Secures
    <2>1. shields \subseteq shields' /\ UNCHANGED <<pref, cfgExit>>
      BY <1>5 DEF EnforceShields, ReuseReady, ReuseShields, FixShields
    <2> QED BY <2>1 DEF Secures
  <1>6. ASSUME NEW b \in Clients,
               Return(b) \/ RunCommand(b) \/ CommitTxn(b) \/ SweepRead(b)
               \/ (\E q \in Profiles : SweepOne(b, q)) \/ ReuseAbsent(b) \/ ReusePending(b)
               \/ ReuseRefused(b) \/ ReuseExitFails(b) \/ Claim(b) \/ ReapInplace(b)
               \/ TeardownAll(b) \/ Down(b) \/ Register(b) \/ AcquireSpawnLock(b)
        PROVE  UNCHANGED <<shields, pref, cfgExit>>
    BY <1>6, Zenon DEF Return, Exit, RunCommand, CommitTxn, SweepRead, SweepOne, ReuseAbsent,
       ReusePending, ReuseRefused, ReuseExitFails, Claim, ReapInplace, TeardownAll, Down,
       Register, AcquireSpawnLock
  <1>7. ASSUME NEW b \in Clients,
               ClearSocket(b) \/ Spawn(b) \/ SpawnFails(b) \/ Boot(b) \/ LoginRunning(b)
               \/ LoginPending(b) \/ BringUpFails(b) \/ SpawnForward(b) \/ ForwardsNoPort(b)
               \/ TimeoutExpired(b) \/ ReuseForward(b) \/ ReuseNoPort(b)
        PROVE  UNCHANGED <<shields, pref, cfgExit>>
    BY <1>7, Zenon DEF ClearSocket, Spawn, SpawnFails, Boot, LoginRunning, LoginPending,
       BringUpFails, SpawnForward, StartForward, ForwardsNoPort, ForwardFails, TimeoutExpired,
       ReuseForward, ReuseNoPort, Pass
  <1> QED BY <1>1, <1>2, <1>3, <1>4, <1>5, <1>6, <1>7, Zenon DEF Next, Advance, Acquire

\* How a command comes to a place where an instance is secured.
SecurePath(c) ==
    /\ prof'[c] = prof[c]
    /\ pc'[c] = "finish" => ReuseShields(c)
    /\ pc'[c] = "exit" => EnforceShields(c)
    /\ pc'[c] = "register" => \/ EnforceShields(c) /\ cfgExit[prof[c]] = None
                              \/ SetExitNode(c) \/ SpawnForward(c)
    /\ pc'[c] = "claim" => ReuseExit(c) \/ ReuseForward(c)

LEMMA SecuresAlong ==
    ASSUME TypeOK, NEW b \in Clients, CommandStep(b), pc'[b] \in Shielded
    PROVE  SecurePath(b)
  <1> USE DEF rest, cmdVars, lockVars, Goto, TypeOK, Shielded, SecurePath
  <1>1. User(b) \/ Return(b) \/ RunCommand(b) => FALSE
    BY DEF User, StartUp, StartDown, ScheduledReap, StartGlobal, Start, CommandEnds, Pass,
       Crash, Return, Exit, RunCommand
  <1>2. FixShields(b) \/ TeardownAll(b) \/ Down(b) \/ CommitTxn(b) \/ ReuseAbsent(b)
        \/ ReusePending(b) \/ ReuseReady(b) \/ ReuseRefused(b)
        \/ ReuseExitFails(b) \/ ReuseNoPort(b) \/ Claim(b) => FALSE
    BY DEF FixShields, TeardownAll, Down, CommitTxn, ReuseAbsent, ReusePending, ReuseReady,
           ReuseRefused, ReuseExitFails, ReuseNoPort, ForwardFails, Claim
  <1>3. ClearSocket(b) \/ Spawn(b) \/ SpawnFails(b) \/ Boot(b) \/ LoginRunning(b)
        \/ LoginPending(b) \/ BringUpFails(b) \/ ForwardsNoPort(b) \/ TimeoutExpired(b)
        \/ Register(b) \/ AcquireSpawnLock(b) => FALSE
    BY DEF ClearSocket, Spawn, SpawnFails, Boot, LoginRunning, LoginPending, BringUpFails,
           ForwardsNoPort, ForwardFails, TimeoutExpired, Register, AcquireSpawnLock, Pass
  <1>4. SweepRead(b) => pc'[b] \in {"done", "sweeping"}
    BY DEF SweepRead
  <1>5. ASSUME NEW q \in Profiles, SweepOne(b, q) PROVE pc'[b] \in {"done", "sweeping"}
    BY <1>5 DEF SweepOne
  <1>6. ReapInplace(b) => pc'[b] \in {"reuse", "commit", "fixing"}
    BY DEF ReapInplace
  <1>7. ReuseShields(b) => SecurePath(b)
    BY DEF ReuseShields
  <1>8. ReuseExit(b) \/ ReuseForward(b) => SecurePath(b)
    BY DEF ReuseExit, ReuseForward, StartForward
  <1>9. EnforceShields(b) => SecurePath(b)
    <2>1. EnforceShields(b) => /\ prof'[b] = prof[b]
                               /\ \/ pc'[b] = "exit"
                                  \/ pc'[b] = "register" /\ cfgExit[prof[b]] = None
      BY DEF EnforceShields
    <2> QED BY <2>1
  <1>10. SetExitNode(b) => SecurePath(b)
    BY DEF SetExitNode
  <1>11. SpawnForward(b) => SecurePath(b)
    BY DEF SpawnForward, StartForward
  <1> QED BY <1>1, <1>2, <1>3, <1>4, <1>5, <1>6, <1>7, <1>8, <1>9, <1>10, <1>11, Zenon
     DEF CommandStep, Advance, Acquire, Shielded

LEMMA PlaceSecuredHolds ==
    ASSUME SecureInv, [Next]_vars, Secures
    PROVE  PlaceSecured'
  <1>1. TypeOK /\ IInv
    BY DEF SecureInv, RowInv, HostInv, IInv
  <1>2. SUFFICES ASSUME NEW c \in Clients, pc'[c] \in Shielded
                 PROVE  /\ prof'[c] \in shields'
                        /\ pc'[c] \in Routed => pref'[prof'[c]] = cfgExit'[prof'[c]]
    BY DEF PlaceSecured, Shielded, Routed
  <1>3. prof'[c] \in Profiles
    BY <1>1, <1>2, NextIInv DEF IInv, CommandOK, UpPlaces, Shielded, Spawning
  <1>s. ASSUME pc[c] \in Shielded, prof'[c] = prof[c]
        PROVE  /\ prof'[c] \in shields'
               /\ pc[c] \in Routed => pref'[prof'[c]] = cfgExit'[prof'[c]]
    <2>1. /\ prof[c] \in shields
          /\ pc[c] \in Routed => pref[prof[c]] = cfgExit[prof[c]]
      BY <1>s, Zenon DEF SecureInv, PlaceSecured
    <2>2. prof[c] \in shields'
      BY <2>1 DEF Secures
    <2>3. pref'[prof[c]] = pref[prof[c]] \/ pref'[prof[c]] = cfgExit[prof[c]]
      BY <1>3, <1>s DEF Secures
    <2> QED BY <1>s, <2>1, <2>2, <2>3 DEF Secures
  <1>4. CASE Untouched(c)
    BY <1>2, <1>4, <1>s DEF Untouched
  <1>5. CASE SecurePath(c)
    <2>1. pc[c] \in Shielded /\ prof'[c] = prof[c] =>
            /\ prof'[c] \in shields'
            /\ pc[c] \in Routed => pref'[prof'[c]] = cfgExit'[prof'[c]]
      BY <1>s
    <2>2. CASE ReuseShields(c) /\ pc'[c] = "finish"
      BY <1>5, <2>2 DEF SecurePath, ReuseShields, Routed
    <2>3. CASE EnforceShields(c) /\ (pc'[c] = "exit" \/ cfgExit[prof[c]] = None)
      <3>1. prof[c] \in shields' /\ pref' = pref /\ cfgExit' = cfgExit /\ prof'[c] = prof[c]
        BY <1>5, <2>3 DEF SecurePath, EnforceShields, envVars
      <3> QED BY <1>3, <2>3, <3>1 DEF SecureInv, PrefOK, Routed
    <2>4. CASE SetExitNode(c)
      <3>1. pc[c] = "exit" /\ ApplyExitNode(prof[c]) /\ cfgExit' = cfgExit /\ prof'[c] = prof[c]
        BY <1>5, <2>4 DEF SecurePath, SetExitNode, envVars
      <3> QED BY <1>1, <1>3, <2>1, <3>1 DEF Shielded, ApplyExitNode, TypeOK, SecureInv, PrefOK
    <2>5. CASE SpawnForward(c) \/ ReuseForward(c)
      <3>1. pc'[c] = pc[c] /\ prof'[c] = prof[c]
        BY <1>5, <2>5 DEF SecurePath, SpawnForward, ReuseForward, StartForward
      <3> QED BY <1>2, <2>1, <3>1
    <2>6. CASE ReuseExit(c)
      <3>1. pc[c] = "finish" /\ ApplyExitNode(prof[c]) /\ cfgExit' = cfgExit /\ prof'[c] = prof[c]
        BY <1>5, <2>6 DEF SecurePath, ReuseExit, envVars
      <3> QED BY <1>1, <1>3, <2>1, <3>1 DEF Shielded, ApplyExitNode, TypeOK, SecureInv, PrefOK
    <2> QED BY <1>2, <1>5, <2>2, <2>3, <2>4, <2>5, <2>6, Zenon DEF SecurePath, Shielded
  <1>6. UNCHANGED <<lockVars, pc, cmdVars, ownVars>> => Untouched(c)
    BY DEF lockVars, cmdVars, ownVars, Untouched
  <1> QED BY <1>1, <1>2, <1>4, <1>5, <1>6, WhoSteps, SecuresAlong

LEMMA RowSecuredHolds ==
    ASSUME SecureInv, [Next]_vars, Secures
    PROVE  RowSecured'
  <1>1. SUFFICES ASSUME NEW p \in Profiles, registry'[p] # None, registry'[p].finalized
                 PROVE  p \in shields' /\ pref'[p] = cfgExit'[p]
    BY DEF RowSecured
  <1>2. p \in shields /\ pref[p] = cfgExit[p] => p \in shields' /\ pref'[p] = cfgExit'[p]
    BY DEF Secures
  <1>3. CASE SameLogin(p)
    BY <1>1, <1>2, <1>3 DEF SameLogin, SecureInv, RowSecured
  <1>4. ASSUME NEW b \in Clients, prof[b] = p, pc[b] \in {"claim", "register"}
        PROVE  p \in shields' /\ pref'[p] = cfgExit'[p]
    <2>1. PlaceSecured
      BY DEF SecureInv
    <2>2. prof[b] \in shields /\ pref[prof[b]] = cfgExit[prof[b]]
      BY <1>4, <2>1 DEF PlaceSecured, Shielded, Routed
    <2> QED BY <1>2, <1>4, <2>2
  <1>5. ASSUME NEW b \in Clients, Claim(b) PROVE pc[b] = "claim"
    BY <1>5 DEF Claim
  <1> QED BY <1>1, <1>3, <1>4, <1>5, RowLogin DEF SecureInv

\* Where nobody lowers the shields behind tailctl's back, and profiles.yaml is not
\* edited under a running instance, each instance whose row is finalized has its
\* shields up and leaves through the exit node of the profile: on the slow path as on
\* reuse, and whatever fails, times out or is killed on the way.
THEOREM InstancesSecured ==
    ASSUME ~May("shieldsDrop"), ~May("edit")
    PROVE  Spec => []ReadyIsSecured
  <1>1. Init => PrefOK /\ PlaceSecured /\ RowSecured
    BY DEF Init, PrefOK, PlaceSecured, RowSecured, NoRows, Shielded, Routed
  <1>2. RowInv /\ PrefOK /\ PlaceSecured /\ RowSecured /\ [Next]_vars
          => PrefOK' /\ PlaceSecured' /\ RowSecured'
    <2> SUFFICES ASSUME SecureInv, [Next]_vars PROVE PrefOK' /\ PlaceSecured' /\ RowSecured'
      BY DEF SecureInv
    <2>1. Secures
      BY StepSecures DEF SecureInv, RowInv, HostInv, IInv
    <2>2. PrefOK'
      BY <2>1 DEF SecureInv, PrefOK, Secures
    <2> QED BY <2>1, <2>2, PlaceSecuredHolds, RowSecuredHolds
  <1>3. RowSecured => ReadyIsSecured
    BY DEF RowSecured, ReadyIsSecured, LiveRow
  <1> QED BY <1>1, <1>2, <1>3, RowInvariance, PTL DEF Spec
-----------------------------------------------------------------------------
(* Claims.                                                                 *)

LEMMA LeaseInvariance == Spec => []LeaseInv
  BY InitLeases, StepLeases, PTL DEF Spec

\* Where a claim comes from: it was there, or a command makes its own.
LEMMA RowHolders ==
    ASSUME LeaseInv, [Next]_vars, NEW p \in Profiles, registry'[p] # None,
           NEW h \in registry'[p].holders
    PROVE  \/ registry[p] # None /\ h \in registry[p].holders
           \/ \E b \in Clients : h = Claimant(b)
  <1>1. IInv /\ TypeOK /\ registry[p] \in Row \cup {None} /\ work[p] \in Row \cup {None}
    BY DEF LeaseInv, IInv, TypeOK
  <1>2. regLock # None /\ work[p] # None =>
           registry[p] # None /\ work[p].holders \subseteq registry[p].holders
    BY <1>1 DEF LeaseInv, WorkOK, Rows, Held, IInv, RegLockOK
  <1>3. CASE UNCHANGED registry
    BY <1>3
  <1>4. ASSUME NEW b \in Clients, Rewrites(b, p)
        PROVE  (registry[p] # None /\ h \in registry[p].holders) \/ h = Claimant(b)
    <2>1. CASE registry'[p] = registry[p]
      BY <2>1
    <2>2. CASE regLock = b /\ registry'[p] = work[p]
      BY <1>2, <2>2
    <2>3. ASSUME pc[b] \in {"reuse", "claim"}, prof[b] = p, work[p] # None
          PROVE  /\ Claimed(b) \in Row
                 /\ registry[p] # None
                 /\ Claimed(b).holders \subseteq registry[p].holders \cup {Claimant(b)}
      <3>1. Claimed(b) \in Row /\ regLock = b
        BY <1>1, <2>3, ClaimedHolds DEF IInv, RegLockOK, TxnPlaces
      <3>2. Claimed(b) = [work[p] EXCEPT !.holders = {g \in @ : g[1] # Claimant(b)[1]} \cup {Claimant(b)},
                                         !.released = FALSE]
        BY <2>3, Zenon DEF Claimed, AddHolder
      <3>3. Claimed(b).holders = {g \in work[p].holders : g[1] # Claimant(b)[1]} \cup {Claimant(b)}
        BY <1>1, <2>3, <3>2 DEF Row
      <3> QED BY <1>2, <2>3, <3>1, <3>3
    <2>4. CASE (ReusePending(b) \/ ReuseReady(b)) /\ prof[b] = p /\ work[p] # None
               /\ registry'[p] = Claimed(b)
      BY <2>3, <2>4 DEF ReusePending, ReuseReady
    <2>5. CASE Claim(b) /\ prof[b] = p /\ work[p] # None
               /\ registry'[p] = [Claimed(b) EXCEPT !.finalized = TRUE, !.fwds = started[b]]
      <3>1. /\ Claimed(b) \in Row /\ registry[p] # None
            /\ Claimed(b).holders \subseteq registry[p].holders \cup {Claimant(b)}
        BY <2>3, <2>5 DEF Claim
      <3>2. registry'[p].holders = Claimed(b).holders
        BY <2>5, <3>1 DEF Row
      <3> QED BY <3>1, <3>2
    <2>6. CASE Register(b) /\ prof[b] = p
      BY <1>1, <2>6, StepRegisters
    <2>7. ASSUME NEW left, left = {g \in registry[p].holders : g[1] # OwnerOf[b]},
                 registry[p] # None, registry'[p] = LeaveTo(registry[p], left)
          PROVE  h \in registry[p].holders
      <3>1. registry'[p].holders = left
        BY <1>1, <2>7 DEF LeaveTo, Row
      <3> QED BY <2>7, <3>1
    <2> QED BY <1>4, <2>1, <2>2, <2>4, <2>5, <2>6, <2>7 DEF Rewrites
  <1> QED BY <1>1, <1>3, <1>4, WhoWrites

\* A command that asks for an instance has started with its owner as it then was.
StartsAs(c) ==
    /\ ct'[c] = born'[OwnerOf[c]] /\ UNCHANGED registry
    /\ c \in SelfOwned \/ born' = born

LEMMA AsksAs ==
    ASSUME TypeOK, NEW b \in Clients, CommandStep(b), verb'[b] \in {"up", "run"}
    PROVE  StartsAs(b) \/ (verb'[b] = verb[b] /\ ct'[b] = ct[b] /\ born' = born)
  <1> USE DEF rest, lockVars, regVars, cmdVars, envVars, TypeOK
  <1>1. ASSUME NEW v \in Verbs, NEW p \in Profiles, StartUp(b, v, p) PROVE StartsAs(b)
    <2>1. UNCHANGED registry
      BY <1>1 DEF StartUp, Start
    <2>2. OwnerOf[b] \in Owners
      BY ConstantsAssumption
    <2>3. CASE b \in SelfOwned
      BY <1>1, <2>1, <2>2, <2>3 DEF StartUp, StartsAs
    <2>4. CASE b \notin SelfOwned
      BY <1>1, <2>1, <2>4 DEF StartUp, StartsAs
    <2> QED BY <2>3, <2>4
  <1>2. ASSUME NEW p \in Profiles, StartDown(b, p) \/ ScheduledReap(b, p) PROVE FALSE
    BY <1>2 DEF StartDown, ScheduledReap, Start
  <1>3. ASSUME NEW v \in Verbs, StartGlobal(b, v) PROVE FALSE
    BY <1>3 DEF StartGlobal, Start
  <1>4. Exit(b) => FALSE
    BY NoneAssumption DEF Exit, Verbs
  <1>5. ASSUME CommandEnds(b) \/ RunCommand(b) \/ FixShields(b) \/ CommitTxn(b) \/ TeardownAll(b)
               \/ Down(b) \/ SweepRead(b) \/ (\E q \in Profiles : SweepOne(b, q))
               \/ ReapInplace(b) \/ AcquireSpawnLock(b) \/ ReuseAbsent(b) \/ ReusePending(b)
               \/ ReuseReady(b) \/ ReuseRefused(b) \/ ReuseShields(b) \/ ReuseExitFails(b)
               \/ ReuseExit(b) \/ ReuseForward(b) \/ ReuseNoPort(b) \/ Claim(b)
        PROVE  UNCHANGED <<verb, ct, born>>
    BY <1>5, Zenon DEF CommandEnds, Pass, RunCommand, FixShields, CommitTxn, TeardownAll,
       Down, SweepRead, SweepOne, ReapInplace, AcquireSpawnLock, ReuseAbsent, ReusePending,
       ReuseReady, ReuseRefused, ReuseShields, ReuseExitFails, ReuseExit, ReuseForward,
       StartForward, ReuseNoPort, ForwardFails, Claim
  <1>6. ASSUME ClearSocket(b) \/ Spawn(b) \/ SpawnFails(b) \/ Boot(b) \/ LoginRunning(b)
               \/ LoginPending(b) \/ BringUpFails(b) \/ EnforceShields(b) \/ SetExitNode(b)
               \/ SpawnForward(b) \/ ForwardsNoPort(b) \/ TimeoutExpired(b) \/ Register(b)
        PROVE  UNCHANGED <<verb, ct, born>>
    BY <1>6, Zenon DEF ClearSocket, Spawn, SpawnFails, Boot, LoginRunning, LoginPending,
       BringUpFails, EnforceShields, SetExitNode, SpawnForward, StartForward,
       ForwardsNoPort, ForwardFails, TimeoutExpired, Register, Pass
  <1> QED BY <1>1, <1>2, <1>3, <1>4, <1>5, <1>6, Zenon
     DEF CommandStep, Advance, Acquire, User, Return, Crash
\* Who changes the process that has an owner's pid.
LEMMA WhoBears ==
    ASSUME TypeOK, [Next]_vars, NEW o \in Owners, born'[o] # born[o]
    PROVE  \/ /\ o \notin Processes
              /\ \/ born'[o] = None
                 \/ /\ May("pidReuse")
                    /\ \E t \in CreateTimes : FreshCreateTime(o, t) /\ born'[o] = t
           \/ \E b \in SelfOwned :
                /\ OwnerOf[b] = o /\ CommandStep(b)
                /\ \/ Exit(b) /\ born'[o] = None
                   \/ /\ pc[b] = "idle" /\ pc'[b] = "begin"
                      /\ \E t \in CreateTimes : FreshCreateTime(o, t) /\ born'[o] = t
  <1> USE DEF rest, envVars, TypeOK
  <1> DEFINE Owned == \/ /\ o \notin Processes
                         /\ \/ born'[o] = None
                            \/ /\ May("pidReuse")
                               /\ \E t \in CreateTimes : FreshCreateTime(o, t) /\ born'[o] = t
                      \/ \E b \in SelfOwned :
                           /\ OwnerOf[b] = o /\ CommandStep(b)
                           /\ \/ Exit(b) /\ born'[o] = None
                              \/ /\ pc[b] = "idle" /\ pc'[b] = "begin"
                                 /\ \E t \in CreateTimes : FreshCreateTime(o, t) /\ born'[o] = t
  <1>1. ASSUME NEW b \in Clients, NEW v \in Verbs, NEW p \in Profiles, StartUp(b, v, p)
        PROVE  Owned
    <2>1. CASE b \in SelfOwned
      <3>1. CommandStep(b)
        BY <1>1, Zenon DEF CommandStep, User
      <3>2. PICK t \in CreateTimes : /\ FreshCreateTime(OwnerOf[b], t)
                                     /\ born' = [born EXCEPT ![OwnerOf[b]] = t]
        BY <1>1, <2>1, Zenon DEF StartUp
      <3>3. OwnerOf[b] = o /\ born'[o] = t
        BY <3>2
      <3>4. pc[b] = "idle" /\ pc'[b] = "begin"
        BY <1>1 DEF StartUp, Start, Goto
      <3> QED BY <2>1, <3>1, <3>2, <3>3, <3>4
    <2>2. CASE b \notin SelfOwned
      BY <1>1, <2>2 DEF StartUp
    <2> QED BY <2>1, <2>2
  <1>2. ASSUME NEW b \in Clients, Exit(b), CommandStep(b) PROVE Owned
    <2>1. b \in SelfOwned /\ OwnerOf[b] = o /\ born'[o] = None
      BY <1>2 DEF Exit
    <2> QED BY <1>2, <2>1
  <1>3. ASSUME NEW b \in Clients, User(b)
        PROVE  \/ Exit(b) \/ born' = born
               \/ \E v \in Verbs, p \in Profiles : StartUp(b, v, p)
    BY <1>3, Zenon DEF User, StartDown, ScheduledReap, StartGlobal, CommandEnds, Pass, Crash
  <1>4. ASSUME NEW b \in Clients,
               RunCommand(b) \/ FixShields(b) \/ CommitTxn(b) \/ TeardownAll(b)
               \/ Down(b) \/ SweepRead(b) \/ (\E q \in Profiles : SweepOne(b, q))
               \/ ReapInplace(b) \/ AcquireSpawnLock(b) \/ ReuseAbsent(b) \/ ReusePending(b)
               \/ ReuseReady(b) \/ ReuseRefused(b) \/ ReuseShields(b) \/ ReuseExitFails(b)
               \/ ReuseExit(b) \/ ReuseForward(b) \/ ReuseNoPort(b) \/ Claim(b)
        PROVE  born' = born
    BY <1>4, Zenon DEF RunCommand, FixShields, CommitTxn, TeardownAll, Down, SweepRead,
       SweepOne, ReapInplace, AcquireSpawnLock, ReuseAbsent, ReusePending, ReuseReady,
       ReuseRefused, ReuseShields, ReuseExitFails, ReuseExit, ReuseForward, StartForward,
       ReuseNoPort, ForwardFails, Claim
  <1>5. ASSUME NEW b \in Clients,
               ClearSocket(b) \/ Spawn(b) \/ SpawnFails(b) \/ Boot(b) \/ LoginRunning(b)
               \/ LoginPending(b) \/ BringUpFails(b) \/ EnforceShields(b) \/ SetExitNode(b)
               \/ SpawnForward(b) \/ ForwardsNoPort(b) \/ TimeoutExpired(b) \/ Register(b)
        PROVE  born' = born
    BY <1>5, Zenon DEF ClearSocket, Spawn, SpawnFails, Boot, LoginRunning, LoginPending,
       BringUpFails, EnforceShields, SetExitNode, SpawnForward, StartForward,
       ForwardsNoPort, ForwardFails, TimeoutExpired, Register, Pass
  <1>6. ASSUME Environment \/ UNCHANGED vars
        PROVE  born' = born \/ (\E q \in Owners : OwnerDies(q) \/ OwnerStarts(q))
    BY <1>6, Zenon DEF Environment, DaemonDies, LoginCompletes, LoginLost, ShieldsDrop,
       LingerElapses, EditProfile, vars
  <1>7. ASSUME NEW q \in Owners, OwnerDies(q) PROVE Owned
    BY <1>7 DEF OwnerDies
  <1>8. ASSUME NEW q \in Owners, OwnerStarts(q) PROVE Owned
    BY <1>8 DEF OwnerStarts
  <1>9. ASSUME NEW b \in Clients, Return(b) PROVE Exit(b) /\ CommandStep(b)
    BY <1>9, Zenon DEF Return, CommandStep, Advance
  <1>10. ASSUME NEW b \in Clients, Exit(b), User(b) PROVE CommandStep(b)
    BY <1>10, Zenon DEF CommandStep
  <1> HIDE DEF Owned
  <1>11. Owned
    BY <1>1, <1>2, <1>3, <1>4, <1>5, <1>6, <1>7, <1>8, <1>9, <1>10, Zenon DEF Next, Advance,
       Acquire
  <1> QED BY <1>11 DEF Owned

\* Two clients claim for the same owner only from one session, and its pid is not
\* given to another; a command that claims for itself has a pid of its own.
SharedOwner(c) == \E b \in Clients \ {c} : OwnerOf[b] = OwnerOf[c]
OwnersApart == \A c \in Clients : SharedOwner(c) => ~May("pidReuse") /\ c \notin SelfOwned

\* While a command of a shared session asks, the session is what it was at its start.
BornSettled ==
    \A c \in Clients : SharedOwner(c) /\ verb[c] \in {"up", "run"}
                      => born[OwnerOf[c]] \in {None, ct[c]}

\* The only living claim of a command's owner is the one the command makes.
ClaimFresh ==
    \A c \in Clients, p \in Profiles :
        verb[c] \in {"up", "run"} /\ registry[p] # None
        => \A h \in registry[p].holders : h[1] = OwnerOf[c] /\ HolderAlive(h) => h[2] = ct[c]

LEMMA BornSettledHolds ==
    ASSUME OwnersApart, TypeOK, BornSettled, [Next]_vars
    PROVE  BornSettled'
  <1>1. SUFFICES ASSUME NEW c \in Clients, SharedOwner(c), verb'[c] \in {"up", "run"}
                 PROVE  born'[OwnerOf[c]] \in {None, ct'[c]}
    BY DEF BornSettled
  <1>2. c \notin SelfOwned /\ ~May("pidReuse") /\ OwnerOf[c] \in Owners
    BY <1>1, ConstantsAssumption DEF OwnersApart
  <1>3. CASE CommandStep(c)
    BY <1>1, <1>3, AsksAs DEF StartsAs, BornSettled
  <1>4. CASE Untouched(c)
    <2>1. born[OwnerOf[c]] \in {None, ct'[c]}
      BY <1>1, <1>4 DEF Untouched, BornSettled
    <2>2. ASSUME NEW b \in SelfOwned, OwnerOf[b] = OwnerOf[c] PROVE FALSE
      <3>1. b \in Clients /\ b # c
        BY <1>2, <2>2, ConstantsAssumption
      <3>2. SharedOwner(b)
        BY <2>2, <3>1 DEF SharedOwner
      <3> QED BY <2>2, <3>1, <3>2 DEF OwnersApart
    <2> QED BY <1>2, <2>1, <2>2, WhoBears
  <1>5. UNCHANGED <<lockVars, pc, cmdVars, ownVars>> => Untouched(c)
    BY DEF lockVars, cmdVars, ownVars, Untouched
  <1> QED BY <1>3, <1>4, <1>5, WhoSteps

LEMMA ClaimFreshHolds ==
    ASSUME LeaseInv, BornSettled', ClaimFresh, [Next]_vars
    PROVE  ClaimFresh'
  <1>1. IInv /\ TypeOK /\ TypeOK' /\ OwnersDecline
    BY NextIInv, Declines DEF LeaseInv, IInv
  <1>2. SUFFICES ASSUME NEW c \in Clients, NEW p \in Profiles, verb'[c] \in {"up", "run"},
                        registry'[p] # None, NEW h \in registry'[p].holders,
                        h[1] = OwnerOf[c], born'[h[1]] = h[2]
                 PROVE  h[2] = ct'[c]
    BY DEF ClaimFresh, HolderAlive
  <1>3. h \in Owners \X CreateTimes
    BY <1>1, <1>2 DEF TypeOK, Row
  <1>4. CASE SharedOwner(c)
    BY <1>2, <1>3, <1>4, NoneAssumption DEF BornSettled, SharedOwner
  <1>5. CASE ~SharedOwner(c) /\ verb[c] = verb'[c] /\ ct'[c] = ct[c]
    <2>1. CASE registry[p] # None /\ h \in registry[p].holders
      <3>1. HolderAlive(h)
        <4>1. p \in Rows /\ h \in Held[p]
          BY <2>1 DEF Rows, Held
        <4>2. HolderAlive(h)' => HolderAlive(h)
          BY <1>1, <4>1 DEF OwnersDecline
        <4>3. HolderAlive(h)'
          BY <1>2 DEF HolderAlive
        <4> QED BY <4>2, <4>3
      <3> QED BY <1>2, <1>5, <2>1, <3>1 DEF ClaimFresh
    <2>2. ASSUME NEW b \in Clients, h = Claimant(b) PROVE h[2] = ct'[c]
      <3>1. h[1] = OwnerOf[b] /\ h[2] = ct[b]
        BY <2>2 DEF Claimant
      <3>2. b = c
        BY <1>2, <1>5, <3>1 DEF SharedOwner
      <3> QED BY <1>5, <3>1, <3>2
    <2> QED BY <1>2, <2>1, <2>2, RowHolders
  <1>6. CASE StartsAs(c)
    BY <1>2, <1>6 DEF StartsAs
  <1>7. CommandStep(c) => \/ StartsAs(c)
                          \/ verb'[c] = verb[c] /\ ct'[c] = ct[c]
    BY <1>1, <1>2, AsksAs
  <1>8. Untouched(c) => verb'[c] = verb[c] /\ ct'[c] = ct[c]
    BY DEF Untouched
  <1>9. UNCHANGED <<lockVars, pc, cmdVars, ownVars>> => Untouched(c)
    BY DEF lockVars, cmdVars, ownVars, Untouched
  <1> QED BY <1>1, <1>4, <1>5, <1>6, <1>7, <1>8, <1>9, WhoSteps
-----------------------------------------------------------------------------
(* An instance that is held.                                               *)

ClaimInv == HostInv /\ WorkSame /\ LeaseInv /\ VerbOK /\ BornSettled /\ ClaimFresh

LEMMA ClaimInvariance == ASSUME OwnersApart PROVE Spec => []ClaimInv
  <1>1. Init => VerbOK /\ BornSettled /\ ClaimFresh
    <2>1. None \notin Verbs
      BY NoneAssumption
    <2>2. ASSUME Init PROVE BornSettled /\ ClaimFresh
      <3>1. verb = [c \in Clients |-> None] /\ registry = NoRows
        BY <2>2 DEF Init
      <3> QED BY <2>1, <3>1 DEF BornSettled, ClaimFresh, NoRows, Verbs
    <2> QED BY <2>2, InitVerb
  <1>2. LeaseInv /\ VerbOK /\ BornSettled /\ ClaimFresh /\ [Next]_vars
          => VerbOK' /\ BornSettled' /\ ClaimFresh'
    BY VerbHolds, BornSettledHolds, ClaimFreshHolds DEF LeaseInv, IInv
  <1> QED BY <1>1, <1>2, LeaseInvariance, RowInvariance, PTL DEF Spec, ClaimInv, RowInv

\* No daemon dies by itself, and no sweep comes to the profile.
Spared(p) ==
    /\ \A d \in Daemons : ~Dies(d)
    /\ \A b \in Clients : ~SweepOne(b, p)

LEMMA SparesAll ==
    ASSUME VerbOK, ~May("daemonDies"), NoVerb("reap"), NEW p \in Profiles
    PROVE  Spared(p)
  BY DEF Spared, Dies, DaemonDies, SweepOne, VerbOK, NoVerb, Verbs

\* The daemon of a row that a living owner holds.
LEMMA HeldRuns ==
    ASSUME ClaimInv, [Next]_vars, NEW p \in Profiles, Spared(p),
           NEW h, LiveClaim(p, h), \A c \in Clients : ~Ends(c, p, h[1])
    PROVE  registry[p].daemon \in PidsForSocket(p)'
  <1>1. IInv /\ ServeInv /\ TypeOK
    BY DEF ClaimInv, HostInv, IInv
  <1>2. /\ registry[p] # None /\ registry[p].daemon \in PidsForSocket(p)
        /\ h \in registry[p].holders /\ HolderAlive(h)
    BY DEF LiveClaim
  <1>3. LiveRow(registry, p) /\ Keeps(p)
    BY <1>2 DEF LiveRow, IsAlive, PidsForSocket, Keeps, LiveHolders
  <1>4. ASSUME NEW b \in Clients, pc[b] \in Spawning PROVE prof[b] # p
    BY <1>1, <1>3, <1>4 DEF IInv, SpawnSparesTracked
  <1>5. ASSUME NEW b \in Clients, StopsRow(b, p) PROVE Ends(b, p, h[1])
    <2>1. FixShields(b) => Moves(b, "fixing", "commit")
      BY <1>1 DEF FixShields, Moves, Goto, TypeOK
    <2>2. TeardownAll(b) => Moves(b, "reset", "commit")
      BY <1>1 DEF TeardownAll, Moves, Goto, TypeOK
    <2>3. Down(b) => Moves(b, "down", "done")
      BY <1>1 DEF Down, Moves, Goto, TypeOK
    <2>4. ReuseRefused(b) => Moves(b, "reuse", "refused")
      BY <1>1 DEF ReuseRefused, Moves, Goto, TypeOK
    <2> QED BY <1>2, <1>3, <1>5, <2>1, <2>2, <2>3, <2>4 DEF StopsRow, Ends
  <1>6. ASSUME NEW b \in Clients, ClearsSocket(b, p) PROVE FALSE
    <2>1. SweepOne(b, p) => FALSE
      BY DEF Spared
    <2>2. ClearSocket(b) => pc[b] \in Spawning
      BY DEF ClearSocket, Spawning
    <2> QED BY <1>3, <1>4, <1>6, <2>1, <2>2 DEF ClearsSocket
  <1>7. ASSUME NEW b \in Clients, BringUpFails(b), prof[b] = p PROVE FALSE
    BY <1>4, <1>7 DEF BringUpFails, Spawning
  <1>8. ASSUME NEW b \in Clients, Spawn(b) PROVE LeavesAlone(p)
    BY <1>1, <1>4, <1>8, SpawnStarts DEF Spawn, Spawning
  <1>9. ASSUME NEW d \in Daemons, Dies(d) PROVE FALSE
    BY <1>9 DEF Spared
  <1>10. ASSUME NEW b \in Clients, Disturbance(b, p) PROVE LeavesAlone(p)
    BY <1>5, <1>6, <1>7, <1>10 DEF Disturbance
  <1>11. LeavesAlone(p)
    BY <1>1, <1>8, <1>9, <1>10, WhoDisturbs
  <1> QED BY <1>2, <1>11 DEF LeavesAlone

\* The claim itself: others add theirs, and only its owner's down takes it away.
LEMMA HeldStays ==
    ASSUME ClaimInv, [Next]_vars, NEW p \in Profiles, NEW h, LiveClaim(p, h), HolderAlive(h)',
           registry'[p] # None, \A c \in Clients : ~Ends(c, p, h[1])
    PROVE  h \in registry'[p].holders
  <1>1. IInv /\ TypeOK /\ CommandOK
    BY DEF ClaimInv, LeaseInv, IInv
  <1>2. /\ registry[p] # None /\ registry[p].daemon \in PidsForSocket(p)
        /\ h \in registry[p].holders /\ HolderAlive(h)
    BY DEF LiveClaim
  <1>3. registry[p] \in Row /\ work[p] \in Row \cup {None} /\ h \in Owners \X CreateTimes
    BY <1>1, <1>2 DEF TypeOK, Row
  <1>4. regLock # None /\ work[p] # None => h \in work[p].holders
    BY <1>2 DEF ClaimInv, LeaseInv, WorkOK, Rows, Held
  <1>5. ASSUME NEW b \in Clients, Rewrites(b, p) PROVE h \in registry'[p].holders
    <2>1. CASE registry'[p] = registry[p]
      BY <1>2, <2>1
    <2>2. CASE regLock = b /\ registry'[p] = work[p]
      BY <1>4, <2>2
    <2>3. ASSUME pc[b] \in {"reuse", "claim"}, prof[b] = p, work[p] # None
          PROVE  Claimed(b) \in Row /\ h \in Claimed(b).holders
      <3>1. Claimed(b) \in Row /\ regLock = b
        BY <1>1, <2>3, ClaimedHolds DEF IInv, RegLockOK, TxnPlaces
      <3>2. Claimed(b) = [work[p] EXCEPT !.holders = {g \in @ : g[1] # Claimant(b)[1]} \cup {Claimant(b)},
                                         !.released = FALSE]
        BY <2>3, Zenon DEF Claimed, AddHolder
      <3>3. Claimed(b).holders = {g \in work[p].holders : g[1] # Claimant(b)[1]} \cup {Claimant(b)}
        BY <1>3, <2>3, <3>2 DEF Row
      <3>4. h \in work[p].holders
        BY <1>4, <2>3, <3>1
      <3>5. CASE h[1] = OwnerOf[b]
        <4>1. verb[b] \in {"up", "run"}
          BY <1>1, <2>3 DEF CommandOK, UpPlaces
        <4>2. h[2] = ct[b]
          BY <1>2, <3>5, <4>1 DEF ClaimInv, ClaimFresh
        <4>3. h = Claimant(b)
          BY <1>3, <3>5, <4>2 DEF Claimant
        <4> QED BY <3>1, <3>3, <4>3
      <3>6. CASE h[1] # OwnerOf[b]
        BY <3>1, <3>3, <3>4, <3>6 DEF Claimant
      <3> QED BY <3>5, <3>6
    <2>4. CASE (ReusePending(b) \/ ReuseReady(b)) /\ prof[b] = p /\ work[p] # None
               /\ registry'[p] = Claimed(b)
      BY <2>3, <2>4 DEF ReusePending, ReuseReady
    <2>5. CASE Claim(b) /\ prof[b] = p /\ work[p] # None
               /\ registry'[p] = [Claimed(b) EXCEPT !.finalized = TRUE, !.fwds = started[b]]
      <3>1. Claimed(b) \in Row /\ h \in Claimed(b).holders
        BY <2>3, <2>5 DEF Claim
      <3>2. registry'[p].holders = Claimed(b).holders
        BY <2>5, <3>1 DEF Row
      <3> QED BY <3>1, <3>2
    <2>6. CASE Register(b) /\ prof[b] = p
      BY <1>1, <1>2, <2>6 DEF Register, IInv, SpawnSparesTracked, LiveRow, IsAlive,
                              PidsForSocket, Spawning
    <2>7. ASSUME NEW left, left = {g \in registry[p].holders : g[1] # OwnerOf[b]}, Down(b),
                 prof[b] = p, registry'[p] = LeaveTo(registry[p], left)
          PROVE  h \in registry'[p].holders
      <3>1. registry'[p].holders = left
        BY <1>3, <2>7 DEF LeaveTo, Row
      <3>2. Moves(b, "down", "done")
        BY <1>1, <2>7 DEF Down, Moves, Goto, TypeOK
      <3> QED BY <1>2, <2>7, <3>1, <3>2 DEF Ends
    <2> QED BY <1>5, <2>1, <2>2, <2>4, <2>5, <2>6, <2>7 DEF Rewrites
  <1> QED BY <1>1, <1>2, <1>5, WhoWrites

LEMMA HeldSurvives ==
    ASSUME ClaimInv, [Next]_vars, NEW p \in Profiles, Spared(p),
           NEW h, LiveClaim(p, h), HolderAlive(h)', \A c \in Clients : ~Ends(c, p, h[1])
    PROVE  LiveClaim(p, h)' /\ registry'[p].daemon = registry[p].daemon
  <1>1. registry[p].daemon \in PidsForSocket(p)'
    BY HeldRuns
  <1>2. registry[p] # None /\ IInv /\ HostInv /\ registry[p].daemon \in PidsForSocket(p)
    BY DEF LiveClaim, ClaimInv, HostInv
  <1>3. registry'[p] # None
    BY <1>1, <1>2, RowsGoStopped
  <1>4. ASSUME NEW b \in Clients, Register(b), prof[b] = p PROVE FALSE
    BY <1>2, <1>4 DEF Register, IInv, SpawnSparesTracked, LiveRow, IsAlive, PidsForSocket,
       Spawning
  <1>5. registry'[p].daemon = registry[p].daemon
    BY <1>2, <1>3, <1>4, RowDaemon
  <1>6. h \in registry'[p].holders
    BY <1>3, HeldStays
  <1> QED BY <1>1, <1>3, <1>5, <1>6 DEF LiveClaim

\* Where no daemon dies by itself and nobody runs reap (whose sweep acts on a list of
\* profiles it has read before), a claim of a living owner keeps its instance until
\* its owner's down, a reset, or a check of the shields that fails; whatever any other
\* command does or is killed at.
THEOREM HeldInstancesSurvive ==
    ASSUME ~May("daemonDies"), NoVerb("reap"), OwnersApart
    PROVE  Spec => HeldInstanceSurvives
  <1>1. ClaimInv /\ [Next]_vars =>
          [\A p \in Profiles, h \in Owners \X CreateTimes :
             LiveClaim(p, h) =>
               \/ LiveClaim(p, h)' /\ registry'[p].daemon = registry[p].daemon
               \/ ~HolderAlive(h)'
               \/ \E c \in Clients : Ends(c, p, h[1])]_vars
    <2> SUFFICES ASSUME ClaimInv, [Next]_vars, NEW p \in Profiles, NEW h \in Owners \X CreateTimes,
                        LiveClaim(p, h)
                 PROVE  \/ LiveClaim(p, h)' /\ registry'[p].daemon = registry[p].daemon
                        \/ ~HolderAlive(h)'
                        \/ \E c \in Clients : Ends(c, p, h[1])
      OBVIOUS
    <2>1. Spared(p)
      BY SparesAll DEF ClaimInv
    <2> QED BY <2>1, HeldSurvives
  <1>2. Spec => []ClaimInv
    BY ClaimInvariance
  <1> QED BY <1>1, <1>2, PTL DEF Spec, HeldInstanceSurvives

\* A profile comes to be swept only where the registry has no row of it.
LEMMA WhoSweeps ==
    ASSUME TypeOK, [Next]_vars, NEW c \in Clients, NEW p \in Profiles, p \in todo'[c], p \notin todo[c]
    PROVE  registry[p] = None
  <1> USE DEF rest, lockVars, cmdVars, ownVars, Goto, TypeOK
  <1>1. ASSUME NEW b \in Clients, User(b) \/ Return(b) \/ RunCommand(b) PROVE todo'[c] \subseteq todo[c]
    <2>1. ASSUME NEW v \in Verbs, NEW q \in Profiles, StartUp(b, v, q) PROVE todo' = todo
      BY <2>1 DEF StartUp, Start
    <2>2. ASSUME NEW q \in Profiles, StartDown(b, q) \/ ScheduledReap(b, q) PROVE todo' = todo
      BY <2>2 DEF StartDown, ScheduledReap, Start
    <2>3. ASSUME NEW v \in Verbs, StartGlobal(b, v) PROVE todo' = todo
      BY <2>3 DEF StartGlobal, Start
    <2>4. Exit(b) => todo'[c] \subseteq todo[c]
      BY DEF Exit
    <2>5. RunCommand(b) \/ CommandEnds(b) => todo' = todo
      BY DEF RunCommand, CommandEnds, Pass
    <2> QED BY <1>1, <2>1, <2>2, <2>3, <2>4, <2>5, Zenon DEF User, Return, Crash
  <1>2. ASSUME NEW b \in Clients, SweepRead(b) PROVE registry[p] = None
    BY <1>2 DEF SweepRead
  <1>3. ASSUME NEW b \in Clients, NEW q \in Profiles, SweepOne(b, q) PROVE todo'[c] \subseteq todo[c]
    BY <1>3 DEF SweepOne
  <1>4. ASSUME NEW b \in Clients,
               \/ FixShields(b) \/ CommitTxn(b) \/ ReapInplace(b) \/ TeardownAll(b)
               \/ AcquireSpawnLock(b) \/ Down(b) \/ TimeoutExpired(b)
        PROVE  todo' = todo
    BY <1>4 DEF FixShields, CommitTxn, ReapInplace, TeardownAll, AcquireSpawnLock, Down,
                TimeoutExpired, Pass
  <1>5. ASSUME NEW b \in Clients,
               \/ ReuseAbsent(b) \/ ReusePending(b) \/ ReuseReady(b) \/ ReuseRefused(b)
               \/ ReuseShields(b) \/ ReuseExit(b) \/ ReuseForward(b) \/ ReuseExitFails(b)
               \/ ReuseNoPort(b) \/ Claim(b) \/ Register(b)
        PROVE  todo' = todo
    BY <1>5 DEF ReuseAbsent, ReusePending, ReuseReady, ReuseRefused, ReuseShields,
                ReuseExit, ReuseForward, StartForward, ReuseExitFails, ReuseNoPort,
                ForwardFails, Claim, Register
  <1>6. ASSUME NEW b \in Clients,
               \/ ClearSocket(b) \/ Spawn(b) \/ SpawnFails(b) \/ Boot(b) \/ LoginRunning(b)
               \/ LoginPending(b) \/ BringUpFails(b) \/ SetExitNode(b) \/ SpawnForward(b)
               \/ ForwardsNoPort(b) \/ EnforceShields(b)
        PROVE  todo' = todo
    BY <1>6 DEF ClearSocket, Spawn, SpawnFails, Boot, LoginRunning, LoginPending,
                BringUpFails, SetExitNode, SpawnForward, StartForward, ForwardsNoPort,
                ForwardFails, EnforceShields, Pass
  <1>7. UNCHANGED ownVars => todo' = todo
    BY DEF ownVars
  <1> QED BY <1>1, <1>2, <1>3, <1>4, <1>5, <1>6, <1>7, WhoSteps, Zenon
     DEF CommandStep, Advance, Acquire

\* Whatever happens to the daemons and whoever runs reap: a claim of a living owner
\* ends in one of the ways named, of which the two that no session asks for are the
\* death of the daemon and a sweep that set out before the instance was registered;
\* and none sets out while it is held.
THEOREM HeldInstancesEnd ==
    ASSUME OwnersApart
    PROVE  Spec => HeldInstanceEnds
  <1>1. ClaimInv /\ [Next]_vars =>
          [\A p \in Profiles, h \in Owners \X CreateTimes :
             LiveClaim(p, h) =>
               /\ \A c \in Clients : p \in todo'[c] => p \in todo[c]
               /\ \/ LiveClaim(p, h)' /\ registry'[p].daemon = registry[p].daemon
                  \/ ~HolderAlive(h)'
                  \/ UNCHANGED <<pc, todo, registry>>
                  \/ \E c \in Clients :
                       \/ pc[c] = "sweeping" /\ p \in todo[c] \ todo'[c] /\ pc'[c] # "idle"
                       \/ Ends(c, p, h[1])]_vars
    <2> SUFFICES ASSUME ClaimInv, [Next]_vars, NEW p \in Profiles, NEW h \in Owners \X CreateTimes,
                        LiveClaim(p, h)
                 PROVE  /\ \A c \in Clients : p \in todo'[c] => p \in todo[c]
                        /\ \/ LiveClaim(p, h)' /\ registry'[p].daemon = registry[p].daemon
                           \/ ~HolderAlive(h)'
                           \/ UNCHANGED <<pc, todo, registry>>
                           \/ \E c \in Clients :
                                \/ /\ pc[c] = "sweeping" /\ p \in todo[c] \ todo'[c]
                                   /\ pc'[c] # "idle"
                                \/ Ends(c, p, h[1])
      OBVIOUS
    <2>1. TypeOK /\ registry[p] # None
      BY DEF ClaimInv, HostInv, IInv, LiveClaim
    <2>2. \A c \in Clients : p \in todo'[c] => p \in todo[c]
      BY <2>1, WhoSweeps
    <2>3. ASSUME NEW d \in Daemons, Dies(d) PROVE UNCHANGED <<pc, todo, registry>>
      BY <2>3 DEF Dies, DaemonDies, lockVars, regVars, ownVars
    <2>4. ASSUME NEW b \in Clients, SweepOne(b, p)
          PROVE  pc[b] = "sweeping" /\ p \in todo[b] \ todo'[b] /\ pc'[b] # "idle"
      BY <2>1, <2>4 DEF SweepOne, Goto, TypeOK
    <2>5. CASE Spared(p) /\ HolderAlive(h)' /\ \A c \in Clients : ~Ends(c, p, h[1])
      BY <2>2, <2>5, HeldSurvives
    <2> QED BY <2>2, <2>3, <2>4, <2>5 DEF Spared
  <1>2. Spec => []ClaimInv
    BY ClaimInvariance
  <1> QED BY <1>1, <1>2, PTL DEF Spec, HeldInstanceEnds
-----------------------------------------------------------------------------
(* An instance that is handed out.                                         *)

\* A transaction keeps its rows while the command is in it.
LEMMA HeldWork ==
    ASSUME IInv, [Next]_vars, NEW c \in Clients, pc[c] \in {"reuse", "finish", "claim"},
           pc'[c] = pc[c]
    PROVE  work' = work /\ registry' = registry
  <1>1. IInv' /\ regLock = c /\ regLock' = c
    BY NextIInv DEF IInv, RegLockOK, TxnPlaces
  <1>2. ASSUME NEW b \in Clients PROVE ~ReapInplace(b) /\ ~TeardownAll(b) /\ ~FixShields(b)
    BY <1>1 DEF ReapInplace, TeardownAll, FixShields, IInv, RegLockOK, TxnPlaces
  <1> QED BY <1>1, <1>2, WhoWorks, LockedRows

\* A transaction that works on a row of a daemon that runs leaves it running.
LEMMA HeldSpared ==
    ASSUME HostInv, VerbOK, [Next]_vars, ~May("daemonDies"), NoVerb("reap"),
           NEW c \in Clients, pc[c] \in {"reuse", "finish", "claim"}, pc'[c] = pc[c],
           NEW p \in Profiles, LiveRow(registry, p)
    PROVE  LeavesAlone(p)
  <1>1. IInv /\ ServeInv /\ TypeOK /\ regLock = c
    BY DEF HostInv, IInv, RegLockOK, TxnPlaces
  <1>2. ASSUME NEW b \in Clients, pc[b] \in Spawning PROVE prof[b] # p
    BY <1>1, <1>2 DEF IInv, SpawnSparesTracked
  <1>3. ASSUME NEW b \in Clients
        PROVE  ~StopsRow(b, p) /\ ~ClearsSocket(b, p) /\ ~(BringUpFails(b) /\ prof[b] = p)
    <2>1. ~ReapInplace(b) /\ ~TeardownAll(b) /\ ~Down(b)
      BY <1>1 DEF ReapInplace, TeardownAll, Down
    <2>2. ~FixShields(b)
      BY <1>1 DEF FixShields, IInv, RegLockOK, TxnPlaces
    <2>3. ~ReuseRefused(b)
      BY <1>1 DEF ReuseRefused, IInv, RegLockOK, TxnPlaces, Goto, TypeOK
    <2>4. BringUpFails(b) \/ ClearSocket(b) => pc[b] \in Spawning
      BY DEF BringUpFails, ClearSocket, Spawning
    <2>5. ~SweepOne(b, p)
      BY DEF SweepOne, VerbOK, NoVerb, Verbs
    <2> QED BY <1>2, <2>1, <2>2, <2>3, <2>4, <2>5 DEF StopsRow, ClearsSocket
  <1>4. ASSUME NEW b \in Clients, Spawn(b) PROVE LeavesAlone(p)
    <2>1. prof[b] # p
      BY <1>2, <1>4 DEF Spawn, Spawning
    <2> QED BY <1>1, <1>4, <2>1, SpawnStarts
  <1>5. ASSUME NEW d \in Daemons, Dies(d) PROVE FALSE
    BY <1>5 DEF Dies, DaemonDies
  <1> QED BY <1>1, <1>3, <1>4, <1>5, WhoDisturbs DEF Disturbance

\* The row that an `up` finishes is that of a daemon which runs.
FinishAlive ==
    \A c \in Clients, p \in Profiles :
        pc[c] \in {"finish", "claim"} /\ prof[c] = p => registry[p].daemon \in PidsForSocket(p)

LEMMA FinishAliveHolds ==
    ASSUME HostInv, VerbOK, FinishAlive, [Next]_vars, ~May("daemonDies"), NoVerb("reap")
    PROVE  FinishAlive'
  <1>1. IInv /\ TypeOK
    BY DEF HostInv, IInv
  <1>2. SUFFICES ASSUME NEW c \in Clients, NEW p \in Profiles, pc'[c] \in {"finish", "claim"},
                        prof'[c] = p
                 PROVE  registry'[p].daemon \in PidsForSocket(p)'
    BY DEF FinishAlive
  <1>3. CASE Untouched(c)
    <2>1. pc[c] \in {"finish", "claim"} /\ prof[c] = p /\ pc'[c] = pc[c]
      BY <1>2, <1>3 DEF Untouched
    <2>2. registry[p].daemon \in PidsForSocket(p) /\ registry' = registry
      BY <1>1, <2>1, HeldWork DEF FinishAlive
    <2>3. registry[p] # None
      BY <1>1, <2>1 DEF IInv, CommandOK, RegLockOK
    <2>4. LiveRow(registry, p)
      BY <1>2, <2>2, <2>3 DEF LiveRow, IsAlive, PidsForSocket
    <2> QED BY <2>1, <2>2, <2>4, HeldSpared DEF LeavesAlone
  <1>4. CASE SecurePath(c) /\ pc'[c] = "finish"
    <2>1. /\ work[p] # None /\ work[p].daemon \in PidsForSocket(p)
          /\ UNCHANGED <<registry, daemon, zombies>>
      BY <1>2, <1>4 DEF SecurePath, ReuseShields, lockVars, regVars, hostVars, procVars,
                        IsRunning, Responds
    <2> QED BY <1>1, <2>1 DEF IInv, RegLockOK, PidsForSocket
  <1>5. CASE SecurePath(c) /\ pc'[c] = "claim"
    <2>1. /\ pc[c] \in {"finish", "claim"} /\ prof[c] = p
          /\ UNCHANGED <<registry, daemon, zombies>>
      BY <1>2, <1>5 DEF SecurePath, ReuseExit, ReuseForward, StartForward, lockVars, regVars,
                        hostVars, procVars
    <2> QED BY <2>1 DEF FinishAlive, PidsForSocket
  <1>6. UNCHANGED <<lockVars, pc, cmdVars, ownVars>> => Untouched(c)
    BY DEF lockVars, cmdVars, ownVars, Untouched
  <1> QED BY <1>1, <1>2, <1>3, <1>4, <1>5, <1>6, WhoSteps, SecuresAlong DEF Shielded

\* No two clients claim for one owner, and `run` claims for its own process.
OwnOwners  == \A b, c \in Clients : OwnerOf[b] = OwnerOf[c] => b = c
RunsAsSelf == \A c \in Clients : "run" \in Commands[c] => c \in SelfOwned

\* Nothing that may end an instance that is held is ever done.
Peaceful ==
    /\ OwnOwners /\ RunsAsSelf /\ ~May("daemonDies") /\ ~May("cliError")
    /\ NoVerb("reap") /\ NoVerb("fix") /\ NoVerb("reset")

\* A daemon that is being brought up runs.
SpawnedAlive ==
    \A c \in Clients, p \in Profiles :
        pc[c] \in Spawned /\ prof[c] = p => mine[c] \in PidsForSocket(p)

\* A command that claims for itself is the owner it claims for.
SelfAlive ==
    \A c \in SelfOwned : verb[c] \in {"up", "run"} => born[OwnerOf[c]] = ct[c]

\* A daemon that the command has spawned is that of the row.
MineRegistered ==
    \A c \in Clients :
        (pc[c] \in {"ready", "using"} /\ mine[c] # None /\ HolderAlive(Claimant(c)))
        => registry[prof[c]].daemon = mine[c]

ReadyInv ==
    /\ ClaimInv /\ FinishAlive /\ zombies = {} /\ SpawnClear /\ SpawnedAlive
    /\ SelfAlive /\ MineRegistered /\ ReadyKeepsInstance

LEMMA ApartIfOwn == ASSUME OwnOwners PROVE OwnersApart
  BY DEF OwnOwners, OwnersApart, SharedOwner

\* How a command comes to answer ready, and to run the user's command.
ReadyPath(c) ==
    /\ prof'[c] = prof[c] /\ ct'[c] = ct[c] /\ mine'[c] = mine[c]
    /\ UNCHANGED <<born, daemon, zombies>>
    /\ \/ RunCommand(c) /\ pc[c] = "ready" /\ pc'[c] = "using" /\ UNCHANGED registry
       \/ (ReuseReady(c) \/ Claim(c)) /\ pc'[c] = "ready"
       \/ Register(c) /\ pc[c] = "register" /\ pc'[c] = "ready"

LEMMA ReadyAlong ==
    ASSUME TypeOK, NEW b \in Clients, CommandStep(b), pc'[b] \in {"ready", "using"}
    PROVE  ReadyPath(b)
  <1> USE DEF rest, lockVars, regVars, cmdVars, ownVars, hostVars, procVars, envVars, Goto,
              TypeOK, ReadyPath
  <1>1. User(b) \/ Return(b) => FALSE
    BY DEF User, StartUp, StartDown, ScheduledReap, StartGlobal, Start, CommandEnds, Pass,
       Crash, Return, Exit
  <1>2. FixShields(b) \/ TeardownAll(b) \/ Down(b) \/ CommitTxn(b) \/ ReuseAbsent(b)
        \/ ReusePending(b) \/ ReuseShields(b) \/ ReuseExit(b) \/ ReuseForward(b)
        \/ ReuseRefused(b) \/ ReuseExitFails(b) \/ ReuseNoPort(b) => FALSE
    BY DEF FixShields, TeardownAll, Down, CommitTxn, ReuseAbsent, ReusePending,
           ReuseShields, ReuseExit, ReuseForward, StartForward, ReuseRefused,
           ReuseExitFails, ReuseNoPort, ForwardFails
  <1>3. ClearSocket(b) \/ Spawn(b) \/ SpawnFails(b) \/ Boot(b) \/ LoginRunning(b)
        \/ LoginPending(b) \/ BringUpFails(b) \/ SetExitNode(b) \/ SpawnForward(b)
        \/ ForwardsNoPort(b) \/ TimeoutExpired(b) \/ AcquireSpawnLock(b) => FALSE
    BY DEF ClearSocket, Spawn, SpawnFails, Boot, LoginRunning, LoginPending, BringUpFails,
           SetExitNode, SpawnForward, StartForward, ForwardsNoPort, ForwardFails,
           TimeoutExpired, AcquireSpawnLock, Pass
  <1>4. SweepRead(b) => pc'[b] \in {"done", "sweeping"}
    BY DEF SweepRead
  <1>5. ASSUME NEW q \in Profiles, SweepOne(b, q) PROVE pc'[b] \in {"done", "sweeping"}
    BY <1>5 DEF SweepOne
  <1>6. ReapInplace(b) => pc'[b] \in {"reuse", "commit", "fixing"}
    BY DEF ReapInplace
  <1>7. EnforceShields(b) => pc'[b] \in {"register", "exit"}
    BY DEF EnforceShields
  <1>8. RunCommand(b) => ReadyPath(b)
    BY DEF RunCommand
  <1>9. ReuseReady(b) => ReadyPath(b)
    BY DEF ReuseReady
  <1>10. Claim(b) => ReadyPath(b)
    BY DEF Claim
  <1>11. Register(b) => ReadyPath(b)
    BY DEF Register
  <1> QED BY <1>1, <1>2, <1>3, <1>4, <1>5, <1>6, <1>7, <1>8, <1>9, <1>10, <1>11, Zenon
     DEF CommandStep, Advance, Acquire

\* An `up` is refused an instance only where its check may fail.
LEMMA Refuses ==
    ASSUME TypeOK, NEW b \in Clients, CommandStep(b), Moves(b, "reuse", "refused")
    PROVE  ReuseRefused(b)
  <1> USE DEF Moves, Goto, TypeOK
  <1>1. User(b) \/ Return(b) \/ RunCommand(b) => FALSE
    BY DEF User, StartUp, StartDown, ScheduledReap, StartGlobal, Start, CommandEnds, Pass,
       Crash, Return, Exit, RunCommand
  <1>2. FixShields(b) \/ TeardownAll(b) \/ Down(b) \/ CommitTxn(b) \/ ReuseAbsent(b)
        \/ ReusePending(b) \/ ReuseShields(b) \/ ReuseExit(b) \/ ReuseForward(b)
        \/ ReuseReady(b) \/ ReuseExitFails(b) \/ ReuseNoPort(b) \/ Claim(b) => FALSE
    BY DEF FixShields, TeardownAll, Down, CommitTxn, ReuseAbsent, ReusePending,
           ReuseShields, ReuseExit, ReuseForward, StartForward, ReuseReady, ReuseExitFails,
           ReuseNoPort, ForwardFails, Claim
  <1>3. ClearSocket(b) \/ Spawn(b) \/ SpawnFails(b) \/ Boot(b) \/ LoginRunning(b)
        \/ LoginPending(b) \/ BringUpFails(b) \/ SetExitNode(b) \/ SpawnForward(b)
        \/ EnforceShields(b) \/ Register(b) \/ ReapInplace(b)
        \/ ForwardsNoPort(b) \/ TimeoutExpired(b) \/ AcquireSpawnLock(b) => FALSE
    BY DEF ClearSocket, Spawn, SpawnFails, Boot, LoginRunning, LoginPending, BringUpFails,
           SetExitNode, SpawnForward, StartForward, ForwardsNoPort, ForwardFails,
           TimeoutExpired, AcquireSpawnLock, Pass, EnforceShields, Register, ReapInplace
  <1>4. SweepRead(b) \/ (\E q \in Profiles : SweepOne(b, q)) => pc[b] # "reuse"
    BY DEF SweepRead, SweepOne
  <1> QED BY <1>1, <1>2, <1>3, <1>4, Zenon DEF CommandStep, Advance, Acquire, Moves

\* Nobody but the owner ends a claim.
LEMMA OnlyItsOwner ==
    ASSUME Peaceful, TypeOK, VerbOK, [Next]_vars, NEW c \in Clients, NEW p \in Profiles,
           pc[c] # "down"
    PROVE  \A b \in Clients : ~Ends(b, p, OwnerOf[c])
  <1>1. SUFFICES ASSUME NEW b \in Clients, Ends(b, p, OwnerOf[c]) PROVE FALSE
    OBVIOUS
  <1>2. pc'[b] # pc[b]
    BY <1>1 DEF Ends, Moves
  <1>3. CommandStep(b)
    BY <1>2, WhoSteps DEF Untouched
  <1>4. ~Moves(b, "reset", "commit") /\ ~Moves(b, "fixing", "commit")
    BY DEF Moves, VerbOK, Peaceful, NoVerb, Verbs
  <1>5. ~Moves(b, "reuse", "refused")
    BY <1>3, Refuses DEF ReuseRefused, Peaceful
  <1>6. Moves(b, "down", "done") /\ OwnerOf[b] = OwnerOf[c] => FALSE
    BY DEF Moves, Peaceful, OwnOwners
  <1> QED BY <1>1, <1>4, <1>5, <1>6 DEF Ends

\* The owner of a claim that lives after a step lived before it.
LEMMA OwnerLived ==
    ASSUME OwnOwners, TypeOK, [Next]_vars, NEW c \in Clients, Untouched(c),
           ct[c] \in CreateTimes, born'[OwnerOf[c]] = ct[c]
    PROVE  born[OwnerOf[c]] = ct[c]
  <1>1. OwnerOf[c] \in Owners
    OBVIOUS
  <1>2. ASSUME NEW t \in CreateTimes, FreshCreateTime(OwnerOf[c], t) PROVE t # ct[c]
    BY <1>2 DEF FreshCreateTime
  <1> QED BY <1>1, <1>2, WhoBears

LEMMA SelfAliveHolds ==
    ASSUME OwnOwners, TypeOK, SelfAlive, [Next]_vars
    PROVE  SelfAlive'
  <1>1. SUFFICES ASSUME NEW c \in SelfOwned, verb'[c] \in {"up", "run"}
                 PROVE  born'[OwnerOf[c]] = ct'[c]
    BY DEF SelfAlive
  <1>2. c \in Clients /\ OwnerOf[c] \in Owners /\ OwnerOf[c] \in Processes
    BY DEF Processes
  <1>3. CASE CommandStep(c)
    BY <1>1, <1>2, <1>3, AsksAs DEF StartsAs, SelfAlive
  <1>4. CASE Untouched(c)
    <2>1. born[OwnerOf[c]] = ct'[c]
      BY <1>1, <1>4 DEF Untouched, SelfAlive
    <2>2. ASSUME NEW b \in SelfOwned, OwnerOf[b] = OwnerOf[c] PROVE b = c
      BY <1>2, <2>2 DEF OwnOwners
    <2>3. ~Exit(c)
      BY <1>1, <1>2 DEF Exit, TypeOK, Verbs
    <2> QED BY <1>2, <1>4, <2>1, <2>2, <2>3, WhoBears DEF Untouched
  <1>5. UNCHANGED <<lockVars, pc, cmdVars, ownVars>> => Untouched(c)
    BY DEF lockVars, cmdVars, ownVars, Untouched
  <1> QED BY <1>2, <1>3, <1>4, <1>5, WhoSteps

\* While a bring-up goes on nobody else stops its daemon: the profile has no row.
LEMMA SpawnedAliveHolds ==
    ASSUME HostInv, SpawnClear, SpawnedAlive, zombies = {}, [Next]_vars, ~May("daemonDies")
    PROVE  SpawnedAlive'
  <1>1. IInv /\ ServeInv /\ TypeOK /\ IInv'
    BY NextIInv DEF HostInv, IInv
  <1>2. SUFFICES ASSUME NEW c \in Clients, NEW p \in Profiles, pc'[c] \in Spawned, prof'[c] = p
                 PROVE  mine'[c] \in PidsForSocket(p)'
    BY DEF SpawnedAlive
  <1>3. CASE Spawn(c) /\ prof'[c] = prof[c]
    <2>1. PICK d \in Daemons : /\ FreshDaemon(d)
                               /\ daemon' = [daemon EXCEPT ![d] = prof[c]]
                               /\ mine' = [mine EXCEPT ![c] = d]
                               /\ zombies' = zombies
      BY <1>3, Zenon DEF Spawn
    <2>2. mine'[c] = d /\ daemon'[d] = p /\ zombies' = {}
      BY <1>1, <1>2, <1>3, <2>1 DEF TypeOK
    <2> QED BY <2>2 DEF PidsForSocket
  <1>4. CASE pc[c] \in Spawned /\ mine'[c] = mine[c] /\ prof'[c] = prof[c]
    <2>1. /\ mine[c] \in PidsForSocket(p) /\ prof[c] = p /\ pc[c] \in Spawning
          /\ registry[p] = None /\ spawnLock[p] # None
      BY <1>1, <1>2, <1>4 DEF SpawnedAlive, SpawnClear, Spawned, IInv, SpawnLockOK
    <2>2. ASSUME NEW b \in Clients, pc[b] \in Spawning, prof[b] = p PROVE b = c
      BY <1>1, <2>1, <2>2, SpawnerAlone
    <2>3. ASSUME NEW b \in Clients, Disturbance(b, p) PROVE LeavesAlone(p)
      <3>1. ~(ClearSocket(b) /\ prof[b] = p)
        BY <1>4, <2>2 DEF ClearSocket, Spawning, Spawned
      <3>2. ~(BringUpFails(b) /\ prof[b] = p)
        <4>1. BringUpFails(b) => pc[b] \in Spawning /\ pc'[b] \notin Spawned
          BY <1>1 DEF BringUpFails, Spawning, Spawned, Goto, TypeOK
        <4> QED BY <1>2, <2>2, <4>1
      <3> QED BY <2>1, <2>3, <3>1, <3>2 DEF Disturbance, ClearsSocket
    <2>4. ASSUME NEW b \in Clients, Spawn(b) PROVE LeavesAlone(p)
      <3>1. prof[b] # p
        BY <1>4, <2>2, <2>4 DEF Spawn, Spawning, Spawned
      <3> QED BY <1>1, <2>4, <3>1, SpawnStarts
    <2>5. ASSUME NEW d \in Daemons, Dies(d) PROVE FALSE
      BY <2>5 DEF Dies, DaemonDies
    <2>6. LeavesAlone(p)
      BY <1>1, <2>3, <2>4, <2>5, WhoDisturbs
    <2> QED BY <1>4, <2>1, <2>6 DEF LeavesAlone
  <1>5. pc'[c] \in Spawning /\ pc'[c] \notin {"clear", "spawn"}
    BY <1>2 DEF Spawned, Spawning
  <1>6. Onward(c) => \/ Spawn(c) /\ prof'[c] = prof[c]
                     \/ pc[c] \in Spawned /\ mine'[c] = mine[c] /\ prof'[c] = prof[c]
    BY <1>5, Zenon DEF Onward
  <1>7. pc[c] \in Spawning /\ Untouched(c)
           => pc[c] \in Spawned /\ mine'[c] = mine[c] /\ prof'[c] = prof[c]
    BY <1>5 DEF Untouched, Spawned
  <1> QED BY <1>1, <1>3, <1>4, <1>5, <1>6, <1>7, WhoSpawns

\* A command that was told ready has its claim still, and its row.
LEMMA ReadyStays ==
    ASSUME Peaceful, ReadyInv, [Next]_vars, NEW c \in Clients, NEW p \in Profiles,
           pc[c] \in {"ready", "using"}, prof[c] = p, HolderAlive(Claimant(c))
    PROVE  /\ LiveClaim(p, Claimant(c))
           /\ registry[p].daemon \in PidsForSocket(p)'
           /\ Untouched(c) /\ HolderAlive(Claimant(c))' =>
                 LiveClaim(p, Claimant(c))' /\ registry'[p].daemon = registry[p].daemon
  <1>1. ClaimInv /\ TypeOK /\ VerbOK
    BY DEF ReadyInv, ClaimInv, HostInv, IInv
  <1>2. LiveClaim(p, Claimant(c))
    BY DEF ReadyInv, ReadyKeepsInstance
  <1>3. \A b \in Clients : ~Ends(b, p, Claimant(c)[1])
    BY <1>1, OnlyItsOwner DEF Claimant
  <1>4. Spared(p)
    BY <1>1, SparesAll DEF Peaceful
  <1>5. registry[p].daemon \in PidsForSocket(p)'
    BY <1>1, <1>2, <1>3, <1>4, HeldRuns
  <1>6. ASSUME Untouched(c), HolderAlive(Claimant(c))'
        PROVE  LiveClaim(p, Claimant(c))' /\ registry'[p].daemon = registry[p].daemon
    <2>1. Claimant(c)' = Claimant(c)
      BY <1>6 DEF Claimant, Untouched
    <2>2. born'[Claimant(c)[1]] = Claimant(c)[2]
      BY <1>6, <2>1 DEF HolderAlive
    <2>3. PICK h : h = Claimant(c)
      OBVIOUS
    <2>4. HolderAlive(h)'
      BY <2>2, <2>3 DEF HolderAlive
    <2>5. LiveClaim(p, h)' /\ registry'[p].daemon = registry[p].daemon
      BY <1>1, <1>2, <1>3, <1>4, <2>3, <2>4, HeldSurvives
    <2> QED BY <2>1, <2>3, <2>5 DEF LiveClaim, HolderAlive
  <1> QED BY <1>2, <1>5, <1>6

LEMMA ReadyNoZombies == ASSUME Peaceful, ReadyInv, [Next]_vars PROVE zombies' = {}
  <1>1. TypeOK /\ TypeOK' /\ VerbOK /\ CommandOK
    BY NextIInv DEF ReadyInv, ClaimInv, HostInv, IInv
  <1>2. SUFFICES ASSUME NEW z \in zombies' PROVE FALSE
    OBVIOUS
  <1>3. PICK c \in Clients : IsAlive(z) /\ pc[c] = "using" /\ mine[c] = z
    BY <1>1, ZombiesArise DEF ReadyInv
  <1>4. verb[c] = "run" /\ c \in SelfOwned
    BY <1>1, <1>3, NoneAssumption DEF VerbOK, Peaceful, RunsAsSelf, Verbs
  <1>5. PICK p \in Profiles : p = prof[c]
    BY <1>1, <1>4 DEF CommandOK
  <1>6. HolderAlive(Claimant(c))
    BY <1>4 DEF ReadyInv, SelfAlive, HolderAlive, Claimant
  <1>7. mine[c] # None
    BY <1>1, <1>2, <1>3, NoneAssumption DEF TypeOK
  <1>8. registry[p].daemon = z
    BY <1>3, <1>5, <1>6, <1>7 DEF ReadyInv, MineRegistered
  <1>9. z \in PidsForSocket(p)'
    BY <1>3, <1>5, <1>6, <1>8, ReadyStays
  <1> QED BY <1>2, <1>9 DEF PidsForSocket

\* The claim is in the registry, on the daemon that the command has found or spawned,
\* as soon as the command answers ready.
LEMMA ReadyClaims ==
    ASSUME ReadyInv, [Next]_vars, NEW c \in Clients, NEW p \in Profiles, p = prof[c],
           ReadyPath(c), pc'[c] = "ready"
    PROVE  /\ registry'[p] # None /\ registry'[p].daemon \in PidsForSocket(p)
           /\ Claimant(c) \in registry'[p].holders
           /\ mine[c] \in {None, registry'[p].daemon}
  <1>1. IInv /\ TypeOK /\ IInv' /\ CommandOK
    BY NextIInv DEF ReadyInv, ClaimInv, HostInv, IInv
  <1>2. registry'[p] \in Row \cup {None}
    BY <1>1 DEF IInv, TypeOK
  <1>3. ASSUME pc[c] \in {"reuse", "claim"}, work[p] # None
        PROVE  /\ Claimed(c) \in Row /\ Claimed(c).daemon = work[p].daemon
               /\ Claimant(c) \in Claimed(c).holders
               /\ work[p].daemon = registry[p].daemon /\ mine[c] = None
    <2>1. Claimed(c) \in Row
      BY <1>1, <1>3, ClaimedHolds DEF IInv
    <2>2. \E left : Claimed(c) = [work[p] EXCEPT !.holders = left \cup {Claimant(c)}, !.released = FALSE]
      BY <1>3 DEF Claimed, AddHolder
    <2>3. work[p] \in Row
      BY <1>1, <1>3 DEF TypeOK
    <2>4. Claimed(c).daemon = work[p].daemon /\ Claimant(c) \in Claimed(c).holders
      BY <2>2, <2>3 DEF Row
    <2> QED BY <1>1, <1>3, <2>1, <2>4 DEF IInv, RegLockOK, ReadyInv, ClaimInv, HostInv,
       ServeInv, MineUnset
  <1>4. CASE ReuseReady(c)
    <2>1. pc[c] = "reuse" /\ work[p] # None /\ work[p].daemon \in PidsForSocket(p)
      BY <1>4 DEF ReuseReady, IsRunning, Responds
    <2>2. registry'[p] = Claimed(c)
      BY <1>1, <1>4 DEF ReuseReady, Commit, Claimed, TypeOK
    <2> QED BY <1>3, <2>1, <2>2, NoneAssumption
  <1>5. CASE Claim(c)
    <2>1. pc[c] = "claim" /\ work[p] # None
      BY <1>1, <1>5 DEF Claim, CommandOK
    <2>2. registry'[p] = [Claimed(c) EXCEPT !.finalized = TRUE, !.fwds = started[c]]
      BY <1>1, <1>5 DEF Claim, Commit, Claimed, TypeOK
    <2>3. /\ registry'[p].daemon = Claimed(c).daemon
          /\ registry'[p].holders = Claimed(c).holders
      BY <1>3, <2>1, <2>2 DEF Row
    <2>4. registry'[p] # None
      <3>1. Claimed(c) \in Row /\ started[c] \in SUBSET Forwarders
        BY <1>1, <1>3, <2>1 DEF TypeOK
      <3>2. registry'[p] \in Row
        BY <2>2, <3>1 DEF Row
      <3> QED BY <3>2, NoneAssumption
    <2> QED BY <1>3, <2>1, <2>3, <2>4 DEF ReadyInv, FinishAlive
  <1>6. CASE Register(c) /\ pc[c] = "register"
    <2>1. mine[c] \in PidsForSocket(p)
      BY <1>6 DEF ReadyInv, SpawnedAlive, Spawned, Spawning
    <2> QED BY <1>1, <1>6, <2>1, StepRegisters, NoneAssumption
  <1>7. ~RunCommand(c)
    BY <1>1 DEF RunCommand, Goto, TypeOK
  <1> QED BY <1>4, <1>5, <1>6, <1>7 DEF ReadyPath

LEMMA ReadyKept ==
    ASSUME Peaceful, ReadyInv, [Next]_vars
    PROVE  MineRegistered' /\ ReadyKeepsInstance'
  <1>1. TypeOK /\ CommandOK' /\ OwnOwners
    BY NextIInv DEF ReadyInv, ClaimInv, HostInv, IInv, Peaceful
  <1>2. SUFFICES ASSUME NEW c \in Clients, NEW p \in Profiles, pc'[c] \in {"ready", "using"},
                        p = prof'[c], HolderAlive(Claimant(c))'
                 PROVE  /\ mine'[c] # None => registry'[p].daemon = mine'[c]
                        /\ LiveClaim(p, Claimant(c))'
    <2>1. ASSUME NEW c \in Clients, pc'[c] \in {"ready", "using"} PROVE prof'[c] \in Profiles
      BY <1>1, <2>1 DEF CommandOK, UpPlaces
    <2>2. ASSUME \A c \in Clients, p \in Profiles :
                    pc'[c] \in {"ready", "using"} /\ p = prof'[c] /\ HolderAlive(Claimant(c))'
                    => /\ mine'[c] # None => registry'[p].daemon = mine'[c]
                       /\ LiveClaim(p, Claimant(c))'
          PROVE  MineRegistered' /\ ReadyKeepsInstance'
      <3>1. MineRegistered'
        BY <2>1, <2>2 DEF MineRegistered
      <3>2. ReadyKeepsInstance'
        BY <2>1, <2>2 DEF ReadyKeepsInstance, LiveClaim, PidsForSocket
      <3> QED BY <3>1, <3>2
    <2> QED BY <2>2
  <1>3. CASE Untouched(c)
    <2>1. /\ pc[c] \in {"ready", "using"} /\ prof[c] = p /\ mine'[c] = mine[c]
          /\ ct'[c] = ct[c] /\ ct[c] \in CreateTimes
      BY <1>1, <1>2, <1>3 DEF Untouched, CommandOK, UpPlaces
    <2>2. HolderAlive(Claimant(c))
      <3>1. born'[OwnerOf[c]] = ct[c]
        BY <1>2, <2>1 DEF HolderAlive, Claimant
      <3>2. born[OwnerOf[c]] = ct[c]
        BY <1>1, <1>3, <2>1, <3>1, OwnerLived
      <3> QED BY <3>2 DEF HolderAlive, Claimant
    <2>3. LiveClaim(p, Claimant(c))' /\ registry'[p].daemon = registry[p].daemon
      BY <1>2, <1>3, <2>1, <2>2, ReadyStays
    <2>4. mine[c] # None => registry[p].daemon = mine[c]
      BY <2>1, <2>2 DEF ReadyInv, MineRegistered
    <2> QED BY <2>1, <2>3, <2>4
  <1>4. CASE ReadyPath(c)
    <2>1. /\ prof[c] = p /\ mine'[c] = mine[c] /\ Claimant(c)' = Claimant(c)
          /\ PidsForSocket(p)' = PidsForSocket(p) /\ HolderAlive(Claimant(c))
      BY <1>2, <1>4 DEF ReadyPath, Claimant, PidsForSocket, HolderAlive
    <2>2. CASE pc'[c] = "ready"
      BY <1>2, <1>4, <2>1, <2>2, ReadyClaims DEF LiveClaim
    <2>3. CASE RunCommand(c) /\ pc[c] = "ready" /\ registry' = registry
      <3>1. LiveClaim(p, Claimant(c)) /\ (mine[c] # None => registry[p].daemon = mine[c])
        BY <2>1, <2>3 DEF ReadyInv, ReadyKeepsInstance, MineRegistered
      <3> QED BY <1>2, <2>1, <2>3, <3>1 DEF LiveClaim
    <2> QED BY <1>4, <2>2, <2>3 DEF ReadyPath
  <1>5. UNCHANGED <<lockVars, pc, cmdVars, ownVars>> => Untouched(c)
    BY DEF lockVars, cmdVars, ownVars, Untouched
  <1> QED BY <1>1, <1>2, <1>3, <1>4, <1>5, WhoSteps, ReadyAlong

\* What `up` and `run` answer stays true: while the claimant lives, the instance it was
\* told is ready runs, and the claim is in the registry, whatever other owners' commands
\* bring up, take down or list, and wherever they time out or are killed.  This is where no
\* daemon dies, no check of a daemon that answers fails, and nobody calls reap, reset or
\* shields --fix.
THEOREM ReadyKeeps ==
    ASSUME Peaceful
    PROVE  Spec => []ReadyKeepsInstance
  <1>1. Init /\ ClaimInv => ReadyInv
    BY NoneAssumption DEF Init, ReadyInv, FinishAlive, SpawnClear, SpawnedAlive, SelfAlive,
       MineRegistered, ReadyKeepsInstance, Spawned, Spawning, Verbs
  <1>2. ReadyInv /\ [Next]_vars /\ ClaimInv' => ReadyInv'
    <2> SUFFICES ASSUME ReadyInv, [Next]_vars, ClaimInv' PROVE ReadyInv'
      OBVIOUS
    <2>1. HostInv /\ VerbOK /\ TypeOK
      BY DEF ReadyInv, ClaimInv, HostInv, IInv
    <2>2. FinishAlive'
      BY <2>1, FinishAliveHolds DEF ReadyInv, Peaceful
    <2>3. SpawnClear'
      BY <2>1, SpawnClearHolds DEF ReadyInv, Peaceful
    <2>4. SpawnedAlive'
      BY <2>1, SpawnedAliveHolds DEF ReadyInv, Peaceful
    <2>5. SelfAlive'
      BY <2>1, SelfAliveHolds DEF ReadyInv, Peaceful
    <2> QED BY <2>2, <2>3, <2>4, <2>5, ReadyNoZombies, ReadyKept DEF ReadyInv
  <1>3. Spec => []ClaimInv
    BY ClaimInvariance, ApartIfOwn DEF Peaceful
  <1>4. ReadyInv => ReadyKeepsInstance
    BY DEF ReadyInv
  <1> QED BY <1>1, <1>2, <1>3, <1>4, PTL DEF Spec
=============================================================================
