------------------------------ MODULE LeaseProofs ------------------------------
(***************************************************************************)
(* InstanceManager implements Leases, for every value of its constants.    *)
(*                                                                         *)
(* The mapping takes the claims of the committed rows.  What has to be     *)
(* known beside IInv is what the rows a transaction works on, read when it *)
(* began, have to do with those it will replace (WorkOK), and that neither *)
(* an owner nor a daemon that a row names comes back to life (Declines).   *)
(***************************************************************************)
EXTENDS InstanceManagerProofs

\* The rows about to be committed have lost only claims of owners that are gone,
\* and a row is about to be dropped only with such claims or a daemon that is gone.
WorkOK ==
    regLock # None =>
        \A p \in Rows :
            \/ /\ work[p] # None
               /\ work[p].holders \subseteq Held[p]
               /\ \A h \in Held[p] \ work[p].holders : ~HolderAlive(h)
            \/ work[p] = None /\ p \in Broken
            \/ work[p] = None /\ \A h \in Held[p] : ~HolderAlive(h)

\* A step brings back no owner of a claim, and no daemon of a row.
OwnersDecline  == \A p \in Rows : \A h \in Held[p] : HolderAlive(h)' => HolderAlive(h)
DaemonsDecline ==
    \A p \in Rows : registry[p].daemon \in PidsForSocket(p)' => p \notin Broken

LeaseInv == IInv /\ WorkOK

USE ConstantsAssumption, NoneAssumption
-----------------------------------------------------------------------------
(* Nothing comes back.                                                     *)

\* What Die is given is gone afterwards, or a zombie, and nothing else starts.
LEMMA DieEnds ==
    ASSUME TypeOK, NEW ds \in SUBSET Daemons, Die(ds)
    PROVE  /\ \A d \in Daemons : daemon'[d] # None => daemon'[d] = daemon[d]
           /\ zombies \subseteq zombies'
           /\ \A d \in ds : daemon'[d] = None \/ d \in zombies'
  <1> DEFINE unreaped == {d \in ds : /\ IsAlive(d)
                                     /\ \E c \in Clients : pc[c] = "using" /\ mine[c] = d}
  <1>1. daemon' = [d \in Daemons |-> IF d \in ds \ unreaped THEN None ELSE daemon[d]]
    BY Zenon DEF Die
  <1>2. zombies' = zombies \cup unreaped
    BY Zenon DEF Die
  <1> HIDE DEF unreaped
  <1> QED BY <1>1, <1>2

\* So Die brings no daemon back.
LEMMA DieDeclines ==
    ASSUME TypeOK, NEW ds \in SUBSET Daemons, Die(ds)
    PROVE  DaemonsDecline
  <1>1. /\ \A d \in Daemons : daemon'[d] # None => daemon'[d] = daemon[d]
        /\ zombies \subseteq zombies'
    BY DieEnds
  <1> QED BY <1>1 DEF DaemonsDecline, PidsForSocket, Broken, TypeOK, Rows

\* Most steps change neither the process table nor who owns a pid.
LEMMA SameHost ==
    ASSUME UNCHANGED <<daemon, zombies>>
    PROVE  DaemonsDecline
  BY DEF DaemonsDecline, PidsForSocket, Broken

LEMMA SameOwners ==
    ASSUME UNCHANGED born
    PROVE  OwnersDecline
  BY DEF OwnersDecline, HolderAlive

\* The end of a command: its own pid is gone, and the zombies it had.
LEMMA ExitDeclines ==
    ASSUME TypeOK, NEW c \in Clients, Exit(c)
    PROVE  OwnersDecline /\ DaemonsDecline
  <1>1. OwnersDecline
    BY DEF Exit, OwnersDecline, HolderAlive, Rows, Held, TypeOK, Row
  <1>2. /\ daemon' = [d \in Daemons |-> IF d \in Reaped(c) THEN None ELSE daemon[d]]
        /\ zombies' = zombies \ Reaped(c)
    BY DEF Exit
  <1>3. \A d \in Daemons : daemon'[d] # None /\ d \notin zombies' =>
            daemon'[d] = daemon[d] /\ d \notin zombies
    BY <1>2
  <1>4. DaemonsDecline
    BY <1>3 DEF DaemonsDecline, PidsForSocket, Broken, TypeOK, Rows
  <1> QED BY <1>1, <1>4

\* Starting and ending a command: a create time is given to no claim that exists.
LEMMA UserDeclines ==
    ASSUME TypeOK, NEW c \in Clients, User(c) \/ Return(c) \/ RunCommand(c)
    PROVE  OwnersDecline /\ DaemonsDecline
  <1>1. ASSUME NEW v \in Verbs, NEW p \in Profiles, StartUp(c, v, p)
        PROVE  OwnersDecline /\ DaemonsDecline
    <2>1. UNCHANGED <<daemon, zombies>>
      BY <1>1 DEF StartUp, Start, hostVars, procVars
    <2>2. CASE c \in SelfOwned
      <3>1. PICK t \in CreateTimes : /\ FreshCreateTime(OwnerOf[c], t)
                                     /\ born' = [born EXCEPT ![OwnerOf[c]] = t]
        BY <1>1, <2>2 DEF StartUp
      <3>2. OwnersDecline
        BY <3>1 DEF OwnersDecline, FreshCreateTime, HolderAlive, Rows, Held, TypeOK, Row
      <3> QED BY <2>1, <3>2, SameHost
    <2>3. CASE c \notin SelfOwned
      BY <1>1, <2>1, <2>3, SameHost, SameOwners DEF StartUp
    <2> QED BY <2>2, <2>3
  <1>2. CASE Exit(c)
    BY <1>2, ExitDeclines
  <1>3. CASE UNCHANGED <<daemon, zombies, born>>
    BY <1>3, SameHost, SameOwners
  <1>4. ASSUME NEW p \in Profiles, StartDown(c, p) \/ ScheduledReap(c, p)
        PROVE  UNCHANGED <<daemon, zombies, born>>
    BY <1>4 DEF StartDown, ScheduledReap, Start, hostVars, procVars
  <1>5. ASSUME NEW v \in Verbs, StartGlobal(c, v)
        PROVE  UNCHANGED <<daemon, zombies, born>>
    BY <1>5 DEF StartGlobal, Start, hostVars, procVars
  <1>6. RunCommand(c) \/ CommandEnds(c) => UNCHANGED <<daemon, zombies, born>>
    BY DEF RunCommand, CommandEnds, Pass, rest, hostVars, procVars, envVars
  <1>7. Return(c) \/ Crash(c) => Exit(c)
    BY DEF Return, Crash
  <1> QED BY <1>1, <1>2, <1>3, <1>4, <1>5, <1>6, <1>7, Zenon DEF User

\* The steps of a command that stop daemons, the one that starts one, and the others.
LEMMA CommandDeclines ==
    ASSUME IInv, NEW c \in Clients, Advance(c) \/ Acquire(c)
    PROVE  OwnersDecline /\ DaemonsDecline
  <1> USE DEF IInv, rest, lockVars, regVars, hostVars, procVars, envVars
  <1>a. TypeOK
    OBVIOUS
  <1>1. CASE UNCHANGED <<daemon, zombies, born>>
    BY <1>1, SameHost, SameOwners
  <1>2. ASSUME NEW ds \in SUBSET Daemons, Die(ds), UNCHANGED born
        PROVE  OwnersDecline /\ DaemonsDecline
    BY <1>2, <1>a, DieDeclines, SameOwners
  <1>3. CASE Return(c) \/ RunCommand(c)
    BY <1>a, <1>3, UserDeclines
  <1>4. CASE FixShields(c)
    <2>1. PICK refused \in SUBSET {p \in Profiles : work[p] # None} : Teardown(work, refused)
      BY <1>4, Zenon DEF FixShields
    <2>2. {work[p].daemon : p \in refused} \in SUBSET Daemons
      BY DEF TypeOK, Row
    <2>3. Die({work[p].daemon : p \in refused}) /\ UNCHANGED born
      BY <1>4, <2>1 DEF FixShields, Teardown
    <2> QED BY <1>2, <2>2, <2>3
  <1>5. CASE ReapInplace(c)
    <2> DEFINE dropped == {p \in Profiles : registry[p] # None /\ ~Keeps(p)}
               stale   == {p \in dropped : ~IsAlive(registry[p].daemon)}
               dead    == {registry[p].daemon : p \in dropped \ stale}
                             \cup UNION {PidsForSocket(p) : p \in stale}
    <2>1. dead \in SUBSET Daemons
      BY DEF PidsForSocket, Row, TypeOK
    <2>2. Die(dead)
      BY <1>5, Zenon DEF ReapInplace
    <2>3. UNCHANGED born
      BY <1>5 DEF ReapInplace
    <2> HIDE DEF dead
    <2> QED BY <1>2, <2>1, <2>2, <2>3
  <1>6. CASE TeardownAll(c)
    <2>1. Die({registry[p].daemon : p \in {q \in Profiles : registry[q] # None}})
          /\ UNCHANGED born
      BY <1>6, Zenon DEF TeardownAll, Teardown
    <2>2. {registry[p].daemon : p \in {q \in Profiles : registry[q] # None}} \in SUBSET Daemons
      BY DEF TypeOK, Row
    <2> QED BY <1>2, <2>1, <2>2
  <1>7. CASE Down(c)
    <2>1. UNCHANGED born
      BY <1>7 DEF Down
    <2>2. \/ UNCHANGED <<daemon, zombies>>
          \/ /\ prof[c] \in Profiles /\ registry[prof[c]] # None
             /\ Die({registry[q].daemon : q \in {prof[c]}})
      BY <1>7 DEF Down, Teardown, CommandOK
    <2>3. CASE prof[c] \in Profiles /\ registry[prof[c]] # None
               /\ Die({registry[q].daemon : q \in {prof[c]}})
      <3>1. {registry[q].daemon : q \in {prof[c]}} \in SUBSET Daemons
        BY <2>3 DEF Row, TypeOK
      <3> QED BY <1>2, <2>1, <2>3, <3>1
    <2> QED BY <1>1, <2>1, <2>2, <2>3
  <1>8. CASE \E p \in Profiles : SweepOne(c, p)
    <2>1. PICK p \in Profiles : SweepOne(c, p)
      BY <1>8
    <2> DEFINE ds == IF spawnLock[p] = None THEN PidsForSocket(p) ELSE {}
    <2>2. ds \in SUBSET Daemons
      BY DEF PidsForSocket
    <2>3. Die(ds) /\ UNCHANGED born
      BY <2>1, Zenon DEF SweepOne
    <2> HIDE DEF ds
    <2> QED BY <1>2, <2>2, <2>3
  <1>9. CASE ReuseRefused(c)
    <2>1. Die({work[q].daemon : q \in {prof[c]}}) /\ UNCHANGED born
      BY <1>9 DEF ReuseRefused, Teardown
    <2>2. {work[q].daemon : q \in {prof[c]}} \in SUBSET Daemons
      <3>1. verb[c] \in {"up", "run"}
        BY <1>9 DEF ReuseRefused, CommandOK, UpPlaces
      <3> QED BY <1>9, <3>1 DEF ReuseRefused, CommandOK, TypeOK, Row
    <2> QED BY <1>2, <2>1, <2>2
  <1>10. CASE ClearSocket(c)
    <2>1. Die(PidsForSocket(prof[c])) /\ UNCHANGED born
      BY <1>10, Zenon DEF ClearSocket
    <2>2. PidsForSocket(prof[c]) \in SUBSET Daemons
      BY DEF PidsForSocket
    <2> QED BY <1>2, <2>1, <2>2
  <1>11. CASE Spawn(c)
    <2>1. PICK d \in Daemons : FreshDaemon(d) /\ daemon' = [daemon EXCEPT ![d] = prof[c]]
      BY <1>11 DEF Spawn
    <2>2. UNCHANGED <<zombies, born>>
      BY <1>11 DEF Spawn
    <2>3. DaemonsDecline
      BY <2>1, <2>2 DEF DaemonsDecline, FreshDaemon, PidsForSocket, Broken, Rows, TypeOK
    <2> QED BY <2>2, <2>3, SameOwners
  <1>12. CASE BringUpFails(c)
    <2>1. Die({mine[c]}) /\ UNCHANGED born
      BY <1>12, Zenon DEF BringUpFails
    <2>2. {mine[c]} \in SUBSET Daemons
      BY <1>12 DEF BringUpFails, CommandOK, Spawned, Spawning
    <2> QED BY <1>2, <2>1, <2>2
  <1>13. CommitTxn(c) \/ SweepRead(c) \/ ReuseAbsent(c) \/ ReusePending(c)
         \/ ReuseReady(c) \/ ReuseShields(c) \/ ReuseExitFails(c) \/ ReuseExit(c)
         \/ ReuseForward(c) \/ ReuseNoPort(c) \/ Claim(c) => UNCHANGED <<daemon, zombies, born>>
    BY DEF CommitTxn, SweepRead, ReuseAbsent, ReusePending, ReuseReady, ReuseShields,
           ReuseExitFails, ReuseExit, ReuseForward, StartForward, ReuseNoPort, ForwardFails,
           Claim
  <1>14. SpawnFails(c) \/ Boot(c) \/ LoginRunning(c) \/ LoginPending(c)
         \/ EnforceShields(c) \/ SetExitNode(c) \/ SpawnForward(c) \/ ForwardsNoPort(c)
         \/ TimeoutExpired(c) \/ Register(c) \/ AcquireSpawnLock(c)
            => UNCHANGED <<daemon, zombies, born>>
    BY DEF SpawnFails, Boot, LoginRunning, LoginPending, EnforceShields, SetExitNode,
           SpawnForward, StartForward, ForwardsNoPort, ForwardFails, TimeoutExpired,
           Register, AcquireSpawnLock, Pass
  <1> QED BY <1>1, <1>3, <1>4, <1>5, <1>6, <1>7, <1>8, <1>9, <1>10, <1>11, <1>12, <1>13,
     <1>14, Zenon DEF Advance, Acquire

\* A session that starts gets a create time that no claim on its pid has.
LEMMA EnvironmentDeclines ==
    ASSUME TypeOK, Environment
    PROVE  OwnersDecline /\ DaemonsDecline
  <1> USE DEF rest, hostVars, procVars, envVars, timeVars
  <1>1. CASE UNCHANGED <<daemon, zombies, born>>
    BY <1>1, SameHost, SameOwners
  <1>2. ASSUME NEW d \in Daemons, DaemonDies(d)
        PROVE  OwnersDecline /\ DaemonsDecline
    <2>1. Die({d}) /\ UNCHANGED born
      BY <1>2, Zenon DEF DaemonDies
    <2> QED BY <2>1, DieDeclines, SameOwners
  <1>3. ASSUME NEW d \in Daemons, LoginCompletes(d) \/ LoginLost(d)
        PROVE  UNCHANGED <<daemon, zombies, born>>
    BY <1>3 DEF LoginCompletes, LoginLost
  <1>4. ASSUME NEW p \in Profiles, ShieldsDrop(p) \/ LingerElapses(p)
        PROVE  UNCHANGED <<daemon, zombies, born>>
    BY <1>4 DEF ShieldsDrop, LingerElapses
  <1>5. ASSUME NEW p \in Profiles, NEW e \in Nodes \cup {None}, EditProfile(p, e)
        PROVE  UNCHANGED <<daemon, zombies, born>>
    BY <1>5 DEF EditProfile
  <1>6. ASSUME NEW o \in Owners, OwnerDies(o) \/ OwnerStarts(o)
        PROVE  OwnersDecline /\ DaemonsDecline
    <2>1. UNCHANGED <<daemon, zombies>>
      BY <1>6 DEF OwnerDies, OwnerStarts
    <2>2. ASSUME OwnerDies(o) PROVE OwnersDecline
      <3>1. born' = [born EXCEPT ![o] = None]
        BY <2>2 DEF OwnerDies
      <3> QED BY <3>1 DEF OwnersDecline, HolderAlive, Rows, Held, TypeOK, Row
    <2>3. ASSUME OwnerStarts(o) PROVE OwnersDecline
      <3>1. PICK t \in CreateTimes : FreshCreateTime(o, t) /\ born' = [born EXCEPT ![o] = t]
        BY <2>3 DEF OwnerStarts
      <3> QED BY <3>1 DEF OwnersDecline, FreshCreateTime, HolderAlive, Rows, Held, TypeOK, Row
    <2> QED BY <1>6, <2>1, <2>2, <2>3, SameHost
  <1> QED BY <1>1, <1>2, <1>3, <1>4, <1>5, <1>6, Zenon DEF Environment

LEMMA Declines ==
    ASSUME IInv, [Next]_vars
    PROVE  OwnersDecline /\ DaemonsDecline
  <1>1. TypeOK
    BY DEF IInv
  <1>2. CASE UNCHANGED vars
    BY <1>2, SameHost, SameOwners DEF vars, rest, hostVars, procVars, envVars
  <1> QED BY <1>1, <1>2, CommandDeclines, UserDeclines, EnvironmentDeclines DEF Next
-----------------------------------------------------------------------------
(* What each step does to the leases.                                      *)

Asks == Spawning \cup {"begin", "reuse", "finish", "claim", "await"}

LEMMA NoneReturnsHolds ==
    ASSUME OwnersDecline
    PROVE  Lease!NoneReturns
  BY DEF Lease!NoneReturns, OwnersDecline, Rows, Held, Present

\* What happens to the host is no command's business.
LEMMA HostStep ==
    ASSUME OwnersDecline, UNCHANGED <<registry, pc, verb, prof, ct>>
    PROVE  Lease!Next
  <1>1. Rows' = Rows /\ Held' = Held /\ Asked' = Asked /\ Leaving' = Leaving
    BY DEF Rows, Held, Asked, Asking, Leaving
  <1> QED BY <1>1, NoneReturnsHolds DEF Lease!Next, Lease!Host

\* A command that goes on, leaving the committed rows alone, still asks for what it
\* asked for, or for nothing any more.
LEMMA MoveStep ==
    ASSUME TypeOK, OwnersDecline, UNCHANGED <<registry, verb, prof, ct>>,
           NEW c \in Clients, pc' = [pc EXCEPT ![c] = pc'[c]],
           pc[c] # "down", pc'[c] # "down", pc'[c] \in Asks => pc[c] \in Asks
    PROVE  Lease!Next
  <1>1. Rows' = Rows /\ Held' = Held
    BY DEF Rows, Held
  <1>2. \A b \in Clients \ {c} : pc'[b] = pc[b]
    BY DEF TypeOK
  <1>3. Leaving' = Leaving
    BY <1>2 DEF Leaving
  <1>4. CASE Asking(c)' <=> Asking(c)
    <2>1. Asked' = Asked
      BY <1>2, <1>4 DEF Asked, Asking
    <2> QED BY <1>1, <1>3, <2>1, NoneReturnsHolds DEF Lease!Next, Lease!Host
  <1>5. CASE ~Asking(c)'
    <2>1. Asked' = [Asked EXCEPT ![c] = {}]
      BY <1>2, <1>5 DEF Asked, Asking
    <2>2. Leaving' = [Leaving EXCEPT ![c] = {}]
      BY <1>2, <1>3 DEF Leaving
    <2> QED BY <1>1, <2>1, <2>2, NoneReturnsHolds DEF Lease!Next, Lease!Withdraw
  <1> QED BY <1>4, <1>5 DEF Asking, Asks

\* The end of a command withdraws what it asked for.
LEMMA ExitStepLeases ==
    ASSUME TypeOK, OwnersDecline, NEW c \in Clients, Exit(c)
    PROVE  Lease!Next
  <1>1. Rows' = Rows /\ Held' = Held
    BY DEF Rows, Held, Exit
  <1>2. /\ Asked' = [Asked EXCEPT ![c] = {}]
        /\ Leaving' = [Leaving EXCEPT ![c] = {}]
    BY DEF Asked, Asking, Leaving, Exit, Goto, TypeOK, Spawning
  <1> QED BY <1>1, <1>2, NoneReturnsHolds DEF Lease!Next, Lease!Withdraw

\* A command that has what it came for asks for nothing more.
LEMMA AnswerHolds ==
    ASSUME TypeOK, UNCHANGED <<verb, prof, ct>>, NEW c \in Clients,
           NEW place \in {"ready", "auth"}, pc' = [pc EXCEPT ![c] = place], pc[c] # "down"
    PROVE  Asked' = [Asked EXCEPT ![c] = {}] /\ Leaving' = Leaving
  <1>1. pc'[c] = place /\ \A b \in Clients \ {c} : pc'[b] = pc[b]
    BY DEF TypeOK
  <1>2. ~Asking(c)' /\ \A b \in Clients \ {c} : Asking(b)' <=> Asking(b)
    BY <1>1 DEF Asking, Spawning
  <1>3. Leaving' = Leaving
    BY <1>1 DEF Leaving
  <1>4. Asked' = [Asked EXCEPT ![c] = {}]
    BY <1>2 DEF Asked
  <1> QED BY <1>3, <1>4

\* The rows of a transaction replace the file's: each profile is tidied.
LEMMA TidyHolds ==
    ASSUME IInv, WorkOK, OwnersDecline, regLock # None, NEW p \in Profiles,
           registry'[p] = work[p]
    PROVE  Lease!Tidied(p)
  <1>1. (p \in Rows' <=> work[p] # None) /\ (p \in Rows <=> registry[p] # None)
    BY DEF Rows
  <1>2. /\ Held[p] = IF registry[p] = None THEN {} ELSE registry[p].holders
        /\ Held'[p] = IF work[p] = None THEN {} ELSE work[p].holders
    BY DEF Held
  <1>3. work[p] # None => p \in Rows
    BY <1>1 DEF IInv, RegLockOK
  <1>4. CASE work[p] # None
    BY <1>1, <1>2, <1>3, <1>4 DEF WorkOK, Lease!Tidied, Present
  <1>5. CASE work[p] = None
    BY <1>1, <1>2, <1>5 DEF WorkOK, Lease!Tidied, Present
  <1> QED BY <1>4, <1>5

\* A transaction that commits without a claim.
LEMMA TidyStep ==
    ASSUME IInv, WorkOK, OwnersDecline, regLock # None, registry' = work,
           Asked' = Asked, Leaving' = Leaving
    PROVE  Lease!Next
  BY TidyHolds, NoneReturnsHolds DEF Lease!Next, Lease!Tidy

\* A transaction that commits with the claim its command asked for.
LEMMA ClaimStep ==
    ASSUME IInv, WorkOK, OwnersDecline, NEW c \in Clients,
           pc[c] \in {"reuse", "claim"}, work[prof[c]] # None,
           NEW row, row # None, row.holders = Claimed(c).holders,
           registry' = [work EXCEPT ![prof[c]] = row],
           Asked' = [Asked EXCEPT ![c] = {}], Leaving' = Leaving
    PROVE  Lease!Next
  <1> DEFINE p == prof[c]
             h == Claimant(c)
             others == {g \in Held[p] : g[1] # h[1]}
  <1>1. /\ verb[c] \in {"up", "run"} /\ p \in Profiles /\ ct[c] \in CreateTimes
        /\ regLock = c
    BY DEF IInv, CommandOK, RegLockOK, UpPlaces, TxnPlaces
  <1>2. h \in Owners \X CreateTimes /\ h = <<OwnerOf[c], ct[c]>>
    BY <1>1 DEF Claimant
  <1>3. Asked[c] = {<<p, h>>}
    BY <1>1, <1>2 DEF Asked, Asking
  <1>4. registry' \in [Profiles -> {registry'[q] : q \in Profiles}]
        /\ registry'[p] = row /\ \A q \in Profiles \ {p} : registry'[q] = work[q]
    BY <1>1 DEF IInv, TypeOK
  <1>5. p \in Rows' /\ Held'[p] = row.holders
    BY <1>1, <1>4 DEF Rows, Held
  <1>6. work[p] \in Row /\ p \in Rows
    BY <1>1 DEF IInv, TypeOK, RegLockOK, Rows
  <1>7. row.holders = {g \in work[p].holders : g[1] # h[1]} \cup {h}
    <2>1. Claimed(c) = [work[p] EXCEPT
                          !.holders = {g \in work[p].holders : g[1] # h[1]} \cup {h},
                          !.released = FALSE]
      BY Zenon DEF Claimed, AddHolder
    <2> QED BY <1>6, <2>1 DEF Row
  <1>8. /\ work[p].holders \subseteq Held[p]
        /\ \A g \in Held[p] \ work[p].holders : ~HolderAlive(g)
    BY <1>1, <1>6 DEF WorkOK
  <1>9. Held'[p] \subseteq others \cup {h} /\ others \cap Present \subseteq Held'[p]
    BY <1>5, <1>7, <1>8 DEF Present
  <1>10. \A q \in Profiles \ {p} : Lease!Tidied(q)
    BY <1>1, <1>4, TidyHolds
  <1>11. Lease!Grant(c, p, h)
    BY <1>3, <1>5, <1>7, <1>9, <1>10 DEF Lease!Grant
  <1> HIDE DEF p, h
  <1> QED BY <1>1, <1>2, <1>11, NoneReturnsHolds DEF Lease!Next, Lease!Claims

\* A row written by the command that brought its daemon up: there was none, or one
\* whose daemon is dead.
LEMMA RegisterStep ==
    ASSUME IInv, OwnersDecline, NEW c \in Clients, Register(c)
    PROVE  Lease!Next
  <1> DEFINE p == prof[c]
             h == Claimant(c)
  <1>1. /\ pc[c] \in {"register", "pending"}
        /\ verb[c] \in {"up", "run"} /\ p \in Profiles /\ ct[c] \in CreateTimes
    BY DEF IInv, CommandOK, UpPlaces, Spawning, Register
  <1>2. h \in Owners \X CreateTimes /\ h = <<OwnerOf[c], ct[c]>>
    BY <1>1 DEF Claimant
  <1>a. UNCHANGED <<verb, prof, ct>>
    BY DEF Register, cmdVars
  <1>b. PICK place \in {"ready", "auth"} : pc' = [pc EXCEPT ![c] = place]
    BY DEF Register, Goto
  <1>3. Asked[c] = {<<p, h>>} /\ Asked' = [Asked EXCEPT ![c] = {}] /\ Leaving' = Leaving
    <2>1. Asked[c] = {<<p, h>>}
      BY <1>1, <1>2 DEF Asked, Asking, Spawning
    <2>2. TypeOK /\ pc[c] # "down"
      BY <1>1 DEF IInv
    <2> QED BY <1>a, <1>b, <2>1, <2>2, AnswerHolds
  <1>4. PICK row \in Row : /\ row.holders = {h}
                           /\ registry' = [registry EXCEPT ![p] = row]
    <2> DEFINE row == [daemon |-> mine[c], holders |-> {h}, finalized |-> pc[c] = "register",
                       released |-> FALSE, fwds |-> started[c]]
    <2>1. row \in Row
      BY <1>1, <1>2 DEF Row, IInv, TypeOK, CommandOK, Spawned, Spawning
    <2>2. registry' = [registry EXCEPT ![p] = row]
      BY DEF Register
    <2> QED BY <2>1, <2>2
  <1>5. /\ registry'[p] = row
        /\ \A q \in Profiles \ {p} : registry'[q] = registry[q]
    BY <1>1, <1>4 DEF IInv, TypeOK
  <1>6. p \in Rows' /\ Held'[p] = {h}
    BY <1>1, <1>4, <1>5 DEF Rows, Held
  <1>7. p \notin Broken => Held[p] = {}
    BY <1>1 DEF IInv, SpawnSparesTracked, LiveRow, IsAlive, Broken, PidsForSocket, Held,
                Spawning, TypeOK
  <1>8. \A q \in Profiles \ {p} : Lease!Tidied(q)
    BY <1>5 DEF Lease!Tidied, Rows, Held
  <1>9. Lease!Grant(c, p, h)
    BY <1>3, <1>6, <1>7, <1>8 DEF Lease!Grant
  <1> HIDE DEF p, h
  <1> QED BY <1>1, <1>2, <1>9, NoneReturnsHolds DEF Lease!Next, Lease!Claims

\* down takes the claims of its owner off the profile's row, and nothing else.
LEMMA DownStep ==
    ASSUME IInv, OwnersDecline, NEW c \in Clients, Down(c)
    PROVE  Lease!Next
  <1> DEFINE p == prof[c]
             o == OwnerOf[c]
             row == registry[p]
             left == {h \in row.holders : h[1] # o}
  <1>1. pc[c] = "down" /\ p \in Profiles /\ o \in Owners
    BY DEF Down, IInv, CommandOK
  <1>2. /\ Leaving[c] = {<<p, o>>} /\ Leaving' = [Leaving EXCEPT ![c] = {}]
        /\ Asked' = Asked
    BY <1>1 DEF Asked, Asking, Leaving, Down, Goto, Spawning, IInv, TypeOK, cmdVars
  <1>3. \/ row = None /\ UNCHANGED registry
        \/ row # None /\ registry' = [registry EXCEPT ![p] = LeaveTo(row, left)]
        \/ row # None /\ left = {} /\ registry' = [registry EXCEPT ![p] = None]
    BY DEF Down
  <1>4. row # None => LeaveTo(row, left) \in Row /\ LeaveTo(row, left).holders = left
    <2>1. row # None => row \in Row
      BY <1>1 DEF IInv, TypeOK
    <2> DEFINE new == row.released \/ left = {}
    <2>2. row # None => LeaveTo(row, left) = [row EXCEPT !.holders = left, !.released = new]
      BY <2>1 DEF LeaveTo, Row
    <2>3. row # None => left \in SUBSET (Owners \X CreateTimes) /\ new \in BOOLEAN
      BY <2>1 DEF Row
    <2> HIDE DEF new, left
    <2> QED BY <2>1, <2>2, <2>3 DEF Row
  <1>5. \A q \in Profiles \ {p} : registry'[q] = registry[q]
    BY <1>1, <1>3 DEF IInv, TypeOK
  <1>6. /\ Held'[p] = {h \in Held[p] : h[1] # o}
        /\ p \in Rows' => p \in Rows
        /\ p \notin Rows' => p \notin Rows \/ Held'[p] = {}
    BY <1>1, <1>3, <1>4 DEF Held, Rows, IInv, TypeOK
  <1>7. Held' = [Held EXCEPT ![p] = {h \in Held[p] : h[1] # o}]
    BY <1>1, <1>5, <1>6 DEF Held
  <1>8. Rows' = Rows \/ (Rows' = Rows \ {p} /\ Held'[p] = {})
    BY <1>1, <1>5, <1>6 DEF Rows
  <1>9. Lease!Release(c, p, o)
    BY <1>2, <1>7, <1>8 DEF Lease!Release
  <1> HIDE DEF p, o
  <1> QED BY <1>1, <1>9, NoneReturnsHolds DEF Lease!Next
-----------------------------------------------------------------------------
(* The rows of a transaction in progress.                                  *)

\* They stay what they are while the command checks an instance, and what is
\* gone meanwhile stays gone.
LEMMA WorkKept ==
    ASSUME IInv, WorkOK, OwnersDecline, DaemonsDecline, UNCHANGED registry,
           regLock' = None \/ UNCHANGED <<regLock, work>>
    PROVE  WorkOK'
  <1>1. Rows' = Rows /\ Held' = Held
    BY DEF Rows, Held
  <1>2. \A p \in Broken : p \in Broken'
    BY DEF DaemonsDecline, Broken, Rows
  <1> QED BY <1>1, <1>2 DEF WorkOK, OwnersDecline

\* reap drops a row whose daemon is dead, or that no living owner holds.
LEMMA ReapWork ==
    ASSUME IInv, OwnersDecline, DaemonsDecline, NEW c \in Clients, ReapInplace(c)
    PROVE  WorkOK'
  <1>1. Rows' = Rows /\ Held' = Held /\ UNCHANGED born
    BY DEF Rows, Held, ReapInplace, envVars
  <1>2. \A p \in Broken : p \in Broken'
    BY DEF DaemonsDecline, Broken, Rows, ReapInplace
  <1>3. \A p \in Rows :
            work'[p] = IF Keeps(p)
                       THEN [registry[p] EXCEPT !.holders = LiveHolders(registry[p])]
                       ELSE None
    BY DEF ReapInplace, Rows
  <1>4. SUFFICES ASSUME NEW p \in Rows
                 PROVE  \/ /\ work'[p] # None
                           /\ work'[p].holders \subseteq Held[p]
                           /\ \A h \in Held[p] \ work'[p].holders : ~HolderAlive(h)'
                        \/ work'[p] = None /\ p \in Broken'
                        \/ work'[p] = None /\ \A h \in Held[p] : ~HolderAlive(h)'
    BY <1>1 DEF WorkOK
  <1>5. registry[p] \in Row /\ Held[p] = registry[p].holders /\ p \in Profiles
    BY DEF IInv, TypeOK, Rows, Held
  <1>6. CASE Keeps(p)
    <2>1. /\ work'[p] \in Row
          /\ work'[p].holders = LiveHolders(registry[p])
      BY <1>3, <1>5, <1>6, LiveHoldersHolds
    <2> QED BY <1>1, <1>5, <2>1 DEF LiveHolders, HolderAlive
  <1>7. CASE ~Keeps(p)
    <2>1. CASE IsAlive(registry[p].daemon)
      BY <1>1, <1>3, <1>5, <1>7, <2>1 DEF Keeps, LiveHolders, HolderAlive
    <2>2. CASE ~IsAlive(registry[p].daemon)
      BY <1>2, <1>3, <1>5, <1>7, <2>2 DEF IsAlive, Broken, PidsForSocket, Rows
    <2> QED BY <2>1, <2>2
  <1> QED BY <1>6, <1>7

\* What --fix or reset tears down is gone when its row is dropped.
LEMMA TeardownWork ==
    ASSUME IInv, WorkOK, OwnersDecline, DaemonsDecline, NEW c \in Clients,
           FixShields(c) \/ TeardownAll(c)
    PROVE  WorkOK'
  <1>1. Rows' = Rows /\ Held' = Held
    BY DEF Rows, Held, FixShields, TeardownAll
  <1>2. \A p \in Broken : p \in Broken'
    BY DEF DaemonsDecline, Broken, Rows, FixShields, TeardownAll
  <1>3. CASE FixShields(c)
    <2>1. PICK refused \in SUBSET {p \in Profiles : work[p] # None} :
                  /\ Teardown(work, refused)
                  /\ work' = [p \in Profiles |-> IF p \in refused THEN None ELSE work[p]]
      BY <1>3, Zenon DEF FixShields
    <2>2. UNCHANGED <<born, registry>> /\ regLock # None
      BY <1>3 DEF FixShields, IInv, RegLockOK, TxnPlaces, envVars
    <2> DEFINE ds == {work[p].daemon : p \in refused}
    <2>3. ds \in SUBSET Daemons
      BY DEF IInv, TypeOK, Row
    <2>4. Die(ds)
      BY <2>1, Zenon DEF Teardown
    <2>5. \A p \in refused : work[p].daemon \in ds
      OBVIOUS
    <2>6. TypeOK
      BY DEF IInv
    <2> HIDE DEF ds
    <2>7. \A d \in ds : daemon'[d] = None \/ d \in zombies'
      BY <2>3, <2>4, <2>6, DieEnds
    <2>8. \A p \in refused : work[p].daemon \notin PidsForSocket(p)'
      BY <2>5, <2>7 DEF PidsForSocket
    <2>9. \A p \in refused : p \in Broken' /\ p \in Rows
      BY <2>2, <2>8 DEF Broken, IInv, RegLockOK, Rows
    <2>10. \A p \in Rows : work'[p] = IF p \in refused THEN None ELSE work[p]
      BY <2>1 DEF Rows
    <2>11. \A h : HolderAlive(h)' <=> HolderAlive(h)
      BY <2>2 DEF HolderAlive
    <2> QED BY <1>1, <1>2, <2>2, <2>9, <2>10, <2>11 DEF WorkOK
  <1>4. CASE TeardownAll(c)
    <2> DEFINE ds == {registry[p].daemon : p \in Rows}
    <2>1. Die(ds) /\ work' = NoRows
      BY <1>4, Zenon DEF TeardownAll, Teardown, Rows
    <2>2. ds \in SUBSET Daemons
      BY DEF IInv, TypeOK, Row, Rows
    <2>3. \A p \in Rows : registry[p].daemon \in ds
      OBVIOUS
    <2>4. TypeOK /\ UNCHANGED registry
      BY <1>4 DEF IInv, TeardownAll
    <2> HIDE DEF ds
    <2>5. \A d \in ds : daemon'[d] = None \/ d \in zombies'
      BY <2>1, <2>2, <2>4, DieEnds
    <2>6. \A p \in Rows : registry[p].daemon \notin PidsForSocket(p)'
      BY <2>3, <2>5 DEF PidsForSocket, Rows
    <2>7. \A p \in Rows : p \in Broken' /\ work'[p] = None
      BY <2>1, <2>4, <2>6 DEF Broken, Rows, NoRows
    <2> QED BY <1>1, <2>7 DEF WorkOK
  <1> QED BY <1>3, <1>4
-----------------------------------------------------------------------------
(* Every step is a step of Leases, or one that it does not see.            *)

\* Starting a command asks for what it was given.
LEMMA StartLeases ==
    ASSUME IInv, OwnersDecline, NEW c \in Clients, User(c)
    PROVE  Lease!Next
  <1> USE DEF cmdVars, lockVars, regVars, rest, Spawning
  <1>a. TypeOK
    BY DEF IInv
  <1>1. ASSUME pc[c] = "idle", UNCHANGED registry,
               \A b \in Clients \ {c} : /\ pc'[b] = pc[b] /\ verb'[b] = verb[b]
                                        /\ prof'[b] = prof[b] /\ ct'[b] = ct[b]
        PROVE  /\ Rows' = Rows /\ Held' = Held
               /\ Asked[c] = {} /\ Leaving[c] = {}
               /\ \A b \in Clients \ {c} : Asked'[b] = Asked[b] /\ Leaving'[b] = Leaving[b]
    BY <1>1 DEF Rows, Held, Asked, Asking, Leaving
  <1>2. ASSUME NEW v \in Verbs, NEW p \in Profiles, StartUp(c, v, p)
        PROVE  Lease!Next
    <2>1. /\ pc[c] = "idle" /\ UNCHANGED registry
          /\ v \in {"up", "run"}
          /\ pc' = [pc EXCEPT ![c] = "begin"]
          /\ verb' = [verb EXCEPT ![c] = v]
          /\ prof' = [prof EXCEPT ![c] = p]
      BY <1>2 DEF StartUp, Start, Goto
    <2>2. PICK t \in CreateTimes : ct' = [ct EXCEPT ![c] = t]
      <3>1. OwnerOf[c] \in Owners
        OBVIOUS
      <3> QED BY <1>2, <1>a, <3>1 DEF StartUp, TypeOK
    <2> DEFINE h == <<OwnerOf[c], t>>
    <2>3. Asked'[c] = {<<p, h>>} /\ Leaving'[c] = {}
      BY <1>a, <2>1, <2>2 DEF Asked, Asking, Leaving, TypeOK
    <2>4. \A b \in Clients \ {c} : /\ pc'[b] = pc[b] /\ verb'[b] = verb[b]
                                   /\ prof'[b] = prof[b] /\ ct'[b] = ct[b]
      BY <1>a, <2>1, <2>2 DEF TypeOK
    <2>a. /\ Rows' = Rows /\ Held' = Held /\ Asked[c] = {} /\ Leaving[c] = {}
          /\ \A b \in Clients \ {c} : Asked'[b] = Asked[b] /\ Leaving'[b] = Leaving[b]
      BY <1>1, <2>1, <2>4
    <2>5. Asked' = [Asked EXCEPT ![c] = {<<p, h>>}] /\ Leaving' = Leaving
      BY <2>3, <2>a DEF Asked, Leaving
    <2>6. Lease!Ask(c, p, h)
      BY <2>5, <2>a DEF Lease!Ask, Lease!Idle
    <2>7. h \in Lease!Claims
      BY DEF Lease!Claims
    <2> QED BY <2>6, <2>7, NoneReturnsHolds DEF Lease!Next
  <1>3. ASSUME NEW p \in Profiles, StartDown(c, p)
        PROVE  Lease!Next
    <2>1. /\ pc[c] = "idle" /\ UNCHANGED <<registry, ct>>
          /\ pc' = [pc EXCEPT ![c] = "down"]
          /\ verb' = [verb EXCEPT ![c] = "down"]
          /\ prof' = [prof EXCEPT ![c] = p]
      BY <1>3 DEF StartDown, Start, Goto
    <2>2. Asked'[c] = {} /\ Leaving'[c] = {<<p, OwnerOf[c]>>}
      BY <1>a, <2>1 DEF Asked, Asking, Leaving, TypeOK
    <2>3. \A b \in Clients \ {c} : /\ pc'[b] = pc[b] /\ verb'[b] = verb[b]
                                   /\ prof'[b] = prof[b] /\ ct'[b] = ct[b]
      BY <1>a, <2>1 DEF TypeOK
    <2>a. /\ Rows' = Rows /\ Held' = Held /\ Asked[c] = {} /\ Leaving[c] = {}
          /\ \A b \in Clients \ {c} : Asked'[b] = Asked[b] /\ Leaving'[b] = Leaving[b]
      BY <1>1, <2>1, <2>3
    <2>4. Leaving' = [Leaving EXCEPT ![c] = {<<p, OwnerOf[c]>>}] /\ Asked' = Asked
      BY <2>2, <2>a DEF Asked, Leaving
    <2>5. Lease!AskToLeave(c, p, OwnerOf[c]) /\ OwnerOf[c] \in Owners
      BY <2>4, <2>a DEF Lease!AskToLeave, Lease!Idle
    <2> QED BY <2>5, NoneReturnsHolds DEF Lease!Next
  <1>4. ASSUME pc[c] = "idle", UNCHANGED <<registry, ct>>,
               NEW v \in Verbs \ {"up", "run"}, NEW place \in {"begin", "reset"},
               pc' = [pc EXCEPT ![c] = place],
               verb' = [verb EXCEPT ![c] = v],
               prof' = [prof EXCEPT ![c] = None]
        PROVE  Lease!Next
    <2>1. Asked'[c] = {} /\ Leaving'[c] = {}
      BY <1>a, <1>4 DEF Asked, Asking, Leaving, TypeOK
    <2>2. \A b \in Clients \ {c} : /\ pc'[b] = pc[b] /\ verb'[b] = verb[b]
                                   /\ prof'[b] = prof[b] /\ ct'[b] = ct[b]
      BY <1>a, <1>4 DEF TypeOK
    <2>a. /\ Rows' = Rows /\ Held' = Held /\ Asked[c] = {} /\ Leaving[c] = {}
          /\ \A b \in Clients \ {c} : Asked'[b] = Asked[b] /\ Leaving'[b] = Leaving[b]
      BY <1>1, <1>4, <2>2
    <2>3. Leaving' = Leaving /\ Asked' = Asked
      BY <2>1, <2>a DEF Asked, Leaving
    <2> QED BY <2>a, <2>3, NoneReturnsHolds DEF Lease!Next, Lease!Host
  <1>5. ASSUME NEW v \in Verbs, StartGlobal(c, v)
        PROVE  Lease!Next
    <2> DEFINE place == IF v = "reset" THEN "reset" ELSE "begin"
    <2>1. /\ pc[c] = "idle" /\ UNCHANGED <<registry, ct>>
          /\ v \in Verbs \ {"up", "run"}
          /\ pc' = [pc EXCEPT ![c] = place]
          /\ verb' = [verb EXCEPT ![c] = v]
          /\ prof' = [prof EXCEPT ![c] = None]
      BY <1>5 DEF StartGlobal, Start, Goto
    <2>2. place \in {"begin", "reset"}
      OBVIOUS
    <2> QED BY <1>4, <2>1, <2>2
  <1>6. ASSUME NEW p \in Profiles, ScheduledReap(c, p)
        PROVE  Lease!Next
    <2>1. /\ pc[c] = "idle" /\ UNCHANGED <<registry, ct>>
          /\ "reap" \in Verbs \ {"up", "run"}
          /\ pc' = [pc EXCEPT ![c] = "begin"]
          /\ verb' = [verb EXCEPT ![c] = "reap"]
          /\ prof' = [prof EXCEPT ![c] = None]
      BY <1>6 DEF ScheduledReap, Start, Goto, Verbs
    <2> QED BY <1>4, <2>1
  <1>7. CASE CommandEnds(c)
    <2>1. /\ pc[c] = "using" /\ pc' = [pc EXCEPT ![c] = "down"]
          /\ UNCHANGED <<registry, verb, prof, ct>>
      BY <1>7 DEF CommandEnds, Pass, Goto
    <2>2. prof[c] \in Profiles /\ OwnerOf[c] \in Owners
      BY <2>1 DEF IInv, CommandOK, UpPlaces
    <2>3. /\ Rows' = Rows /\ Held' = Held /\ Asked' = Asked
          /\ Asked[c] = {} /\ Leaving[c] = {}
          /\ Leaving' = [Leaving EXCEPT ![c] = {<<prof[c], OwnerOf[c]>>}]
      BY <1>a, <2>1 DEF Rows, Held, Asked, Asking, Leaving, TypeOK
    <2>4. Lease!AskToLeave(c, prof[c], OwnerOf[c])
      BY <2>3 DEF Lease!AskToLeave, Lease!Idle
    <2> QED BY <2>2, <2>4, NoneReturnsHolds DEF Lease!Next
  <1>8. CASE Crash(c)
    <2>1. Exit(c)
      BY <1>8 DEF Crash
    <2> QED BY <1>a, <2>1, ExitStepLeases
  <1> QED BY <1>2, <1>3, <1>5, <1>6, <1>7, <1>8, Zenon DEF User

\* A command between its start and its end.
LEMMA CommandLeases ==
    ASSUME IInv, WorkOK, OwnersDecline, NEW c \in Clients, Advance(c) \/ Acquire(c)
    PROVE  Lease!Next
  <1> USE DEF cmdVars, lockVars, regVars, rest, Spawning, Goto, Asks
  <1>a. TypeOK
    BY DEF IInv
  <1>1. ASSUME UNCHANGED <<registry, verb, prof, ct>>, pc' = [pc EXCEPT ![c] = pc'[c]],
               pc[c] # "down", pc'[c] # "down", pc'[c] \in Asks => pc[c] \in Asks
        PROVE  Lease!Next
    BY <1>a, <1>1, MoveStep
  <1>2. RunCommand(c) \/ FixShields(c) \/ SweepRead(c) \/ TeardownAll(c) => Lease!Next
    BY <1>a, <1>1 DEF TypeOK, RunCommand, FixShields, SweepRead, TeardownAll
  <1>3. ReapInplace(c) => Lease!Next
    <2>1. SUFFICES ASSUME ReapInplace(c) PROVE Lease!Next
      OBVIOUS
    <2>2. pc[c] = "begin" /\ UNCHANGED <<registry, verb, prof, ct>>
      BY <2>1 DEF ReapInplace
    <2>3. PICK place \in {"reuse", "fixing", "commit"} : pc' = [pc EXCEPT ![c] = place]
      BY <2>1 DEF ReapInplace
    <2> QED BY <1>a, <1>1, <2>2, <2>3 DEF TypeOK
  <1>b. ASSUME NEW p \in Profiles, SweepOne(c, p)
        PROVE  Lease!Next
    <2>1. pc[c] = "sweeping" /\ UNCHANGED <<registry, verb, prof, ct>>
      BY <1>b DEF SweepOne
    <2>2. PICK place \in {"done", "sweeping"} : pc' = [pc EXCEPT ![c] = place]
      BY <1>b DEF SweepOne
    <2> QED BY <1>a, <1>1, <2>1, <2>2 DEF TypeOK
  <1>4. ReuseShields(c) \/ ReuseExitFails(c) \/ ReuseRefused(c) \/ ReuseExit(c) \/ ReuseForward(c)
        \/ ReuseNoPort(c) => Lease!Next
    BY <1>a, <1>1 DEF TypeOK, ReuseShields, ReuseExitFails, ReuseRefused, ReuseExit,
                      ReuseForward, StartForward, ReuseNoPort, ForwardFails, Abort
  <1>5. AcquireSpawnLock(c) \/ ClearSocket(c) \/ Spawn(c) \/ SpawnFails(c) \/ Boot(c)
        \/ LoginRunning(c) \/ LoginPending(c) => Lease!Next
    BY <1>a, <1>1 DEF TypeOK, AcquireSpawnLock, ClearSocket, Spawn, SpawnFails, Boot,
                      LoginRunning, LoginPending, Pass
  <1>6. BringUpFails(c) \/ EnforceShields(c) \/ SetExitNode(c) \/ SpawnForward(c)
        \/ ForwardsNoPort(c) \/ TimeoutExpired(c) => Lease!Next
    BY <1>a, <1>1 DEF TypeOK, BringUpFails, EnforceShields, SetExitNode, SpawnForward,
                      StartForward, ForwardsNoPort, ForwardFails, TimeoutExpired, Pass,
                      Abort
  <1>7. CASE Return(c)
    <2>1. Exit(c)
      BY <1>7 DEF Return
    <2> QED BY <1>a, <2>1, ExitStepLeases
  <1>8. CASE CommitTxn(c) \/ ReuseAbsent(c)
    <2>1. registry' = work /\ regLock # None
      BY <1>8 DEF CommitTxn, ReuseAbsent, Commit, IInv, RegLockOK, TxnPlaces
    <2>2. Asked' = Asked /\ Leaving' = Leaving
      BY <1>a, <1>8 DEF Asked, Asking, Leaving, CommitTxn, ReuseAbsent, TypeOK
    <2> QED BY <2>1, <2>2, TidyStep
  <1>9. CASE ReusePending(c) \/ ReuseReady(c)
    <2>1. pc[c] = "reuse" /\ work[prof[c]] # None
      BY <1>9 DEF ReusePending, ReuseReady, LiveRow
    <2>2. registry' = [work EXCEPT ![prof[c]] = Claimed(c)]
      BY <1>9, Zenon DEF ReusePending, ReuseReady, Commit, Claimed
    <2>a. UNCHANGED <<verb, prof, ct>>
      BY <1>9 DEF ReusePending, ReuseReady
    <2>b. PICK place \in {"ready", "auth"} : pc' = [pc EXCEPT ![c] = place]
      BY <1>9 DEF ReusePending, ReuseReady
    <2>3. Asked' = [Asked EXCEPT ![c] = {}] /\ Leaving' = Leaving
      BY <1>a, <2>1, <2>a, <2>b, AnswerHolds
    <2>4. Claimed(c) # None
      BY <2>1, ClaimedHolds DEF IInv
    <2> QED BY <2>1, <2>2, <2>3, <2>4, ClaimStep
  <1>10. CASE Claim(c)
    <2> DEFINE row == [Claimed(c) EXCEPT !.finalized = TRUE, !.fwds = started[c]]
    <2>1. pc[c] = "claim" /\ work[prof[c]] # None
      BY <1>10 DEF Claim, IInv, CommandOK
    <2>2. Claimed(c) \in Row /\ started[c] \in SUBSET Forwarders
      BY <2>1, ClaimedHolds DEF IInv, TypeOK
    <2>3. row \in Row /\ row.holders = Claimed(c).holders
      BY <2>2 DEF Row
    <2>4. registry' = [work EXCEPT ![prof[c]] = row]
      BY <1>10, Zenon DEF Claim, Commit, Claimed
    <2>a. pc' = [pc EXCEPT ![c] = "ready"] /\ UNCHANGED <<verb, prof, ct>>
      BY <1>10 DEF Claim
    <2>5. Asked' = [Asked EXCEPT ![c] = {}] /\ Leaving' = Leaving
      BY <1>a, <2>1, <2>a, AnswerHolds
    <2> HIDE DEF row
    <2>6. row # None
      BY <2>3
    <2> QED BY <2>1, <2>3, <2>4, <2>5, <2>6, ClaimStep
  <1>11. CASE Register(c)
    BY <1>11, RegisterStep
  <1>12. CASE Down(c)
    BY <1>12, DownStep
  <1> QED BY <1>2, <1>3, <1>b, <1>4, <1>5, <1>6, <1>7, <1>8, <1>9, <1>10, <1>11,
     <1>12, Zenon DEF Advance, Acquire

\* The host's own steps.
LEMMA EnvironmentLeases ==
    ASSUME OwnersDecline, Environment
    PROVE  Lease!Next
  <1> USE DEF cmdVars, lockVars, regVars
  <1>1. UNCHANGED <<registry, pc, verb, prof, ct>>
    BY DEF Environment, DaemonDies, LoginCompletes, LoginLost, ShieldsDrop, EditProfile,
           OwnerDies, OwnerStarts, LingerElapses
  <1> QED BY <1>1, HostStep

\* Only inside a transaction is there anything to say of its rows.
LEMMA StepWork ==
    ASSUME LeaseInv, OwnersDecline, DaemonsDecline, [Next]_vars
    PROVE  WorkOK'
  <1> USE DEF cmdVars, lockVars, regVars, rest
  <1>1. CASE regLock' = None
    BY <1>1 DEF WorkOK
  <1>2. CASE UNCHANGED <<registry, regLock, work>>
    BY <1>2, WorkKept DEF LeaseInv
  <1>3. CASE UNCHANGED vars
    BY <1>2, <1>3 DEF vars
  <1>4. ASSUME NEW c \in Clients, Advance(c) \/ Acquire(c)
        PROVE  WorkOK'
    <2>1. CASE ReapInplace(c)
      BY <2>1, ReapWork DEF LeaseInv
    <2>2. CASE FixShields(c) \/ TeardownAll(c)
      BY <2>2, TeardownWork DEF LeaseInv
    <2>3. CASE Return(c)
      <3>1. UNCHANGED registry /\ (regLock' = None \/ UNCHANGED <<regLock, work>>)
        BY <2>3 DEF Return, Exit
      <3> QED BY <3>1, WorkKept DEF LeaseInv
    <2>4. CommitTxn(c) \/ ReuseAbsent(c) \/ ReusePending(c) \/ ReuseReady(c)
          \/ ReuseRefused(c) \/ ReuseExitFails(c) \/ ReuseNoPort(c) \/ Claim(c)
             => regLock' = None
      BY DEF CommitTxn, ReuseAbsent, ReusePending, ReuseReady, ReuseRefused,
             ReuseExitFails, ReuseNoPort, ForwardFails, Claim, Commit, Abort
    <2>5. Down(c) \/ Register(c) => regLock' = None
      BY DEF Down, Register
    <2>6. TimeoutExpired(c) => regLock' = None \/ UNCHANGED <<registry, regLock, work>>
      BY DEF TimeoutExpired, Abort
    <2>7. RunCommand(c) \/ SweepRead(c) \/ (\E p \in Profiles : SweepOne(c, p))
          \/ ReuseShields(c) \/ ReuseExit(c) \/ ReuseForward(c) \/ AcquireSpawnLock(c)
          \/ ClearSocket(c) \/ Spawn(c) => UNCHANGED <<registry, regLock, work>>
      BY DEF RunCommand, SweepRead, SweepOne, ReuseShields, ReuseExit, ReuseForward,
             StartForward, AcquireSpawnLock, ClearSocket, Spawn
    <2>8. SpawnFails(c) \/ Boot(c) \/ LoginRunning(c) \/ LoginPending(c)
          \/ BringUpFails(c) \/ EnforceShields(c) \/ SetExitNode(c) \/ SpawnForward(c)
          \/ ForwardsNoPort(c) => UNCHANGED <<registry, regLock, work>>
      BY DEF SpawnFails, Boot, LoginRunning, LoginPending, BringUpFails, EnforceShields,
             SetExitNode, SpawnForward, StartForward, ForwardsNoPort, ForwardFails, Pass
    <2> QED BY <1>1, <1>2, <1>4, <2>1, <2>2, <2>3, <2>4, <2>5, <2>6, <2>7, <2>8,
       Zenon DEF Advance, Acquire
  <1>5. ASSUME NEW c \in Clients, User(c)
        PROVE  WorkOK'
    <2>1. UNCHANGED registry /\ (regLock' = None \/ UNCHANGED <<regLock, work>>)
      BY <1>5 DEF User, StartUp, StartDown, StartGlobal, ScheduledReap, Start,
                  CommandEnds, Pass, Crash, Exit
    <2> QED BY <2>1, WorkKept DEF LeaseInv
  <1>6. CASE Environment
    <2>1. UNCHANGED <<registry, regLock, work>>
      BY <1>6 DEF Environment, DaemonDies, LoginCompletes, LoginLost, ShieldsDrop,
                  EditProfile, OwnerDies, OwnerStarts, LingerElapses
    <2> QED BY <1>2, <2>1
  <1> QED BY <1>3, <1>4, <1>5, <1>6 DEF Next
-----------------------------------------------------------------------------
(* The theorem.                                                            *)

LEMMA InitLeases == Init => LeaseInv /\ Lease!Init
  <1> SUFFICES ASSUME Init PROVE LeaseInv /\ Lease!Init
    OBVIOUS
  <1>1. LeaseInv
    BY InitIInv DEF LeaseInv, WorkOK, Init
  <1>2. Lease!Init
    BY DEF Lease!Init, Lease!Claims, Init, Rows, Held, Asked, Asking, Leaving, Present,
           Broken, NoRows, Spawning
  <1> QED BY <1>1, <1>2

LEMMA StepLeases == LeaseInv /\ [Next]_vars => LeaseInv' /\ [Lease!Next]_Lease!vars
  <1> SUFFICES ASSUME LeaseInv, [Next]_vars PROVE LeaseInv' /\ [Lease!Next]_Lease!vars
    OBVIOUS
  <1>1. IInv /\ WorkOK /\ IInv'
    BY NextIInv DEF LeaseInv
  <1>2. OwnersDecline /\ DaemonsDecline
    BY <1>1, Declines
  <1>3. WorkOK'
    BY <1>2, StepWork
  <1>4. CASE UNCHANGED vars
    <2>1. UNCHANGED <<registry, pc, verb, prof, ct>>
      BY <1>4 DEF vars, rest, lockVars, regVars, cmdVars
    <2>2. Lease!Next
      BY <1>2, <2>1, HostStep
    <2> QED BY <1>1, <1>3, <2>2 DEF LeaseInv
  <1>5. Next => Lease!Next
    BY <1>1, <1>2, CommandLeases, StartLeases, EnvironmentLeases DEF Next
  <1> QED BY <1>1, <1>3, <1>4, <1>5 DEF LeaseInv

\* The claims in instances.json are leases, whatever dies, times out, fails or is
\* killed: an `up` adds its own claim once, a claim of a living owner goes only by its
\* owner's down or with a daemon that is gone, and none ever comes back.
THEOREM ClaimsAreLeases == Spec => ImplementsLeases
  BY InitLeases, StepLeases, PTL DEF Spec, ImplementsLeases, Lease!Spec
=============================================================================
