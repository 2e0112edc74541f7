------------------------------ MODULE SpawnProofs ------------------------------
(***************************************************************************)
(* Who may stop a tailscaled daemon, for every value of the constants of   *)
(* InstanceManager: theorems about bringing a daemon up while other        *)
(* commands reap, sweep, tear down and crash.                              *)
(*                                                                         *)
(* The code names processes by pid and looks them up by socket.  That a    *)
(* command which kills "the daemon of its row", "its own daemon" or        *)
(* "whatever is bound to the socket" hits nobody else's rests on ServeInv: *)
(* what a row or a command names serves the profile it is named for.  Over *)
(* that invariant, WhoDisturbs lists every step that may stop a daemon of  *)
(* a profile or remove its socket file; the theorems follow from the list. *)
(***************************************************************************)
EXTENDS LeaseProofs, FiniteSetTheorems

\* The daemon of a row, and that of a command, serves the profile it is named for.
RowServes  == \A p \in Profiles : registry[p] # None => daemon[registry[p].daemon] \in {p, None}
MineServes == \A c \in Clients : pc[c] \in Spawned => daemon[mine[c]] \in {prof[c], None}

\* A command that has spawned nothing yet has no daemon.
MineUnset ==
    \A c \in Clients :
        pc[c] \in {"idle", "begin", "reuse", "finish", "claim", "await", "clear", "spawn"}
        => mine[c] = None

\* No transaction works on a row of a profile whose daemon is being brought up.
SpawnNotWorked == \A c \in Clients : pc[c] \in Spawning => work[prof[c]] = None

\* The row that a transaction drops has no daemon any more.
DroppedStopped ==
    regLock # None =>
        \A p \in Profiles : registry[p] # None /\ work[p] = None
                            => registry[p].daemon \notin PidsForSocket(p)

ServeInv == RowServes /\ MineServes /\ MineUnset /\ SpawnNotWorked /\ DroppedStopped

USE ConstantsAssumption, NoneAssumption
-----------------------------------------------------------------------------
(* Who stops daemons, and whose.                                           *)

\* The steps that stop the daemon of a row.
StopsRow(b, p) ==
    \/ ReapInplace(b) /\ LiveRow(registry, p) /\ ~Keeps(p)
    \/ FixShields(b) /\ work[p] # None
    \/ TeardownAll(b)
    \/ Down(b) /\ prof[b] = p /\ ~Linger
         /\ \A h \in registry[p].holders : h[1] = OwnerOf[b]
    \/ ReuseRefused(b) /\ prof[b] = p

\* The steps that stop whatever is bound to the socket.
ClearsSocket(b, p) ==
    \/ ReapInplace(b) /\ registry[p] # None /\ ~LiveRow(registry, p)
    \/ SweepOne(b, p) /\ spawnLock[p] = None
    \/ ClearSocket(b) /\ prof[b] = p

\* No process starts.
NoneStarts == \A d \in Daemons : daemon'[d] \in {daemon[d], None}

LeavesAlone(p) == PidsForSocket(p)' = PidsForSocket(p) /\ sock'[p] = sock[p]

\* What a step of b may do to the daemons and the socket of p, if it starts none.
Disturbance(b, p) ==
    \/ LeavesAlone(p)
    \/ /\ registry[p] # None /\ StopsRow(b, p)
       /\ PidsForSocket(p)' = PidsForSocket(p) \ {registry[p].daemon}
    \/ ClearsSocket(b, p) /\ PidsForSocket(p)' = {}
    \/ /\ BringUpFails(b) /\ prof[b] = p
       /\ PidsForSocket(p)' = PidsForSocket(p) \ {mine[b]}

\* Die stops what it is given and nothing else.
LEMMA DiePids ==
    ASSUME TypeOK, NEW ds \in SUBSET Daemons, Die(ds)
    PROVE  /\ NoneStarts
           /\ \A p \in Profiles : PidsForSocket(p)' = PidsForSocket(p) \ ds
  <1> DEFINE unreaped == {d \in ds : /\ IsAlive(d)
                                     /\ \E c \in Clients : pc[c] = "using" /\ mine[c] = d}
  <1>1. daemon' = [d \in Daemons |-> IF d \in ds \ unreaped THEN None ELSE daemon[d]]
    BY Zenon DEF Die
  <1>2. zombies' = zombies \cup unreaped
    BY Zenon DEF Die
  <1>3. unreaped \subseteq ds
    OBVIOUS
  <1> HIDE DEF unreaped
  <1>4. NoneStarts
    BY <1>1 DEF NoneStarts
  <1>5. ASSUME NEW p \in Profiles PROVE PidsForSocket(p)' = PidsForSocket(p) \ ds
    BY <1>1, <1>2, <1>3 DEF PidsForSocket, TypeOK
  <1> QED BY <1>4, <1>5

\* Most steps leave the process table and the socket files alone.
LEMMA SameProcesses ==
    ASSUME UNCHANGED <<daemon, zombies, sock>>, NEW b
    PROVE  NoneStarts /\ \A p \in Profiles : Disturbance(b, p)
  BY DEF NoneStarts, Disturbance, LeavesAlone, PidsForSocket

\* The end of a command reaps its zombies, which serve nothing.
LEMMA ExitDisturbs ==
    ASSUME TypeOK, NEW b \in Clients, Exit(b)
    PROVE  NoneStarts /\ \A p \in Profiles : Disturbance(b, p)
  <1>1. /\ daemon' = [d \in Daemons |-> IF d \in Reaped(b) THEN None ELSE daemon[d]]
        /\ zombies' = zombies \ Reaped(b) /\ sock' = sock
    BY DEF Exit
  <1>4. Reaped(b) \subseteq zombies
    BY DEF Reaped
  <1>2. NoneStarts
    BY <1>1 DEF NoneStarts
  <1>3. ASSUME NEW p \in Profiles PROVE PidsForSocket(p)' = PidsForSocket(p)
    BY <1>1, <1>4 DEF PidsForSocket, TypeOK
  <1> QED BY <1>1, <1>2, <1>3 DEF Disturbance, LeavesAlone

\* A teardown of some rows stops their daemons, which serve these profiles only.
LEMMA TeardownDisturbs ==
    ASSUME IInv, RowServes, NEW ps \in SUBSET Rows, NEW rows,
           \A p \in ps : rows[p].daemon = registry[p].daemon,
           Teardown(rows, ps)
    PROVE  /\ NoneStarts
           /\ \A p \in Profiles \ ps : LeavesAlone(p)
           /\ \A p \in ps : PidsForSocket(p)' = PidsForSocket(p) \ {registry[p].daemon}
  <1> DEFINE ds == {rows[p].daemon : p \in ps}
  <1>1. ds \in SUBSET Daemons
    BY DEF Rows, IInv, TypeOK, Row
  <1>2. Die(ds) /\ Unlink(ps)
    BY DEF Teardown
  <1>3. ASSUME NEW p \in Profiles
        PROVE  /\ p \notin ps => PidsForSocket(p) \cap ds = {}
               /\ p \in ps => PidsForSocket(p) \ ds = PidsForSocket(p) \ {registry[p].daemon}
    <2>1. ASSUME NEW d \in PidsForSocket(p), d \in ds
          PROVE  p \in ps /\ d = registry[p].daemon
      <3>1. PICK q \in ps : d = registry[q].daemon
        BY <2>1
      <3>2. daemon[d] = p /\ daemon[d] \in {q, None} /\ p # None
        BY <2>1, <3>1 DEF PidsForSocket, RowServes, Rows
      <3> QED BY <3>1, <3>2
    <2> QED BY <2>1
  <1>4. ps \subseteq Profiles /\ TypeOK
    BY DEF Rows, IInv
  <1> HIDE DEF ds
  <1>5. NoneStarts /\ \A p \in Profiles : PidsForSocket(p)' = PidsForSocket(p) \ ds
    BY <1>1, <1>2, <1>4, DiePids
  <1>6. \A p \in Profiles \ ps : sock'[p] = sock[p]
    BY <1>2, <1>4 DEF Unlink
  <1>7. ASSUME NEW p \in Profiles \ ps PROVE LeavesAlone(p)
    BY <1>3, <1>5, <1>6 DEF LeavesAlone
  <1> QED BY <1>3, <1>4, <1>5, <1>7

\* A daemon that starts is new to everybody, and serves the profile of its command.
LEMMA SpawnStarts ==
    ASSUME IInv, NEW b \in Clients, Spawn(b)
    PROVE  /\ mine'[b] \in Daemons /\ FreshDaemon(mine'[b])
           /\ mine' = [mine EXCEPT ![b] = mine'[b]]
           /\ daemon' = [daemon EXCEPT ![mine'[b]] = prof[b]]
           /\ sock' = [sock EXCEPT ![prof[b]] = mine'[b]]
           /\ \A p \in Profiles \ {prof[b]} : LeavesAlone(p)
           /\ \A p \in Profiles :
                p = prof[b] => /\ PidsForSocket(p) \subseteq PidsForSocket(p)'
                               /\ PidsForSocket(p)' \subseteq PidsForSocket(p) \cup {mine'[b]}
  <1>1. prof[b] \in Profiles
    BY DEF IInv, CommandOK, Spawn, UpPlaces, Spawning
  <1>2. PICK d \in Daemons : /\ FreshDaemon(d)
                             /\ daemon' = [daemon EXCEPT ![d] = prof[b]]
                             /\ sock' = [sock EXCEPT ![prof[b]] = d]
                             /\ mine' = [mine EXCEPT ![b] = d]
    BY Zenon DEF Spawn
  <1>3. mine'[b] = d
    BY <1>2 DEF IInv, TypeOK
  <1>4. zombies' = zombies
    BY DEF Spawn
  <1>5. ASSUME NEW p \in Profiles
        PROVE  /\ p # prof[b] => PidsForSocket(p)' = PidsForSocket(p)
               /\ p = prof[b] => /\ PidsForSocket(p) \subseteq PidsForSocket(p)'
                                 /\ PidsForSocket(p)' \subseteq PidsForSocket(p) \cup {d}
    BY <1>1, <1>2, <1>4 DEF PidsForSocket, FreshDaemon, IInv, TypeOK
  <1>6. \A p \in Profiles \ {prof[b]} : sock'[p] = sock[p]
    BY <1>1, <1>2 DEF IInv, TypeOK
  <1>7. \A p \in Profiles \ {prof[b]} : LeavesAlone(p)
    BY <1>5, <1>6 DEF LeavesAlone
  <1> QED BY <1>2, <1>3, <1>5, <1>7

\* _reap_inplace: a row with a live daemon loses that one, a stale one all that is
\* bound to its socket, and a row that is kept loses nothing.
LEMMA ReapDisturbs ==
    ASSUME IInv, RowServes, NEW b \in Clients, ReapInplace(b)
    PROVE  NoneStarts /\ \A p \in Profiles : Disturbance(b, p)
  <1> DEFINE dropped == {p \in Profiles : registry[p] # None /\ ~Keeps(p)}
             stale   == {p \in dropped : ~IsAlive(registry[p].daemon)}
             bound   == {p \in stale : PidsForSocket(p) # {}}
             owned   == {registry[p].daemon : p \in dropped \ stale}
             found   == UNION {PidsForSocket(p) : p \in stale}
  <1>1. Die(owned \cup found) /\ Unlink((dropped \ stale) \cup bound)
    BY Zenon DEF ReapInplace
  <1>2. owned \cup found \in SUBSET Daemons
    BY DEF PidsForSocket, Row, IInv, TypeOK
  <1>3. TypeOK
    BY DEF IInv
  <1>4. ASSUME NEW p \in Profiles, NEW d \in PidsForSocket(p)
        PROVE  /\ d \in owned <=> p \in dropped \ stale /\ d = registry[p].daemon
               /\ d \in found <=> p \in stale
    <2>1. daemon[d] = p /\ p # None
      BY DEF PidsForSocket
    <2>2. ASSUME d \in owned PROVE p \in dropped \ stale /\ d = registry[p].daemon
      <3>1. PICK q \in dropped \ stale : d = registry[q].daemon
        BY <2>2
      <3> QED BY <2>1, <3>1 DEF RowServes
    <2>3. ASSUME d \in found PROVE p \in stale
      <3>1. PICK q \in stale : d \in PidsForSocket(q)
        BY <2>3
      <3> QED BY <2>1, <3>1 DEF PidsForSocket
    <2> QED BY <2>2, <2>3
  <1>5. \A p \in Profiles : /\ p \in dropped <=> registry[p] # None /\ ~Keeps(p)
                            /\ p \in stale <=> registry[p] # None /\ ~LiveRow(registry, p)
    BY DEF LiveRow, Keeps
  <1>6. \A p \in Profiles : p \notin dropped => sock'[p] = sock[p]
    BY <1>1 DEF Unlink
  <1>7. stale \subseteq dropped /\ dropped \subseteq Profiles
    OBVIOUS
  <1> HIDE DEF dropped, stale, bound, owned, found
  <1>8. NoneStarts /\ \A p \in Profiles : PidsForSocket(p)' = PidsForSocket(p) \ (owned \cup found)
    BY <1>1, <1>2, <1>3, DiePids
  <1>9. ASSUME NEW p \in Profiles PROVE Disturbance(b, p)
    <2>1. CASE p \notin dropped
      <3>1. PidsForSocket(p) \cap (owned \cup found) = {}
        BY <1>4, <1>7, <2>1
      <3>2. LeavesAlone(p)
        BY <1>6, <1>8, <2>1, <3>1 DEF LeavesAlone
      <3> QED BY <3>2 DEF Disturbance
    <2>2. CASE p \in stale
      BY <1>4, <1>5, <1>8, <2>2 DEF Disturbance, ClearsSocket
    <2>3. CASE p \in dropped \ stale
      <3>1. PidsForSocket(p)' = PidsForSocket(p) \ {registry[p].daemon}
        BY <1>4, <1>8, <2>3
      <3>2. registry[p] # None /\ LiveRow(registry, p) /\ ~Keeps(p)
        BY <1>5, <2>3 DEF LiveRow
      <3> QED BY <3>1, <3>2 DEF Disturbance, StopsRow
    <2> QED BY <2>1, <2>2, <2>3
  <1> QED BY <1>8, <1>9

\* The other steps of a command that stop daemons, and those that stop none.
LEMMA CommandDisturbs ==
    ASSUME IInv, ServeInv, NEW b \in Clients, Advance(b) \/ Acquire(b), ~Spawn(b)
    PROVE  NoneStarts /\ \A p \in Profiles : Disturbance(b, p)
  <1> USE DEF rest, lockVars, regVars, hostVars, procVars, envVars
  <1>a. TypeOK /\ RowServes /\ \A p \in Profiles : work[p] # None =>
                     registry[p] # None /\ work[p].daemon = registry[p].daemon
    BY DEF IInv, RegLockOK, ServeInv
  <1>1. CASE UNCHANGED <<daemon, zombies, sock>>
    BY <1>1, SameProcesses
  <1>2. CASE Return(b)
    BY <1>a, <1>2, ExitDisturbs DEF Return
  <1>3. CASE ReapInplace(b)
    BY <1>a, <1>3, ReapDisturbs
  <1>4. CASE FixShields(b)
    <2>1. PICK refused \in SUBSET {p \in Profiles : work[p] # None} : Teardown(work, refused)
      BY <1>4, Zenon DEF FixShields
    <2>2. refused \in SUBSET Rows /\ \A p \in refused : work[p].daemon = registry[p].daemon
      BY <1>a DEF Rows
    <2>3. /\ NoneStarts /\ \A p \in Profiles \ refused : LeavesAlone(p)
          /\ \A p \in refused : PidsForSocket(p)' = PidsForSocket(p) \ {registry[p].daemon}
      BY <1>a, <2>1, <2>2, TeardownDisturbs
    <2> QED BY <1>4, <2>2, <2>3 DEF Disturbance, StopsRow, Rows
  <1>5. CASE TeardownAll(b)
    <2>1. Teardown(registry, Rows)
      BY <1>5, Zenon DEF TeardownAll, Rows
    <2>2. /\ NoneStarts /\ \A p \in Profiles \ Rows : LeavesAlone(p)
          /\ \A p \in Rows : PidsForSocket(p)' = PidsForSocket(p) \ {registry[p].daemon}
      BY <1>a, <2>1, TeardownDisturbs
    <2> QED BY <1>5, <2>2 DEF Disturbance, StopsRow, Rows
  <1>6. CASE Down(b)
    <2>1. \/ UNCHANGED hostVars
          \/ /\ prof[b] \in Rows /\ ~Linger
             /\ \A h \in registry[prof[b]].holders : h[1] = OwnerOf[b]
             /\ Teardown(registry, {prof[b]})
      BY <1>6 DEF Down, IInv, CommandOK, Rows
    <2>2. CASE /\ prof[b] \in Rows /\ ~Linger
               /\ \A h \in registry[prof[b]].holders : h[1] = OwnerOf[b]
               /\ Teardown(registry, {prof[b]})
      <3>1. {prof[b]} \in SUBSET Rows
        BY <2>2
      <3>2. /\ NoneStarts /\ \A p \in Profiles \ {prof[b]} : LeavesAlone(p)
            /\ \A p \in {prof[b]} : PidsForSocket(p)' = PidsForSocket(p) \ {registry[p].daemon}
        BY <1>a, <2>2, <3>1, TeardownDisturbs
      <3> QED BY <1>6, <2>2, <3>2 DEF Disturbance, StopsRow, Rows
    <2> QED BY <1>1, <2>1, <2>2
  <1>7. CASE ReuseRefused(b)
    <2>1. Teardown(work, {prof[b]}) /\ work[prof[b]] # None /\ prof[b] \in Profiles
      BY <1>7 DEF ReuseRefused, IInv, CommandOK, UpPlaces
    <2>2. {prof[b]} \in SUBSET Rows /\ \A p \in {prof[b]} : work[p].daemon = registry[p].daemon
      BY <1>a, <2>1 DEF Rows
    <2>3. /\ NoneStarts /\ \A p \in Profiles \ {prof[b]} : LeavesAlone(p)
          /\ \A p \in {prof[b]} : PidsForSocket(p)' = PidsForSocket(p) \ {registry[p].daemon}
      BY <1>a, <2>1, <2>2, TeardownDisturbs
    <2> QED BY <1>7, <2>2, <2>3 DEF Disturbance, StopsRow, Rows
  <1>8. CASE \E q \in Profiles : SweepOne(b, q)
    <2>1. PICK q \in Profiles : SweepOne(b, q)
      BY <1>8
    <2> DEFINE ds == IF spawnLock[q] = None THEN PidsForSocket(q) ELSE {}
    <2>2. ds \in SUBSET Daemons
      BY DEF PidsForSocket
    <2>3. Die(ds) /\ Unlink(IF ds = {} THEN {} ELSE {q})
      BY <2>1, Zenon DEF SweepOne
    <2>4. \A p \in Profiles \ {q} : PidsForSocket(p) \cap ds = {}
      BY DEF PidsForSocket
    <2>5. /\ ds # {} => spawnLock[q] = None /\ ds = PidsForSocket(q)
          /\ ds = {} => \A p \in Profiles : sock'[p] = sock[p]
          /\ \A p \in Profiles \ {q} : sock'[p] = sock[p]
      BY <2>3 DEF Unlink
    <2> HIDE DEF ds
    <2>6. NoneStarts /\ \A p \in Profiles : PidsForSocket(p)' = PidsForSocket(p) \ ds
      BY <1>a, <2>2, <2>3, DiePids
    <2>7. \A p \in Profiles \ {q} : Disturbance(b, p)
      BY <2>4, <2>5, <2>6 DEF Disturbance, LeavesAlone
    <2>8. Disturbance(b, q)
      BY <2>1, <2>5, <2>6 DEF Disturbance, LeavesAlone, ClearsSocket
    <2> QED BY <2>6, <2>7, <2>8
  <1>9. CASE ClearSocket(b)
    <2> DEFINE q == prof[b]
               ds == PidsForSocket(q)
    <2>1. Die(ds) /\ Unlink(IF ds = {} THEN {} ELSE {q})
      BY <1>9, Zenon DEF ClearSocket
    <2>2. ds \in SUBSET Daemons /\ \A p \in Profiles \ {q} : PidsForSocket(p) \cap ds = {}
      BY DEF PidsForSocket
    <2>3. \A p \in Profiles \ {q} : sock'[p] = sock[p]
      BY <2>1 DEF Unlink
    <2>4. NoneStarts /\ \A p \in Profiles : PidsForSocket(p)' = PidsForSocket(p) \ ds
      BY <1>a, <2>1, <2>2, DiePids
    <2>5. ASSUME NEW p \in Profiles PROVE Disturbance(b, p)
      <3>1. CASE p = prof[b]
        BY <1>9, <2>4, <3>1 DEF Disturbance, ClearsSocket
      <3>2. CASE p # prof[b]
        BY <2>2, <2>3, <2>4, <3>2 DEF Disturbance, LeavesAlone
      <3> QED BY <3>1, <3>2
    <2> QED BY <2>4, <2>5
  <1>10. CASE BringUpFails(b)
    <2>1. Die({mine[b]}) /\ Unlink({prof[b]})
      BY <1>10, Zenon DEF BringUpFails
    <2>2. pc[b] \in Spawned /\ mine[b] \in Daemons
      BY <1>10 DEF BringUpFails, IInv, CommandOK, Spawned, Spawning
    <2>3. \A p \in Profiles \ {prof[b]} : mine[b] \notin PidsForSocket(p)
      BY <2>2 DEF ServeInv, MineServes, PidsForSocket
    <2>4. \A p \in Profiles \ {prof[b]} : sock'[p] = sock[p]
      BY <2>1 DEF Unlink
    <2>5. NoneStarts /\ \A p \in Profiles : PidsForSocket(p)' = PidsForSocket(p) \ {mine[b]}
      BY <1>a, <2>1, <2>2, {mine[b]} \in SUBSET Daemons, DiePids
    <2>6. ASSUME NEW p \in Profiles PROVE Disturbance(b, p)
      <3>1. CASE p = prof[b]
        BY <1>10, <2>5, <3>1 DEF Disturbance
      <3>2. CASE p # prof[b]
        <4>1. mine[b] \notin PidsForSocket(p) /\ sock'[p] = sock[p]
          BY <2>3, <2>4, <3>2
        <4>2. PidsForSocket(p)' = PidsForSocket(p) \ {mine[b]}
          BY <2>5
        <4>3. PidsForSocket(p)' = PidsForSocket(p)
          BY <4>1, <4>2
        <4> QED BY <4>1, <4>3 DEF Disturbance, LeavesAlone
      <3> QED BY <3>1, <3>2
    <2> QED BY <2>5, <2>6
  <1>11. RunCommand(b) \/ CommitTxn(b) \/ SweepRead(b) \/ ReuseAbsent(b) \/ ReusePending(b)
         \/ ReuseReady(b) \/ ReuseShields(b) \/ ReuseExitFails(b) \/ ReuseExit(b)
         \/ ReuseForward(b) \/ ReuseNoPort(b) \/ Claim(b) => UNCHANGED <<daemon, zombies, sock>>
    BY DEF RunCommand, CommitTxn, SweepRead, ReuseAbsent, ReusePending, ReuseReady,
           ReuseShields, ReuseExitFails, ReuseExit, ReuseForward, StartForward, ReuseNoPort,
           ForwardFails, Claim
  <1>12. SpawnFails(b) \/ Boot(b) \/ LoginRunning(b) \/ LoginPending(b)
         \/ EnforceShields(b) \/ SetExitNode(b) \/ SpawnForward(b) \/ ForwardsNoPort(b)
         \/ TimeoutExpired(b) \/ Register(b) \/ AcquireSpawnLock(b)
            => UNCHANGED <<daemon, zombies, sock>>
    BY DEF SpawnFails, Boot, LoginRunning, LoginPending, EnforceShields, SetExitNode,
           SpawnForward, StartForward, ForwardsNoPort, ForwardFails, TimeoutExpired,
           Register, AcquireSpawnLock, Pass
  <1> QED BY <1>1, <1>2, <1>3, <1>4, <1>5, <1>6, <1>7, <1>8, <1>9, <1>10, <1>11, <1>12,
     Zenon DEF Advance, Acquire

\* Starting and ending a command stops no daemon that runs.
LEMMA UserDisturbs ==
    ASSUME TypeOK, NEW b \in Clients, User(b)
    PROVE  NoneStarts /\ \A p \in Profiles : Disturbance(b, p)
  <1>1. CASE UNCHANGED <<daemon, zombies, sock>>
    BY <1>1, SameProcesses
  <1>2. ASSUME NEW v \in Verbs, NEW p \in Profiles, StartUp(b, v, p)
        PROVE  UNCHANGED <<daemon, zombies, sock>>
    BY <1>2 DEF StartUp, Start, hostVars, procVars
  <1>3. ASSUME NEW p \in Profiles, StartDown(b, p) \/ ScheduledReap(b, p)
        PROVE  UNCHANGED <<daemon, zombies, sock>>
    BY <1>3 DEF StartDown, ScheduledReap, Start, hostVars, procVars
  <1>4. ASSUME NEW v \in Verbs, StartGlobal(b, v)
        PROVE  UNCHANGED <<daemon, zombies, sock>>
    BY <1>4 DEF StartGlobal, Start, hostVars, procVars
  <1>5. CommandEnds(b) => UNCHANGED <<daemon, zombies, sock>>
    BY DEF CommandEnds, Pass, rest, hostVars, procVars
  <1>6. Crash(b) => Exit(b)
    BY DEF Crash
  <1> QED BY <1>1, <1>2, <1>3, <1>4, <1>5, <1>6, ExitDisturbs, Zenon DEF User

\* A daemon that dies by itself takes no other with it.
Dies(d) ==
    DaemonDies(d) /\ \A p \in Profiles : /\ PidsForSocket(p)' = PidsForSocket(p) \ {d}
                                         /\ sock'[p] = sock[p]

LEMMA EnvironmentDisturbs ==
    ASSUME TypeOK, Environment
    PROVE  NoneStarts /\ (\/ \A p \in Profiles : LeavesAlone(p)
                          \/ \E d \in Daemons : Dies(d))
  <1> USE DEF rest, hostVars, procVars
  <1>1. CASE UNCHANGED <<daemon, zombies, sock>>
    BY <1>1 DEF NoneStarts, LeavesAlone, PidsForSocket
  <1>2. ASSUME NEW d \in Daemons, DaemonDies(d)
        PROVE  NoneStarts /\ Dies(d)
    <2>1. Die({d}) /\ UNCHANGED sock
      BY <1>2, Zenon DEF DaemonDies
    <2>2. {d} \in SUBSET Daemons
      OBVIOUS
    <2> QED BY <1>2, <2>1, <2>2, DiePids DEF Dies
  <1>3. ASSUME NEW d \in Daemons, LoginCompletes(d) \/ LoginLost(d)
        PROVE  UNCHANGED <<daemon, zombies, sock>>
    BY <1>3 DEF LoginCompletes, LoginLost
  <1>4. ASSUME NEW p \in Profiles, ShieldsDrop(p) \/ LingerElapses(p)
        PROVE  UNCHANGED <<daemon, zombies, sock>>
    BY <1>4 DEF ShieldsDrop, LingerElapses
  <1>5. ASSUME NEW p \in Profiles, NEW e \in Nodes \cup {None}, EditProfile(p, e)
        PROVE  UNCHANGED <<daemon, zombies, sock>>
    BY <1>5 DEF EditProfile
  <1>6. ASSUME NEW o \in Owners, OwnerDies(o) \/ OwnerStarts(o)
        PROVE  UNCHANGED <<daemon, zombies, sock>>
    BY <1>6 DEF OwnerDies, OwnerStarts
  <1> QED BY <1>1, <1>2, <1>3, <1>4, <1>5, <1>6, Zenon DEF Environment

\* Every step that may stop a daemon, start one, or remove a socket file.
LEMMA WhoDisturbs ==
    ASSUME IInv, ServeInv, [Next]_vars
    PROVE  \/ NoneStarts /\ \A p \in Profiles : LeavesAlone(p)
           \/ NoneStarts /\ \E b \in Clients : \A p \in Profiles : Disturbance(b, p)
           \/ NoneStarts /\ \E d \in Daemons : Dies(d)
           \/ \E b \in Clients : Spawn(b)
  <1>1. TypeOK
    BY DEF IInv
  <1>2. CASE UNCHANGED vars
    BY <1>2 DEF vars, rest, hostVars, procVars, NoneStarts, LeavesAlone, PidsForSocket
  <1> QED BY <1>1, <1>2, CommandDisturbs, UserDisturbs, EnvironmentDisturbs DEF Next
\* What is bound to a socket was there, or has just been spawned.
LEMMA WhoAppears ==
    ASSUME IInv, ServeInv, [Next]_vars, NEW p \in Profiles, NEW d \in PidsForSocket(p)',
           d \notin PidsForSocket(p)
    PROVE  \E b \in Clients : Spawn(b) /\ prof[b] = p /\ d = mine'[b] /\ FreshDaemon(d)
  <1>1. PICK b \in Clients : Spawn(b)
    BY WhoDisturbs DEF LeavesAlone, Disturbance, Dies
  <1> QED BY <1>1, SpawnStarts DEF LeavesAlone

-----------------------------------------------------------------------------
(* Who writes the rows.                                                    *)

\* What a step of b may make of the row of p.
Rewrites(b, p) ==
    \/ registry'[p] = registry[p]
    \/ regLock = b /\ regLock' = None /\ registry'[p] = work[p]
    \/ /\ ReusePending(b) \/ ReuseReady(b)
       /\ prof[b] = p /\ work[p] # None /\ registry'[p] = Claimed(b)
    \/ /\ Claim(b) /\ prof[b] = p /\ work[p] # None
       /\ registry'[p] = [Claimed(b) EXCEPT !.finalized = TRUE, !.fwds = started[b]]
    \/ Register(b) /\ prof[b] = p
    \/ /\ Down(b) /\ prof[b] = p /\ registry[p] # None
       /\ LET left == {h \in registry[p].holders : h[1] # OwnerOf[b]}
          IN  \/ registry'[p] = None /\ left = {} /\ ~Linger /\ Teardown(registry, {p})
              \/ registry'[p] = LeaveTo(registry[p], left)

LEMMA CommandRewrites ==
    ASSUME IInv, NEW b \in Clients, Advance(b) \/ Acquire(b), NEW p \in Profiles
    PROVE  Rewrites(b, p)
  <1> USE DEF rest, lockVars, regVars
  <1>1. CASE UNCHANGED registry
    BY <1>1 DEF Rewrites
  <1>2. CASE CommitTxn(b) \/ ReuseAbsent(b)
    <2>1. registry' = work /\ regLock' = None
      BY <1>2 DEF CommitTxn, ReuseAbsent, Commit
    <2>2. regLock = b
      BY <1>2 DEF CommitTxn, ReuseAbsent, IInv, RegLockOK, TxnPlaces
    <2> QED BY <2>1, <2>2 DEF Rewrites
  <1>3. CASE ReusePending(b) \/ ReuseReady(b)
    <2>1. registry' = [work EXCEPT ![prof[b]] = Claimed(b)]
      BY <1>3, Zenon DEF ReusePending, ReuseReady, Commit, Claimed
    <2>2. regLock = b /\ work[prof[b]] # None
      BY <1>3 DEF ReusePending, ReuseReady, LiveRow, IInv, RegLockOK, TxnPlaces
    <2>3. prof[b] = p => registry'[p] = Claimed(b)
      BY <2>1 DEF IInv, TypeOK
    <2>4. prof[b] # p => registry'[p] = work[p]
      BY <2>1 DEF IInv, TypeOK
    <2>5. regLock' = None
      BY <1>3 DEF ReusePending, ReuseReady, Commit
    <2> QED BY <1>3, <2>2, <2>3, <2>4, <2>5 DEF Rewrites
  <1>4. CASE Claim(b)
    <2>1. registry' = [work EXCEPT ![prof[b]] =
                         [Claimed(b) EXCEPT !.finalized = TRUE, !.fwds = started[b]]]
      BY <1>4, Zenon DEF Claim, Commit, Claimed
    <2>2. regLock = b /\ work[prof[b]] # None
      BY <1>4 DEF Claim, IInv, RegLockOK, CommandOK, TxnPlaces
    <2>3. prof[b] = p => registry'[p] = [Claimed(b) EXCEPT !.finalized = TRUE, !.fwds = started[b]]
      BY <2>1 DEF IInv, TypeOK
    <2>4. prof[b] # p => registry'[p] = work[p]
      BY <2>1 DEF IInv, TypeOK
    <2>5. regLock' = None
      BY <1>4 DEF Claim, Commit
    <2> QED BY <1>4, <2>2, <2>3, <2>4, <2>5 DEF Rewrites
  <1>5. CASE Register(b)
    BY <1>5 DEF Register, Rewrites, IInv, TypeOK
  <1>6. CASE Down(b)
    <2>1. CASE prof[b] # p
      BY <1>6, <2>1 DEF Down, Rewrites, IInv, TypeOK
    <2>2. CASE prof[b] = p
      BY <1>6, <2>2 DEF Down, Rewrites, IInv, TypeOK
    <2> QED BY <2>1, <2>2
  <1>7. Return(b) \/ RunCommand(b) \/ FixShields(b) \/ SweepRead(b)
        \/ (\E q \in Profiles : SweepOne(b, q)) \/ ReuseRefused(b) \/ ReuseShields(b)
        \/ ReuseExitFails(b) \/ ReuseExit(b) \/ ReuseForward(b)
        \/ ReuseNoPort(b) => UNCHANGED registry
    BY DEF Return, Exit, RunCommand, FixShields, SweepRead, SweepOne, ReuseRefused,
           ReuseShields, ReuseExitFails, ReuseExit, ReuseForward, StartForward, ReuseNoPort,
           ForwardFails, Abort
  <1>8. ClearSocket(b) \/ Spawn(b) \/ SpawnFails(b) \/ Boot(b) \/ LoginRunning(b)
        \/ LoginPending(b) \/ BringUpFails(b) \/ EnforceShields(b) \/ SetExitNode(b)
        \/ SpawnForward(b) \/ ForwardsNoPort(b) \/ TimeoutExpired(b)
        \/ ReapInplace(b) \/ TeardownAll(b) \/ AcquireSpawnLock(b) => UNCHANGED registry
    BY DEF ClearSocket, Spawn, SpawnFails, Boot, LoginRunning, LoginPending, BringUpFails,
           EnforceShields, SetExitNode, SpawnForward, StartForward, ForwardsNoPort,
           ForwardFails, TimeoutExpired, ReapInplace, TeardownAll, AcquireSpawnLock, Pass,
           Abort
  <1> QED BY <1>1, <1>2, <1>3, <1>4, <1>5, <1>6, <1>7, <1>8, Zenon DEF Advance, Acquire

\* Nobody else writes rows: not the users who start commands, and not the host.
LEMMA OthersKeepRows ==
    ASSUME NEW b, User(b) \/ Environment \/ UNCHANGED vars
    PROVE  UNCHANGED registry
  <1> USE DEF rest, lockVars, regVars
  <1>1. ASSUME NEW v \in Verbs, NEW p \in Profiles, StartUp(b, v, p)
        PROVE  UNCHANGED registry
    BY <1>1 DEF StartUp, Start
  <1>2. ASSUME NEW p \in Profiles, StartDown(b, p) \/ ScheduledReap(b, p)
        PROVE  UNCHANGED registry
    BY <1>2 DEF StartDown, ScheduledReap, Start
  <1>3. ASSUME NEW v \in Verbs, StartGlobal(b, v)
        PROVE  UNCHANGED registry
    BY <1>3 DEF StartGlobal, Start
  <1>4. CommandEnds(b) \/ Crash(b) => UNCHANGED registry
    BY DEF CommandEnds, Pass, Crash, Exit
  <1>5. Environment => UNCHANGED registry
    BY Zenon DEF Environment, DaemonDies, LoginCompletes, LoginLost, ShieldsDrop, LingerElapses,
           EditProfile, OwnerDies, OwnerStarts
  <1>6. UNCHANGED vars => UNCHANGED registry
    BY DEF vars
  <1> QED BY <1>1, <1>2, <1>3, <1>4, <1>5, <1>6, Zenon DEF User

LEMMA WhoWrites ==
    ASSUME IInv, [Next]_vars
    PROVE  \/ UNCHANGED registry
           \/ \E b \in Clients : /\ Advance(b) \/ Acquire(b)
                                 /\ \A p \in Profiles : Rewrites(b, p)
  <1>1. ASSUME NEW b \in Clients, Advance(b) \/ Acquire(b)
        PROVE  \A p \in Profiles : Rewrites(b, p)
    BY <1>1, CommandRewrites
  <1> QED BY <1>1, OthersKeepRows DEF Next

\* A row's daemon is set by the command that registers it, and by nobody else.
LEMMA RowDaemon ==
    ASSUME IInv, [Next]_vars, NEW p \in Profiles, registry'[p] # None
    PROVE  \/ registry[p] # None /\ registry'[p].daemon = registry[p].daemon
           \/ \E b \in Clients : /\ Register(b) /\ prof[b] = p
                                 /\ registry'[p].daemon = mine[b]
  <1>a. registry[p] \in Row \cup {None} /\ work[p] \in Row \cup {None}
    BY DEF IInv, TypeOK
  <1>b. work[p] # None => registry[p] # None /\ work[p].daemon = registry[p].daemon
    BY DEF IInv, RegLockOK
  <1>1. CASE UNCHANGED registry
    BY <1>1
  <1>2. ASSUME NEW b \in Clients, Advance(b) \/ Acquire(b), Rewrites(b, p)
        PROVE  \/ registry[p] # None /\ registry'[p].daemon = registry[p].daemon
               \/ Register(b) /\ prof[b] = p /\ registry'[p].daemon = mine[b]
    <2>1. CASE registry'[p] = registry[p] \/ registry'[p] = work[p]
      BY <1>b, <2>1
    <2>2. ASSUME pc[b] \in {"reuse", "claim"}, prof[b] = p, work[p] # None
          PROVE  Claimed(b) \in Row /\ Claimed(b).daemon = registry[p].daemon
      BY <1>b, <2>2, ClaimedHolds DEF IInv
    <2>3. CASE (ReusePending(b) \/ ReuseReady(b)) /\ prof[b] = p /\ work[p] # None
               /\ registry'[p] = Claimed(b)
      BY <1>b, <2>2, <2>3 DEF ReusePending, ReuseReady
    <2>4. CASE Claim(b) /\ prof[b] = p /\ work[p] # None
               /\ registry'[p] = [Claimed(b) EXCEPT !.finalized = TRUE, !.fwds = started[b]]
      <3>1. pc[b] = "claim"
        BY <2>4 DEF Claim
      <3> QED BY <1>b, <2>2, <2>4, <3>1 DEF Row
    <2>5. CASE Register(b) /\ prof[b] = p
      BY <2>5 DEF Register, IInv, TypeOK
    <2>6. CASE registry[p] # None /\ \E left : registry'[p] = LeaveTo(registry[p], left)
      BY <1>a, <2>6 DEF LeaveTo, Row
    <2> QED BY <1>2, <2>1, <2>3, <2>4, <2>5, <2>6 DEF Rewrites
  <1> QED BY <1>1, <1>2, WhoWrites
-----------------------------------------------------------------------------
(* What a step means to the commands.                                      *)

CommandStep(b) == Advance(b) \/ Acquire(b) \/ User(b)

\* A command keeps its place and all that is its own.
Untouched(c) ==
    /\ pc'[c] = pc[c] /\ verb'[c] = verb[c] /\ prof'[c] = prof[c] /\ ct'[c] = ct[c]
    /\ mine'[c] = mine[c] /\ started'[c] = started[c]

LEMMA UserTouches ==
    ASSUME TypeOK, NEW b \in Clients, User(b) \/ Return(b) \/ RunCommand(b)
    PROVE  \A c \in Clients \ {b} : Untouched(c)
  <1> USE DEF rest, lockVars, cmdVars, ownVars, Goto, TypeOK, Untouched
  <1>1. ASSUME NEW v \in Verbs, NEW p \in Profiles, StartUp(b, v, p)
        PROVE  \A c \in Clients \ {b} : Untouched(c)
    <2>1. PICK t : ct' = [ct EXCEPT ![b] = t]
      BY <1>1 DEF StartUp
    <2> QED BY <1>1, <2>1 DEF StartUp, Start
  <1>2. ASSUME NEW p \in Profiles, StartDown(b, p) \/ ScheduledReap(b, p)
        PROVE  \A c \in Clients \ {b} : Untouched(c)
    BY <1>2 DEF StartDown, ScheduledReap, Start
  <1>3. ASSUME NEW v \in Verbs, StartGlobal(b, v)
        PROVE  \A c \in Clients \ {b} : Untouched(c)
    BY <1>3 DEF StartGlobal, Start
  <1>4. ASSUME Exit(b) PROVE \A c \in Clients \ {b} : Untouched(c)
    BY <1>4 DEF Exit
  <1>5. RunCommand(b) \/ CommandEnds(b) => \A c \in Clients \ {b} : Untouched(c)
    BY DEF RunCommand, CommandEnds, Pass
  <1> QED BY <1>1, <1>2, <1>3, <1>4, <1>5, Zenon DEF User, Return, Crash

LEMMA CommandTouches ==
    ASSUME TypeOK, NEW b \in Clients, Advance(b) \/ Acquire(b)
    PROVE  \A c \in Clients \ {b} : Untouched(c)
  <1> USE DEF rest, lockVars, cmdVars, ownVars, Goto, TypeOK, Untouched
  <1>1. CASE Return(b) \/ RunCommand(b)
    BY <1>1, UserTouches
  <1>2. CASE FixShields(b) \/ CommitTxn(b)
    BY <1>2 DEF FixShields, CommitTxn
  <1>8. CASE SweepRead(b) \/ \E q \in Profiles : SweepOne(b, q)
    <2>1. pc' = [pc EXCEPT ![b] = pc'[b]]
      BY <1>8 DEF SweepRead, SweepOne
    <2> QED BY <1>8, <2>1 DEF SweepRead, SweepOne
  <1>9. CASE ReapInplace(b) \/ TeardownAll(b) \/ AcquireSpawnLock(b)
    <2>1. pc' = [pc EXCEPT ![b] = pc'[b]]
      BY <1>9 DEF ReapInplace, TeardownAll, AcquireSpawnLock
    <2> QED BY <1>9, <2>1 DEF ReapInplace, TeardownAll, AcquireSpawnLock
  <1>10. CASE Down(b)
    BY <1>10 DEF Down
  <1>3. ReuseAbsent(b) \/ ReusePending(b) \/ ReuseReady(b) \/ ReuseRefused(b)
        \/ ReuseShields(b) \/ ReuseExitFails(b) \/ ReuseNoPort(b) \/ Claim(b) \/ Register(b)
           => \A c \in Clients \ {b} : Untouched(c)
    BY DEF ReuseAbsent, ReusePending, ReuseReady, ReuseRefused, ReuseShields, ReuseExitFails,
           ReuseNoPort, ForwardFails, Claim, Register
  <1>4. ClearSocket(b) \/ SpawnFails(b) \/ Boot(b) \/ LoginRunning(b) \/ LoginPending(b)
        \/ EnforceShields(b) \/ SetExitNode(b) \/ ForwardsNoPort(b)
           => \A c \in Clients \ {b} : Untouched(c)
    BY DEF ClearSocket, SpawnFails, Boot, LoginRunning, LoginPending, EnforceShields,
           SetExitNode, ForwardsNoPort, ForwardFails, Pass
  <1>5. CASE ReuseForward(b) \/ SpawnForward(b)
    <2>1. \A c \in Clients \ {b} : started'[c] = started[c]
      BY <1>5 DEF ReuseForward, SpawnForward, StartForward
    <2> QED BY <1>5, <2>1 DEF ReuseForward, SpawnForward, StartForward
  <1>11. CASE ReuseExit(b)
    BY <1>11 DEF ReuseExit
  <1>6. CASE Spawn(b) \/ BringUpFails(b)
    BY <1>6 DEF Spawn, BringUpFails
  <1>7. CASE TimeoutExpired(b)
    BY <1>7 DEF TimeoutExpired
  <1> QED BY <1>1, <1>2, <1>3, <1>4, <1>5, <1>6, <1>7, <1>8, <1>9, <1>10, <1>11, Zenon
     DEF Advance, Acquire

\* A step is one command's, and the others do not notice; or it is nobody's.
LEMMA WhoSteps ==
    ASSUME TypeOK, [Next]_vars
    PROVE  \/ \E b \in Clients : CommandStep(b) /\ \A c \in Clients \ {b} : Untouched(c)
           \/ /\ Environment \/ UNCHANGED vars
              /\ UNCHANGED <<lockVars, pc, cmdVars, ownVars>>
  <1>1. Environment => UNCHANGED <<lockVars, pc, cmdVars, ownVars>>
    BY Zenon DEF Environment, DaemonDies, LoginCompletes, LoginLost, ShieldsDrop,
       LingerElapses, EditProfile, OwnerDies, OwnerStarts
  <1>2. UNCHANGED vars => UNCHANGED <<lockVars, pc, cmdVars, ownVars>>
    BY DEF vars, rest
  <1> QED BY <1>1, <1>2, UserTouches, CommandTouches DEF Next, CommandStep

\* How a command comes to a place of the bring-up: from the re-check under the lock,
\* then place by place, with the daemon it has spawned.
Onward(c) ==
    /\ prof'[c] = prof[c]
    /\ \/ ReuseAbsent(c) /\ pc[c] = "reuse" /\ spawnLock[prof[c]] = c /\ pc'[c] = "clear"
            /\ mine'[c] = mine[c]
       \/ Spawn(c) /\ pc[c] = "spawn" /\ pc'[c] = "boot"
       \/ pc[c] = "clear" /\ pc'[c] = "spawn" /\ mine'[c] = mine[c]
       \/ pc[c] \in Spawned /\ pc'[c] \in Spawned /\ mine'[c] = mine[c]

LEMMA SpawnPath ==
    ASSUME TypeOK, NEW b \in Clients, CommandStep(b), pc'[b] \in Spawning
    PROVE  Onward(b)
  <1> USE DEF rest, lockVars, cmdVars, ownVars, Goto, TypeOK, Onward, Spawning, Spawned
  <1>1. ASSUME NEW v \in Verbs, NEW p \in Profiles, StartUp(b, v, p) PROVE FALSE
    BY <1>1 DEF StartUp
  <1>2. ASSUME NEW p \in Profiles, StartDown(b, p) \/ ScheduledReap(b, p) PROVE FALSE
    BY <1>2 DEF StartDown, ScheduledReap
  <1>3. ASSUME NEW v \in Verbs, StartGlobal(b, v) PROVE FALSE
    BY <1>3 DEF StartGlobal
  <1>4. CommandEnds(b) \/ Exit(b) \/ RunCommand(b) => FALSE
    BY DEF CommandEnds, Pass, Exit, RunCommand
  <1>5. FixShields(b) \/ CommitTxn(b) \/ TeardownAll(b) \/ Down(b) \/ AcquireSpawnLock(b) => FALSE
    BY DEF FixShields, CommitTxn, TeardownAll, Down, AcquireSpawnLock
  <1>11. SweepRead(b) \/ (\E q \in Profiles : SweepOne(b, q)) => FALSE
    <2>1. SweepRead(b) => pc'[b] \in {"done", "sweeping"}
      BY DEF SweepRead
    <2>2. ASSUME NEW q \in Profiles, SweepOne(b, q) PROVE pc'[b] \in {"done", "sweeping"}
      BY <2>2 DEF SweepOne
    <2> QED BY <2>1, <2>2
  <1>12. ReapInplace(b) => FALSE
    BY DEF ReapInplace
  <1>6. ReusePending(b) \/ ReuseReady(b) \/ ReuseRefused(b) \/ ReuseShields(b)
        \/ ReuseExitFails(b) \/ ReuseExit(b) \/ ReuseForward(b) \/ ReuseNoPort(b) \/ Claim(b)
        \/ Register(b)
        \/ SpawnFails(b) \/ ForwardsNoPort(b) \/ BringUpFails(b) \/ TimeoutExpired(b) => FALSE
    BY DEF ReusePending, ReuseReady, ReuseRefused, ReuseShields, ReuseExitFails, ReuseExit,
           ReuseForward, StartForward, ReuseNoPort, ForwardFails, Claim, Register,
           SpawnFails, ForwardsNoPort, BringUpFails, TimeoutExpired, Pass
  <1>7. CASE ReuseAbsent(b)
    BY <1>7 DEF ReuseAbsent
  <1>8. CASE Spawn(b)
    BY <1>8 DEF Spawn
  <1>9. CASE ClearSocket(b)
    BY <1>9 DEF ClearSocket
  <1>10. Boot(b) \/ LoginRunning(b) \/ LoginPending(b) \/ EnforceShields(b) \/ SetExitNode(b)
         \/ SpawnForward(b) => Onward(b)
    BY DEF Boot, LoginRunning, LoginPending, EnforceShields, SetExitNode, SpawnForward,
       StartForward, Pass
  <1> QED BY <1>1, <1>2, <1>3, <1>4, <1>5, <1>6, <1>7, <1>8, <1>9, <1>10, <1>11, <1>12,
     Zenon DEF CommandStep, Advance, Acquire, User, Return, Crash

\* A command at a place of the bring-up has just come there, or was there already.
LEMMA WhoSpawns ==
    ASSUME TypeOK, [Next]_vars, NEW c \in Clients, pc'[c] \in Spawning
    PROVE  Onward(c) \/ (pc[c] \in Spawning /\ Untouched(c))
  <1>1. UNCHANGED <<lockVars, pc, cmdVars, ownVars>> => Untouched(c)
    BY DEF lockVars, cmdVars, ownVars, Untouched
  <1> QED BY <1>1, WhoSteps, SpawnPath DEF Untouched

\* A command that has spawned nothing sets out without a daemon.
Early == {"idle", "begin", "reuse", "finish", "claim", "await", "clear", "spawn"}

LEMMA EarlyPath ==
    ASSUME TypeOK, NEW b \in Clients, CommandStep(b), pc'[b] \in Early
    PROVE  mine'[b] = None \/ (pc[b] \in Early /\ mine'[b] = mine[b])
  <1> USE DEF rest, lockVars, cmdVars, ownVars, Goto, TypeOK, Early
  <1>1. ASSUME NEW v \in Verbs, NEW p \in Profiles, StartUp(b, v, p)
        PROVE  pc[b] \in Early /\ mine'[b] = mine[b]
    BY <1>1 DEF StartUp, Start
  <1>2. ASSUME NEW p \in Profiles, StartDown(b, p) \/ ScheduledReap(b, p)
        PROVE  pc[b] \in Early /\ mine'[b] = mine[b]
    BY <1>2 DEF StartDown, ScheduledReap, Start
  <1>3. ASSUME NEW v \in Verbs, StartGlobal(b, v)
        PROVE  pc[b] \in Early /\ mine'[b] = mine[b]
    BY <1>3 DEF StartGlobal, Start
  <1>4. Exit(b) => mine'[b] = None
    BY DEF Exit
  <1>5. CommandEnds(b) \/ RunCommand(b) \/ FixShields(b) \/ CommitTxn(b) \/ TeardownAll(b)
        \/ Down(b) => FALSE
    BY DEF CommandEnds, Pass, RunCommand, FixShields, CommitTxn, TeardownAll, Down
  <1>6. ASSUME SweepRead(b) \/ \E q \in Profiles : SweepOne(b, q) PROVE FALSE
    <2>1. SweepRead(b) => pc'[b] \in {"done", "sweeping"}
      BY DEF SweepRead
    <2>2. ASSUME NEW q \in Profiles, SweepOne(b, q) PROVE pc'[b] \in {"done", "sweeping"}
      BY <2>2 DEF SweepOne
    <2> QED BY <1>6, <2>1, <2>2
  <1>7. ReusePending(b) \/ ReuseReady(b) \/ ReuseRefused(b) \/ ReuseExitFails(b)
        \/ ReuseNoPort(b) \/ Claim(b) \/ Register(b) \/ SpawnFails(b) \/ ForwardsNoPort(b)
        \/ BringUpFails(b) \/ TimeoutExpired(b) \/ Spawn(b) => FALSE
    BY DEF ReusePending, ReuseReady, ReuseRefused, ReuseExitFails, ReuseNoPort,
           ForwardFails, Claim, Register, SpawnFails, ForwardsNoPort, BringUpFails,
           TimeoutExpired, Spawn, Pass
  <1>8. Boot(b) \/ LoginRunning(b) \/ LoginPending(b) \/ EnforceShields(b) \/ SetExitNode(b)
         \/ SpawnForward(b) => FALSE
    BY DEF Boot, LoginRunning, LoginPending, EnforceShields, SetExitNode, SpawnForward,
       StartForward, Pass
  <1>9. ReapInplace(b) \/ ReuseAbsent(b) \/ ReuseShields(b) \/ ReuseExit(b) \/ ReuseForward(b)
        \/ AcquireSpawnLock(b) \/ ClearSocket(b) => pc[b] \in Early /\ mine'[b] = mine[b]
    BY DEF ReapInplace, ReuseAbsent, ReuseShields, ReuseExit, ReuseForward, StartForward,
       AcquireSpawnLock, ClearSocket
  <1> QED BY <1>1, <1>2, <1>3, <1>4, <1>5, <1>6, <1>7, <1>8, <1>9, Zenon
     DEF CommandStep, Advance, Acquire, User, Return, Crash
-----------------------------------------------------------------------------
(* What a transaction works on.                                            *)

\* The rows that reap keeps are those of the file, up to claims that are dead.
Kept(p) ==
    /\ work'[p].daemon = registry[p].daemon
    /\ work'[p].finalized = registry[p].finalized
    /\ work'[p].fwds = registry[p].fwds
    /\ work'[p].holders = LiveHolders(registry[p])

LEMMA ReapSpares ==
    ASSUME TypeOK, NEW b \in Clients, ReapInplace(b), NEW p \in Profiles, work'[p] # None
    PROVE  registry[p] # None /\ Keeps(p)
  BY DEF ReapInplace

LEMMA ReapKept ==
    ASSUME TypeOK, NEW b \in Clients, ReapInplace(b), NEW p \in Profiles, work'[p] # None
    PROVE  Kept(p)
  <1>1. registry[p] # None /\ Keeps(p)
    BY ReapSpares
  <1>2. registry[p] \in Row
    BY <1>1 DEF TypeOK
  <1>3. LiveHolders(registry[p]) \in SUBSET (Owners \X CreateTimes)
    BY <1>2 DEF LiveHolders, Row
  <1>4. work'[p] = [registry[p] EXCEPT !.holders = LiveHolders(registry[p])]
    BY <1>1 DEF ReapInplace
  <1> QED BY <1>2, <1>3, <1>4 DEF Row, Kept

\* The row of a live daemon that is held stays.
LEMMA ReapKeeps ==
    ASSUME TypeOK, NEW b \in Clients, ReapInplace(b), NEW p \in Profiles,
           registry[p] # None, Keeps(p)
    PROVE  work'[p] # None
  <1>1. work'[p] = [registry[p] EXCEPT !.holders = LiveHolders(registry[p])]
    BY DEF ReapInplace
  <1>2. registry[p] \in Row
    BY DEF TypeOK
  <1>3. LiveHolders(registry[p]) \in SUBSET (Owners \X CreateTimes)
    BY <1>2 DEF LiveHolders, Row
  <1>4. work'[p] \in Row
    BY <1>1, <1>2, <1>3 DEF Row
  <1> QED BY <1>4

\* The registry lock and the work under it change together.
LEMMA CommandWorks ==
    ASSUME IInv, NEW b \in Clients, CommandStep(b)
    PROVE  \/ UNCHANGED <<regLock, work>>
           \/ regLock' = None /\ work' = NoRows
           \/ ReapInplace(b) \/ TeardownAll(b)
           \/ FixShields(b)
  <1> USE DEF rest, lockVars, regVars
  <1>1. ASSUME NEW v \in Verbs, NEW p \in Profiles, StartUp(b, v, p)
        PROVE  UNCHANGED <<regLock, work>>
    BY <1>1 DEF StartUp, Start
  <1>2. ASSUME NEW p \in Profiles, StartDown(b, p) \/ ScheduledReap(b, p)
        PROVE  UNCHANGED <<regLock, work>>
    BY <1>2 DEF StartDown, ScheduledReap, Start
  <1>3. ASSUME NEW v \in Verbs, StartGlobal(b, v)
        PROVE  UNCHANGED <<regLock, work>>
    BY <1>3 DEF StartGlobal, Start
  <1>4. CommandEnds(b) \/ RunCommand(b) \/ Down(b) \/ SweepRead(b)
        \/ (\E q \in Profiles : SweepOne(b, q)) \/ ReuseShields(b) \/ ReuseExit(b)
        \/ ReuseForward(b)
        \/ ClearSocket(b) \/ Spawn(b) \/ SpawnFails(b) \/ Boot(b) \/ LoginRunning(b)
        \/ LoginPending(b) \/ BringUpFails(b) \/ EnforceShields(b) \/ SetExitNode(b)
        \/ SpawnForward(b) \/ ForwardsNoPort(b) \/ Register(b) \/ AcquireSpawnLock(b)
           => UNCHANGED <<regLock, work>>
    BY DEF CommandEnds, Pass, RunCommand, Down, SweepRead, SweepOne, ReuseShields,
           ReuseExit, ReuseForward, StartForward, ClearSocket, Spawn, SpawnFails, Boot,
           LoginRunning, LoginPending, BringUpFails, EnforceShields, SetExitNode,
           SpawnForward, ForwardsNoPort, ForwardFails, Register, AcquireSpawnLock
  <1>5. CommitTxn(b) \/ ReuseAbsent(b) \/ ReusePending(b) \/ ReuseReady(b) \/ ReuseRefused(b)
        \/ ReuseExitFails(b) \/ ReuseNoPort(b) \/ Claim(b) => regLock' = None /\ work' = NoRows
    BY DEF CommitTxn, ReuseAbsent, ReusePending, ReuseReady, ReuseRefused, ReuseExitFails,
           ReuseNoPort, ForwardFails, Claim, Commit, Abort
  <1>6. Exit(b) \/ TimeoutExpired(b) => \/ UNCHANGED <<regLock, work>>
                                        \/ regLock' = None /\ work' = NoRows
    BY DEF Exit, TimeoutExpired, Abort
  <1> QED BY <1>1, <1>2, <1>3, <1>4, <1>5, <1>6, Zenon
     DEF CommandStep, Advance, Acquire, User, Return, Crash

\* What a transaction begins to drop it has stopped.
LEMMA DropsStop ==
    ASSUME IInv, RowServes, DroppedStopped, NEW b \in Clients,
           ReapInplace(b) \/ TeardownAll(b) \/ FixShields(b),
           NEW p \in Profiles, registry[p] # None, work'[p] = None
    PROVE  registry[p].daemon \notin PidsForSocket(p)'
  <1> DEFINE d == registry[p].daemon
  <1>1. d \in Daemons /\ TypeOK
    BY DEF IInv, TypeOK, Row
  <1>2. CASE ReapInplace(b)
    <2> DEFINE dropped == {q \in Profiles : registry[q] # None /\ ~Keeps(q)}
               stale   == {q \in dropped : ~IsAlive(registry[q].daemon)}
               dead    == {registry[q].daemon : q \in dropped \ stale}
                             \cup UNION {PidsForSocket(q) : q \in stale}
    <2>1. Die(dead)
      BY <1>2, Zenon DEF ReapInplace
    <2>2. dead \in SUBSET Daemons
      BY DEF PidsForSocket, Row, IInv, TypeOK
    <2>3. d \in dead \/ d \notin PidsForSocket(p)
      <3>1. p \in dropped
        <4>1. ~Keeps(p)
          BY <1>1, <1>2, ReapKeeps
        <4> QED BY <4>1
      <3>2. p \in stale => d \notin PidsForSocket(p)
        BY DEF IsAlive, PidsForSocket
      <3> QED BY <3>1, <3>2
    <2> HIDE DEF dead, d
    <2>4. PidsForSocket(p)' = PidsForSocket(p) \ dead
      BY <1>1, <2>1, <2>2, DiePids
    <2>5. d \notin PidsForSocket(p)'
      BY <2>3, <2>4
    <2> QED BY <2>5 DEF d
  <1>3. CASE TeardownAll(b)
    <2>1. Teardown(registry, Rows)
      BY <1>3, Zenon DEF TeardownAll, Rows
    <2>2. \A q \in Rows : registry[q].daemon = registry[q].daemon
      OBVIOUS
    <2>3. RowServes /\ p \in Rows /\ Rows \in SUBSET Rows
      BY DEF Rows
    <2>4. \A q \in Rows : PidsForSocket(q)' = PidsForSocket(q) \ {registry[q].daemon}
      BY <2>1, <2>2, <2>3, TeardownDisturbs
    <2>5. PidsForSocket(p)' = PidsForSocket(p) \ {d}
      BY <2>3, <2>4
    <2> HIDE DEF d
    <2>6. d \notin PidsForSocket(p)'
      BY <2>5
    <2> QED BY <2>6 DEF d
  <1>4. CASE FixShields(b)
    <2>1. PICK refused \in SUBSET {q \in Profiles : work[q] # None} :
            /\ Teardown(work, refused)
            /\ work' = [q \in Profiles |-> IF q \in refused THEN None ELSE work[q]]
      BY <1>4, Zenon DEF FixShields
    <2>2. refused \in SUBSET Rows /\ \A q \in refused : work[q].daemon = registry[q].daemon
      BY DEF Rows, IInv, RegLockOK
    <2>3. /\ \A q \in Profiles \ refused : LeavesAlone(q)
          /\ \A q \in refused : PidsForSocket(q)' = PidsForSocket(q) \ {registry[q].daemon}
      BY <2>1, <2>2, TeardownDisturbs
    <2>4. CASE p \in refused
      BY <2>3, <2>4
    <2>5. CASE p \notin refused
      <3>1. work[p] = None
        BY <2>1, <2>5
      <3>2. regLock # None
        BY <1>4 DEF FixShields, IInv, RegLockOK, TxnPlaces
      <3>3. d \notin PidsForSocket(p)
        BY <3>1, <3>2 DEF DroppedStopped
      <3> QED BY <2>3, <2>5, <3>3 DEF LeavesAlone
    <2> QED BY <2>4, <2>5
  <1> QED BY <1>2, <1>3, <1>4
-----------------------------------------------------------------------------
(* The invariant.                                                          *)

\* Rows are written at the end of a transaction, or in one of a single step.
LEMMA LockedRows ==
    ASSUME IInv, [Next]_vars, regLock' # None
    PROVE  UNCHANGED registry
  <1>1. ASSUME NEW b \in Clients, NEW p \in Profiles, Rewrites(b, p)
        PROVE  registry'[p] = registry[p]
    <2>1. ReusePending(b) \/ ReuseReady(b) \/ Claim(b) => regLock' = None
      BY DEF ReusePending, ReuseReady, Claim, Commit
    <2>2. Register(b) \/ Down(b) => regLock' = None
      BY DEF Register, Down
    <2> QED BY <1>1, <2>1, <2>2 DEF Rewrites
  <1>2. CASE UNCHANGED registry
    BY <1>2
  <1>3. CASE \E b \in Clients : /\ Advance(b) \/ Acquire(b)
                                /\ \A p \in Profiles : Rewrites(b, p)
    <2>1. \A p \in Profiles : registry'[p] = registry[p]
      BY <1>1, <1>3
    <2>2. registry \in [Profiles -> Row \cup {None}] /\ registry' \in [Profiles -> Row \cup {None}]
      BY NextIInv DEF IInv, TypeOK
    <2> QED BY <2>1, <2>2
  <1> QED BY <1>2, <1>3, WhoWrites

LEMMA WhoWorks ==
    ASSUME IInv, [Next]_vars
    PROVE  \/ UNCHANGED <<regLock, work>>
           \/ regLock' = None /\ work' = NoRows
           \/ \E b \in Clients : ReapInplace(b) \/ TeardownAll(b) \/ FixShields(b)
  <1>1. TypeOK
    BY DEF IInv
  <1>2. UNCHANGED <<lockVars, pc, cmdVars, ownVars>> => UNCHANGED <<regLock, work>>
    BY DEF lockVars, regVars
  <1> QED BY <1>1, <1>2, WhoSteps, CommandWorks

\* Only a reap takes rows up to work on.
LEMMA WorkArises ==
    ASSUME IInv, [Next]_vars, NEW p \in Profiles, work'[p] # None
    PROVE  work[p] # None \/ \E b \in Clients : ReapInplace(b)
  <1>1. ASSUME NEW b \in Clients, FixShields(b) PROVE work[p] # None
    BY <1>1 DEF FixShields
  <1>2. ASSUME NEW b \in Clients, TeardownAll(b) PROVE FALSE
    BY <1>2 DEF TeardownAll, NoRows
  <1>3. work' # NoRows
    BY DEF NoRows
  <1> QED BY <1>1, <1>2, <1>3, WhoWorks

\* No daemon that a row or a command names comes to life.
LEMMA NamedDecline ==
    ASSUME IInv, ServeInv, [Next]_vars, NEW d \in Daemons,
           \/ \E p \in Profiles : registry[p] # None /\ registry[p].daemon = d
           \/ \E c \in Clients : mine[c] = d
    PROVE  daemon'[d] \in {daemon[d], None}
  <1>1. CASE NoneStarts
    BY <1>1 DEF NoneStarts
  <1>2. ASSUME NEW b \in Clients, Spawn(b) PROVE daemon'[d] = daemon[d]
    <2>1. mine'[b] # d
      BY <1>2, SpawnStarts DEF FreshDaemon
    <2> QED BY <1>2, <2>1, SpawnStarts DEF IInv, TypeOK
  <1> QED BY <1>1, <1>2, WhoDisturbs

LEMMA RowServesHolds == ASSUME IInv, ServeInv, [Next]_vars PROVE RowServes'
  <1>1. SUFFICES ASSUME NEW p \in Profiles, registry'[p] # None
                 PROVE  daemon'[registry'[p].daemon] \in {p, None}
    BY DEF RowServes
  <1>2. CASE registry[p] # None /\ registry'[p].daemon = registry[p].daemon
    <2>1. registry[p].daemon \in Daemons
      BY <1>2 DEF IInv, TypeOK, Row
    <2> QED BY <1>2, <2>1, NamedDecline DEF ServeInv, RowServes
  <1>3. ASSUME NEW b \in Clients, Register(b), prof[b] = p, registry'[p].daemon = mine[b]
        PROVE  daemon'[registry'[p].daemon] \in {p, None}
    <2>1. daemon[mine[b]] \in {p, None}
      BY <1>3 DEF Register, ServeInv, MineServes, Spawned, Spawning
    <2> QED BY <1>3, <2>1 DEF Register, hostVars, procVars
  <1> QED BY <1>1, <1>2, <1>3, RowDaemon

LEMMA MineServesHolds == ASSUME IInv, ServeInv, [Next]_vars PROVE MineServes'
  <1>1. SUFFICES ASSUME NEW c \in Clients, pc'[c] \in Spawned
                 PROVE  daemon'[mine'[c]] \in {prof'[c], None}
    BY DEF MineServes
  <1>2. CASE Spawn(c) /\ prof'[c] = prof[c]
    BY <1>2, SpawnStarts DEF IInv, TypeOK
  <1>3. CASE pc[c] \in Spawned /\ mine'[c] = mine[c] /\ prof'[c] = prof[c]
    <2>1. mine[c] \in Daemons /\ daemon[mine[c]] \in {prof[c], None}
      BY <1>3 DEF IInv, CommandOK, ServeInv, MineServes
    <2> QED BY <1>3, <2>1, NamedDecline
  <1>4. pc'[c] \in Spawning /\ pc'[c] \notin {"clear", "spawn"} /\ TypeOK
    BY <1>1 DEF Spawned, Spawning, IInv
  <1>5. Onward(c) => \/ Spawn(c) /\ prof'[c] = prof[c]
                     \/ pc[c] \in Spawned /\ mine'[c] = mine[c] /\ prof'[c] = prof[c]
    BY <1>4, Zenon DEF Onward
  <1>6. pc[c] \in Spawning /\ Untouched(c)
           => pc[c] \in Spawned /\ mine'[c] = mine[c] /\ prof'[c] = prof[c]
    BY <1>4 DEF Untouched, Spawned
  <1> QED BY <1>2, <1>3, <1>4, <1>5, <1>6, WhoSpawns

LEMMA MineUnsetHolds == ASSUME IInv, ServeInv, [Next]_vars PROVE MineUnset'
  <1>1. SUFFICES ASSUME NEW c \in Clients, pc'[c] \in Early PROVE mine'[c] = None
    BY DEF MineUnset, Early
  <1>2. TypeOK /\ (pc[c] \in Early => mine[c] = None)
    BY DEF IInv, ServeInv, MineUnset, Early
  <1>3. CommandStep(c) => mine'[c] = None
    BY <1>1, <1>2, EarlyPath
  <1>4. Untouched(c) => mine'[c] = None
    BY <1>1, <1>2 DEF Untouched
  <1>5. UNCHANGED <<lockVars, pc, cmdVars, ownVars>> => Untouched(c)
    BY DEF lockVars, cmdVars, ownVars, Untouched
  <1> QED BY <1>2, <1>3, <1>4, <1>5, WhoSteps

LEMMA SpawnNotWorkedHolds == ASSUME IInv, ServeInv, [Next]_vars PROVE SpawnNotWorked'
  <1>1. SUFFICES ASSUME NEW c \in Clients, pc'[c] \in Spawning, work'[prof'[c]] # None
                 PROVE  FALSE
    BY DEF SpawnNotWorked
  <1>2. TypeOK /\ prof'[c] \in Profiles
    BY <1>1, NextIInv DEF IInv, CommandOK, UpPlaces
  <1>3. ReuseAbsent(c) => FALSE
    BY <1>1, <1>2 DEF ReuseAbsent, Commit, NoRows
  <1>4. pc[c] \in Spawning /\ prof'[c] = prof[c]
    BY <1>1, <1>2, <1>3, WhoSpawns DEF Onward, Untouched, Spawned, Spawning
  <1>5. work[prof[c]] = None /\ ~LiveRow(registry, prof[c])
    BY <1>4 DEF ServeInv, SpawnNotWorked, IInv, SpawnSparesTracked
  <1>6. PICK b \in Clients : ReapInplace(b)
    BY <1>1, <1>2, <1>4, <1>5, WorkArises
  <1>7. registry[prof[c]] # None /\ Keeps(prof[c])
    BY <1>1, <1>2, <1>4, <1>6, ReapSpares
  <1> QED BY <1>5, <1>7 DEF LiveRow, Keeps

LEMMA DroppedStoppedHolds == ASSUME IInv, ServeInv, [Next]_vars PROVE DroppedStopped'
  <1>1. SUFFICES ASSUME regLock' # None,
                        NEW p \in Profiles, registry'[p] # None, work'[p] = None
                 PROVE  registry'[p].daemon \notin PidsForSocket(p)'
    BY DEF DroppedStopped
  <1>2. registry'[p] = registry[p]
    BY <1>1, LockedRows
  <1>3. CASE UNCHANGED <<regLock, work>>
    <2>1. registry[p].daemon \notin PidsForSocket(p)
      BY <1>1, <1>2, <1>3 DEF ServeInv, DroppedStopped
    <2>2. DaemonsDecline
      BY NextIInv, Declines
    <2> QED BY <1>1, <1>2, <2>1, <2>2 DEF DaemonsDecline, Rows, Broken
  <1>4. ASSUME NEW b \in Clients, ReapInplace(b) \/ TeardownAll(b) \/ FixShields(b)
        PROVE  registry[p].daemon \notin PidsForSocket(p)'
    BY <1>1, <1>2, <1>4, DropsStop DEF ServeInv
  <1> QED BY <1>1, <1>2, <1>3, <1>4, WhoWorks

HostInv == IInv /\ ServeInv

LEMMA InitServe == Init => HostInv
  BY InitIInv DEF HostInv, ServeInv, RowServes, MineServes, MineUnset, SpawnNotWorked,
     DroppedStopped, Init, NoRows, Spawned, Spawning

LEMMA NextServe == HostInv /\ [Next]_vars => HostInv'
  BY NextIInv, RowServesHolds, MineServesHolds, MineUnsetHolds, SpawnNotWorkedHolds,
     DroppedStoppedHolds DEF HostInv, ServeInv

LEMMA HostInvariance == Spec => []HostInv
  BY InitServe, NextServe, PTL DEF Spec
-----------------------------------------------------------------------------
(* What becomes of a daemon that is being brought up.                      *)

\* The command that brings it up has the profile's spawn lock: the steps under that
\* lock are its own.
LEMMA SpawnerAlone ==
    ASSUME IInv, NEW b \in Clients, NEW c \in Clients,
           pc[b] \in Spawning, pc[c] \in Spawning, prof[b] = prof[c]
    PROVE  b = c
  BY DEF IInv, SpawnLockOK

\* What a step of others may do to the profile: nothing, or what follows from a row.
LEMMA OthersSpare ==
    ASSUME HostInv, [Next]_vars, NEW c \in Clients, pc[c] \in Spawning, OthersStep(c),
           NEW p \in Profiles, p = prof[c]
    PROVE  /\ prof'[c] = p
           /\ \/ LeavesAlone(p)
              \/ registry[p] # None /\ PidsForSocket(p)' = PidsForSocket(p) \ {registry[p].daemon}
              \/ /\ registry[p] # None /\ ~LiveRow(registry, p)
                 /\ \E b \in Clients : ReapInplace(b)
  <1>1. IInv /\ ServeInv /\ TypeOK /\ pc'[c] = pc[c] /\ pc'[c] \in Spawning
    BY DEF HostInv, IInv, OthersStep
  <1>2. prof'[c] = p
    BY <1>1, WhoSpawns DEF Onward, Untouched
  <1>3. ASSUME NEW b \in Clients, BringUpFails(b) \/ ClearSocket(b) \/ Spawn(b)
        PROVE  prof[b] # p
    <2>1. pc[b] \in Spawning /\ pc'[b] # pc[b]
      BY <1>1, <1>3 DEF BringUpFails, ClearSocket, Spawn, Spawning, Goto, TypeOK
    <2> QED BY <1>1, <2>1, SpawnerAlone
  <1>4. spawnLock[p] # None
    BY <1>1 DEF IInv, SpawnLockOK
  <1>5. ASSUME NEW b \in Clients, ClearsSocket(b, p)
        PROVE  ReapInplace(b) /\ registry[p] # None /\ ~LiveRow(registry, p)
    BY <1>3, <1>4, <1>5 DEF ClearsSocket
  <1>6. ASSUME NEW b \in Clients, Disturbance(b, p)
        PROVE  \/ LeavesAlone(p)
               \/ registry[p] # None /\ PidsForSocket(p)' = PidsForSocket(p) \ {registry[p].daemon}
               \/ ReapInplace(b) /\ registry[p] # None /\ ~LiveRow(registry, p)
    BY <1>3, <1>5, <1>6 DEF Disturbance
  <1>7. ASSUME NEW b \in Clients, Spawn(b) PROVE LeavesAlone(p)
    BY <1>1, <1>3, <1>7, SpawnStarts
  <1>8. ASSUME NEW d \in Daemons, Dies(d) PROVE FALSE
    BY <1>8 DEF Dies, DaemonDies, OthersStep, ownVars
  <1> QED BY <1>1, <1>2, <1>6, <1>7, <1>8, WhoDisturbs

LEMMA StepKill ==
    ASSUME HostInv, [Next]_vars, NEW c \in Clients, pc[c] \in Spawning,
           mine[c] \in PidsForSocket(prof[c]), OthersStep(c)
    PROVE  \/ mine[c] \in PidsForSocket(prof[c])'
           \/ /\ registry[prof[c]] # None
              /\ ~IsAlive(registry[prof[c]].daemon)
              /\ \E b \in Clients : pc[b] = "begin" /\ pc'[b] # "begin"
  <1>1. prof[c] \in Profiles
    BY DEF HostInv, IInv, CommandOK, UpPlaces
  <1>2. PICK p \in Profiles : p = prof[c]
    BY <1>1
  <1>3. IInv /\ ServeInv /\ TypeOK
    BY DEF HostInv, IInv
  <1>4. /\ mine[c] \in PidsForSocket(p)
        /\ \/ PidsForSocket(p)' = PidsForSocket(p)
           \/ /\ registry[p] # None
              /\ PidsForSocket(p)' = PidsForSocket(p) \ {registry[p].daemon}
        => mine[c] \in PidsForSocket(p)'
    <2>1. registry[p] # None => daemon[registry[p].daemon] = None
      BY <1>2, <1>3 DEF IInv, SpawnSparesTracked, LiveRow, IsAlive
    <2> QED BY <2>1 DEF PidsForSocket
  <1>5. ASSUME NEW b \in Clients, ReapInplace(b) PROVE pc[b] = "begin" /\ pc'[b] # "begin"
    BY <1>3, <1>5 DEF ReapInplace, Goto, TypeOK
  <1> QED BY <1>2, <1>4, <1>5, OthersSpare DEF LeavesAlone, LiveRow, PidsForSocket

\* Whatever dies, fails or is killed: nobody stops a daemon that is being brought up,
\* except a reap that finds the row of its dead predecessor.
THEOREM SpawnKillers == Spec => SpawnKilledByDeadRow
  <1>1. HostInv /\ [Next]_vars =>
          [\A c \in Clients :
             (pc[c] \in Spawning /\ mine[c] \in PidsForSocket(prof[c]) /\ OthersStep(c))
             => \/ mine[c] \in PidsForSocket(prof[c])'
                \/ /\ registry[prof[c]] # None
                   /\ ~IsAlive(registry[prof[c]].daemon)
                   /\ \E b \in Clients : pc[b] = "begin" /\ pc'[b] # "begin"]_vars
    BY StepKill
  <1> QED BY <1>1, HostInvariance, PTL DEF Spec, SpawnKilledByDeadRow
-----------------------------------------------------------------------------
(* No daemon is lost track of.                                             *)

\* _register writes the daemon that the command has spawned.
LEMMA StepRegisters ==
    ASSUME IInv, NEW b \in Clients, Register(b)
    PROVE  /\ prof[b] \in Profiles /\ registry'[prof[b]] \in Row
           /\ registry'[prof[b]].daemon = mine[b]
           /\ registry'[prof[b]].finalized = (pc[b] = "register")
           /\ registry'[prof[b]].fwds = started[b]
           /\ registry'[prof[b]].holders = {Claimant(b)}
           /\ \A p \in Profiles \ {prof[b]} : registry'[p] = registry[p]
  <1>1. /\ pc[b] \in UpPlaces /\ mine[b] \in Daemons
        /\ prof[b] \in Profiles /\ ct[b] \in CreateTimes
    BY DEF Register, IInv, CommandOK, UpPlaces, Spawned, Spawning
  <1>2. Claimant(b) \in Owners \X CreateTimes
    BY <1>1 DEF Claimant, IInv, TypeOK
  <1>3. registry'[prof[b]] = [daemon    |-> mine[b],
                              holders   |-> {Claimant(b)},
                              finalized |-> pc[b] = "register",
                              released  |-> FALSE,
                              fwds      |-> started[b]]
    BY <1>1 DEF Register, IInv, TypeOK
  <1>4. registry'[prof[b]] \in Row
    BY <1>1, <1>2, <1>3 DEF IInv, TypeOK, Row
  <1>5. \A p \in Profiles \ {prof[b]} : registry'[p] = registry[p]
    BY <1>1 DEF Register, IInv, TypeOK
  <1> QED BY <1>1, <1>3, <1>4, <1>5

\* A row goes with the transaction that has dropped it, or with a down.
LEMMA WhoDrops ==
    ASSUME IInv, [Next]_vars, NEW p \in Profiles, registry[p] # None, registry'[p] = None
    PROVE  \E b \in Clients : \/ regLock = b /\ work[p] = None
                              \/ Down(b) /\ Teardown(registry, {p})
  <1>1. PICK b \in Clients : Rewrites(b, p)
    BY WhoWrites
  <1>2. Claim(b) \/ ReusePending(b) \/ ReuseReady(b) => pc[b] \in {"reuse", "claim"}
    BY DEF Claim, ReusePending, ReuseReady
  <1>3. prof[b] = p /\ work[p] # None /\ pc[b] \in {"reuse", "claim"} => Claimed(b) \in Row
    BY ClaimedHolds DEF IInv
  <1>4. Claimed(b) \in Row
        => /\ Claimed(b) # None
           /\ [Claimed(b) EXCEPT !.finalized = TRUE, !.fwds = started[b]] \in Row
    BY DEF Row, IInv, TypeOK
  <1>5. Register(b) /\ prof[b] = p => registry'[p] # None
    BY StepRegisters
  <1>6. ASSUME NEW left, left = {h \in registry[p].holders : h[1] # OwnerOf[b]}
        PROVE  LeaveTo(registry[p], left) # None
    <2>1. registry[p] \in Row /\ (registry[p].released => registry[p].holders = {})
      BY DEF IInv, TypeOK, LingerOK
    <2>2. left \in SUBSET registry[p].holders
      BY <1>6
    <2>3. LeaveTo(registry[p], left) \in Row
      BY <2>1, <2>2, LeaveToHolds
    <2> QED BY <2>3
  <1> QED BY <1>1, <1>2, <1>3, <1>4, <1>5, <1>6 DEF Rewrites

\* A row that goes has lost its daemon, by then or with it.
LEMMA RowsGoStopped ==
    ASSUME HostInv, [Next]_vars, NEW p \in Profiles, registry[p] # None, registry'[p] = None
    PROVE  registry[p].daemon \notin PidsForSocket(p)'
  <1>1. IInv /\ ServeInv /\ DaemonsDecline
    BY NextIInv, Declines DEF HostInv
  <1>2. CASE regLock # None /\ work[p] = None
    <2>1. registry[p].daemon \notin PidsForSocket(p)
      BY <1>1, <1>2 DEF ServeInv, DroppedStopped
    <2> QED BY <1>1, <2>1 DEF DaemonsDecline, Rows, Broken
  <1>3. CASE Teardown(registry, {p})
    <2>1. {p} \in SUBSET Rows /\ RowServes
      BY <1>1 DEF Rows, ServeInv
    <2>2. PidsForSocket(p)' = PidsForSocket(p) \ {registry[p].daemon}
      BY <1>1, <1>3, <2>1, TeardownDisturbs
    <2> QED BY <2>2
  <1> QED BY <1>1, <1>2, <1>3, WhoDrops, NoneAssumption

\* The ways out of a bring-up.
LEMMA SpawnLeaves ==
    ASSUME TypeOK, NEW b \in Clients, CommandStep(b), pc[b] \in Spawned
    PROVE  \/ pc'[b] \in Spawning
           \/ Register(b) \/ BringUpFails(b) \/ SpawnFails(b) \/ ForwardsNoPort(b)
           \/ TimeoutExpired(b) \/ Crash(b)
  <1> USE DEF rest, lockVars, Goto, TypeOK, Spawning, Spawned
  <1>1. User(b) => Crash(b)
    BY Zenon DEF User, StartUp, StartDown, ScheduledReap, StartGlobal, Start, CommandEnds, Pass
  <1>2. Return(b) \/ RunCommand(b) \/ FixShields(b) \/ CommitTxn(b) \/ SweepRead(b)
        \/ (\E q \in Profiles : SweepOne(b, q)) \/ ReuseAbsent(b) \/ ReusePending(b)
        \/ ReuseReady(b) \/ ReuseRefused(b) \/ ReuseShields(b) \/ ReuseExitFails(b)
        \/ ReuseExit(b) \/ ReuseForward(b) \/ ReuseNoPort(b) \/ Claim(b) \/ ClearSocket(b)
        \/ Spawn(b)
        \/ ReapInplace(b) \/ TeardownAll(b) \/ Down(b) \/ AcquireSpawnLock(b) => FALSE
    BY DEF Return, Outcomes, Failures, RunCommand, FixShields, CommitTxn, SweepRead,
           SweepOne, ReuseAbsent, ReusePending, ReuseReady, ReuseRefused, ReuseShields,
           ReuseExitFails, ReuseExit, ReuseForward, StartForward, ReuseNoPort, ForwardFails,
           Claim, ClearSocket, Spawn, ReapInplace, TeardownAll, Down, AcquireSpawnLock
  <1>3. Boot(b) \/ LoginRunning(b) \/ LoginPending(b) \/ EnforceShields(b) \/ SetExitNode(b)
        \/ SpawnForward(b) => pc'[b] \in Spawning
    BY DEF Boot, LoginRunning, LoginPending, EnforceShields, SetExitNode, SpawnForward,
       StartForward, Pass
  <1> QED BY <1>1, <1>2, <1>3, Zenon DEF CommandStep, Advance, Acquire

\* A command that gives up a daemon has stopped it, or found it dead.
LEMMA GiveUp ==
    ASSUME HostInv, NEW b \in Clients, pc[b] \in Spawned, BringUpFails(b) \/ SpawnFails(b),
           NEW p \in Profiles
    PROVE  mine[b] \notin PidsForSocket(p)'
  <1>1. TypeOK /\ mine[b] \in Daemons
    BY DEF HostInv, IInv, CommandOK
  <1>2. CASE BringUpFails(b)
    <2>1. Die({mine[b]})
      BY <1>2, Zenon DEF BringUpFails
    <2>2. PidsForSocket(p)' = PidsForSocket(p) \ {mine[b]}
      BY <1>1, <2>1, {mine[b]} \in SUBSET Daemons, DiePids
    <2> QED BY <2>2
  <1>3. CASE SpawnFails(b)
    <2>1. daemon[mine[b]] = None /\ UNCHANGED <<daemon, zombies>>
      BY <1>3 DEF SpawnFails, Pass, IsAlive, Spawned, rest, hostVars, procVars
    <2> QED BY <2>1 DEF PidsForSocket
  <1> QED BY <1>2, <1>3

\* Profiles that declare no forward have none left to start.
NoForward == \A p \in Profiles : PortForwards[p] = 0

LEMMA NoneLeft ==
    ASSUME TypeOK, NoForward, NEW c \in Clients, prof[c] \in Profiles
    PROVE  ~ForwardsLeft(c)
  <1>1. IsFiniteSet(started[c])
    BY ForwardsAssumption, FS_Subset DEF TypeOK
  <1>2. Cardinality(started[c]) \in Nat
    BY <1>1, FS_CardinalityType
  <1> QED BY <1>2 DEF NoForward, ForwardsLeft

LEMMA StepTracked ==
    ASSUME HostInv, [Next]_vars, LiveDaemonTracked, Mortal = {}, ~May("timeout"),
           ~May("noPort") \/ NoForward
    PROVE  LiveDaemonTracked'
  <1>1. SUFFICES ASSUME NEW p \in Profiles, NEW d \in PidsForSocket(p)'
                 PROVE  \/ registry'[p] # None /\ registry'[p].daemon = d
                        \/ \E c \in Clients : /\ mine'[c] = d /\ spawnLock'[p] = c
                                              /\ pc'[c] \in Spawning
    BY DEF LiveDaemonTracked
  <1>2. /\ IInv /\ ServeInv /\ TypeOK /\ CommandOK
        /\ \A c \in Clients : pc'[c] \in Spawning => spawnLock'[prof'[c]] = c
    BY NextIInv DEF HostInv, IInv, SpawnLockOK
  <1>3. CASE d \notin PidsForSocket(p)
    <2>1. PICK b \in Clients : Spawn(b) /\ prof[b] = p /\ d = mine'[b]
      BY <1>1, <1>2, <1>3, WhoAppears
    <2>2. prof[b] = p /\ d = mine'[b]
      BY <2>1
    <2>3. pc'[b] \in Spawning /\ prof'[b] = prof[b]
      BY <1>2, <2>1 DEF Spawn, Goto, Spawning, TypeOK, cmdVars
    <2> QED BY <1>2, <2>2, <2>3
  <1>4. CASE registry[p] # None /\ registry[p].daemon = d /\ d \in PidsForSocket(p)
    <2>1. registry'[p] # None
      BY <1>1, <1>4, RowsGoStopped
    <2>2. ASSUME NEW b \in Clients, Register(b), prof[b] = p PROVE FALSE
      <3>1. pc[b] \in Spawning
        BY <2>2 DEF Register, Spawning
      <3> QED BY <1>2, <1>4, <2>2, <3>1
          DEF IInv, SpawnSparesTracked, LiveRow, IsAlive, PidsForSocket
    <2> QED BY <1>2, <1>4, <2>1, <2>2, RowDaemon
  <1>5. ASSUME NEW c \in Clients, mine[c] = d, spawnLock[p] = c, pc[c] \in Spawning,
               d \in PidsForSocket(p)
        PROVE  \/ registry'[p] # None /\ registry'[p].daemon = d
               \/ mine'[c] = d /\ spawnLock'[p] = c /\ pc'[c] \in Spawning
    <2>1. pc[c] \in Spawned
      BY <1>2, <1>5 DEF ServeInv, MineUnset, Spawned, Spawning, PidsForSocket
    <2>2. prof[c] = p
      BY <1>2, <1>5, <2>1 DEF ServeInv, MineServes, PidsForSocket
    <2>3. CASE Untouched(c)
      BY <1>2, <1>5, <2>2, <2>3 DEF Untouched
    <2>4. CASE CommandStep(c) /\ pc'[c] \in Spawning
      <3>1. prof'[c] = p /\ mine'[c] = d
        BY <1>2, <1>5, <2>1, <2>2, <2>4, SpawnPath DEF Onward, Spawned, Spawning
      <3> QED BY <1>2, <2>4, <3>1
    <2>5. CASE Register(c)
      BY <1>2, <1>5, <2>2, <2>5, StepRegisters
    <2>6. CASE BringUpFails(c) \/ SpawnFails(c)
      BY <1>1, <1>5, <2>1, <2>6, GiveUp
    <2>7. ForwardsNoPort(c) \/ TimeoutExpired(c) \/ Crash(c) => FALSE
      BY <1>2, <1>5, <2>2, NoneLeft DEF ForwardsNoPort, ForwardFails, TimeoutExpired, Crash,
         PidsForSocket
    <2>8. UNCHANGED <<lockVars, pc, cmdVars, ownVars>> => Untouched(c)
      BY DEF lockVars, cmdVars, ownVars, Untouched
    <2> QED BY <1>2, <2>1, <2>3, <2>4, <2>5, <2>6, <2>7, <2>8, SpawnLeaves, WhoSteps
  <1> QED BY <1>3, <1>4, <1>5 DEF LiveDaemonTracked

\* Where commands run to their end, and end in an answer of the code's own, every live
\* daemon is that of a row, or of the command that holds the spawn lock of its profile:
\* whatever dies, fails, or is reaped, reset or swept meanwhile.
THEOREM DaemonsTracked ==
    ASSUME Mortal = {}, ~May("timeout"), ~May("noPort") \/ NoForward
    PROVE  Spec => []LiveDaemonTracked
  <1>1. Init => LiveDaemonTracked
    BY DEF Init, LiveDaemonTracked, PidsForSocket
  <1>2. HostInv /\ LiveDaemonTracked /\ [Next]_vars => LiveDaemonTracked'
    BY StepTracked
  <1> QED BY <1>1, <1>2, HostInvariance, PTL DEF Spec
-----------------------------------------------------------------------------
(* Verbs: where the commands that may be issued can lead.                  *)

NoVerb(v) == \A c \in Clients : v \notin Commands[c]

\* The places only one verb leads to.
VerbOK ==
    \A c \in Clients :
        /\ verb[c] # None => verb[c] \in Commands[c]
        /\ pc[c] = "using" => verb[c] = "run"
        /\ pc[c] = "reset" => verb[c] = "reset"
        /\ pc[c] = "fixing" => verb[c] = "fix"
        /\ pc[c] \in {"sweep", "sweeping"} => verb[c] = "reap"

\* A command takes up a verb that its client has, keeps it, and is led on by it.
VerbStep(b) ==
    \/ verb'[b] = None /\ pc'[b] = "idle"
    \/ /\ verb'[b] \in Commands[b]
       /\ pc'[b] \in {"begin", "down"} \/ (pc'[b] = "reset" /\ verb'[b] = "reset")
    \/ /\ verb'[b] = verb[b]
       /\ \/ pc'[b] \notin {"using", "reset", "fixing", "sweep", "sweeping"}
          \/ pc'[b] = "using" /\ verb[b] = "run"
          \/ pc'[b] = "fixing" /\ verb[b] = "fix"
          \/ pc'[b] = "sweep" /\ verb[b] = "reap"
          \/ pc'[b] = "sweeping" /\ pc[b] \in {"sweep", "sweeping"}

LEMMA CommandVerb ==
    ASSUME TypeOK, NEW b \in Clients, CommandStep(b)
    PROVE  VerbStep(b)
  <1> USE DEF rest, lockVars, cmdVars, Goto, TypeOK, VerbStep
  <1>1. ASSUME NEW v \in Verbs, NEW p \in Profiles, StartUp(b, v, p) PROVE VerbStep(b)
    BY <1>1 DEF StartUp, Start
  <1>2. ASSUME NEW p \in Profiles, StartDown(b, p) \/ ScheduledReap(b, p) PROVE VerbStep(b)
    BY <1>2 DEF StartDown, ScheduledReap, Start
  <1>3. ASSUME NEW v \in Verbs, StartGlobal(b, v) PROVE VerbStep(b)
    BY <1>3 DEF StartGlobal, Start
  <1>4. CommandEnds(b) \/ Exit(b) \/ RunCommand(b) => VerbStep(b)
    BY DEF CommandEnds, Pass, Exit, RunCommand
  <1>5. FixShields(b) \/ CommitTxn(b) \/ TeardownAll(b) \/ Down(b) \/ AcquireSpawnLock(b)
          => VerbStep(b)
    BY DEF FixShields, CommitTxn, TeardownAll, Down, AcquireSpawnLock
  <1>6. SweepRead(b) => VerbStep(b)
    <2>1. SweepRead(b) => pc'[b] \in {"done", "sweeping"} /\ pc[b] = "sweep" /\ verb'[b] = verb[b]
      BY DEF SweepRead
    <2> QED BY <2>1
  <1>7. ASSUME NEW q \in Profiles, SweepOne(b, q) PROVE VerbStep(b)
    <2>1. pc'[b] \in {"done", "sweeping"} /\ pc[b] = "sweeping" /\ verb'[b] = verb[b]
      BY <1>7 DEF SweepOne
    <2> QED BY <2>1
  <1>8. ReapInplace(b) => VerbStep(b)
    <2>1. ReapInplace(b) => /\ verb'[b] = verb[b]
                            /\ \/ pc'[b] \in {"reuse", "commit"}
                               \/ pc'[b] = "fixing" /\ verb[b] = "fix"
      BY DEF ReapInplace
    <2> QED BY <2>1
  <1>9. ReuseAbsent(b) \/ ReusePending(b) \/ ReuseReady(b) \/ ReuseRefused(b)
        \/ ReuseShields(b) \/ ReuseExitFails(b) \/ ReuseExit(b) \/ ReuseForward(b)
        \/ ReuseNoPort(b)
        \/ Claim(b) \/ Register(b) \/ SpawnFails(b) \/ ForwardsNoPort(b) \/ TimeoutExpired(b)
          => VerbStep(b)
    BY DEF ReuseAbsent, ReusePending, ReuseReady, ReuseRefused, ReuseShields,
           ReuseExitFails, ReuseExit, ReuseForward, StartForward, ReuseNoPort, ForwardFails,
           Claim, Register, SpawnFails, ForwardsNoPort, TimeoutExpired, Pass
  <1>10. ClearSocket(b) \/ Spawn(b) \/ Boot(b) \/ LoginRunning(b) \/ LoginPending(b)
         \/ EnforceShields(b) \/ SetExitNode(b) \/ SpawnForward(b) \/ BringUpFails(b)
          => VerbStep(b)
    BY DEF ClearSocket, Spawn, Boot, LoginRunning, LoginPending, EnforceShields, SetExitNode,
           SpawnForward, StartForward, BringUpFails, Pass
  <1> QED BY <1>1, <1>2, <1>3, <1>4, <1>5, <1>6, <1>7, <1>8, <1>9, <1>10, Zenon
     DEF CommandStep, Advance, Acquire, User, Return, Crash

LEMMA VerbHolds == ASSUME TypeOK, VerbOK, [Next]_vars PROVE VerbOK'
  <1>1. SUFFICES ASSUME NEW c \in Clients
                 PROVE  /\ verb'[c] # None => verb'[c] \in Commands[c]
                        /\ pc'[c] = "using" => verb'[c] = "run"
                        /\ pc'[c] = "reset" => verb'[c] = "reset"
                        /\ pc'[c] = "fixing" => verb'[c] = "fix"
                        /\ pc'[c] \in {"sweep", "sweeping"} => verb'[c] = "reap"
    BY DEF VerbOK
  <1>2. CommandStep(c) \/ Untouched(c)
    <2>1. UNCHANGED <<lockVars, pc, cmdVars, ownVars>> => Untouched(c)
      BY DEF lockVars, cmdVars, ownVars, Untouched
    <2> QED BY <2>1, WhoSteps
  <1>3. CASE VerbStep(c)
    BY <1>3 DEF VerbStep, VerbOK
  <1>4. CASE Untouched(c)
    BY <1>4 DEF Untouched, VerbOK
  <1> QED BY <1>2, <1>3, <1>4, CommandVerb

LEMMA InitVerb == Init => VerbOK
  BY DEF Init, VerbOK
-----------------------------------------------------------------------------
(* Zombies: a daemon that dies under the `run` that has spawned it.        *)

LEMMA CommandDies ==
    ASSUME NEW b \in Clients, CommandStep(b)
    PROVE  zombies' \subseteq zombies \/ (pc[b] # "using" /\ \E ds : Die(ds))
  <1> USE DEF rest, hostVars, procVars
  <1>1. User(b) \/ Return(b) \/ RunCommand(b) => zombies' \subseteq zombies
    BY Zenon DEF User, StartUp, StartDown, ScheduledReap, StartGlobal, Start, CommandEnds, Pass,
       Crash, Return, Exit, RunCommand
  <1>2. ReapInplace(b) => pc[b] # "using" /\ \E ds : Die(ds)
    BY Zenon DEF ReapInplace
  <1>3. FixShields(b) \/ TeardownAll(b) \/ ReuseRefused(b) => pc[b] # "using" /\ \E ds : Die(ds)
    BY Zenon DEF FixShields, TeardownAll, ReuseRefused, Teardown
  <1>4. Down(b) => zombies' \subseteq zombies \/ (pc[b] # "using" /\ \E ds : Die(ds))
    BY Zenon DEF Down, Teardown
  <1>5. ClearSocket(b) \/ BringUpFails(b) => pc[b] # "using" /\ \E ds : Die(ds)
    BY Zenon DEF ClearSocket, BringUpFails
  <1>6. ASSUME NEW q \in Profiles, SweepOne(b, q) PROVE pc[b] # "using" /\ \E ds : Die(ds)
    BY <1>6, Zenon DEF SweepOne
  <1>7. CommitTxn(b) \/ SweepRead(b) \/ ReuseAbsent(b) \/ ReusePending(b) \/ ReuseReady(b)
        \/ ReuseShields(b) \/ ReuseExitFails(b) \/ ReuseExit(b) \/ ReuseForward(b) \/ ReuseNoPort(b)
        \/ Claim(b)
          => zombies' = zombies
    BY DEF CommitTxn, SweepRead, ReuseAbsent, ReusePending, ReuseReady, ReuseShields,
           ReuseExitFails, ReuseExit, ReuseForward, StartForward, ReuseNoPort, ForwardFails,
           Claim
  <1>8. Spawn(b) \/ SpawnFails(b) \/ Boot(b) \/ LoginRunning(b) \/ LoginPending(b)
        \/ EnforceShields(b) \/ SetExitNode(b) \/ SpawnForward(b) \/ ForwardsNoPort(b)
        \/ TimeoutExpired(b) \/ Register(b) \/ AcquireSpawnLock(b) => zombies' = zombies
    BY DEF Spawn, SpawnFails, Boot, LoginRunning, LoginPending, EnforceShields, SetExitNode,
           SpawnForward, StartForward, ForwardsNoPort, ForwardFails, TimeoutExpired,
           Register, AcquireSpawnLock, Pass
  <1> QED BY <1>1, <1>2, <1>3, <1>4, <1>5, <1>6, <1>7, <1>8, Zenon
     DEF CommandStep, Advance, Acquire

\* A daemon becomes a zombie only under a `run` that goes on.
LEMMA ZombiesArise ==
    ASSUME TypeOK, [Next]_vars, NEW z \in zombies', z \notin zombies
    PROVE  \E c \in Clients : /\ IsAlive(z) /\ pc[c] = "using" /\ pc'[c] = "using"
                              /\ mine[c] = z /\ mine'[c] = z
  <1>1. ASSUME NEW ds, Die(ds)
        PROVE  \E c \in Clients : IsAlive(z) /\ pc[c] = "using" /\ mine[c] = z
    BY <1>1 DEF Die
  <1>2. ASSUME NEW d \in Daemons, DaemonDies(d)
        PROVE  \E c \in Clients : IsAlive(z) /\ pc[c] = "using" /\ mine[c] = z
    BY <1>1, <1>2, Zenon DEF DaemonDies
  <1>3. Environment \/ UNCHANGED vars =>
          zombies' = zombies \/ \E d \in Daemons : DaemonDies(d)
    BY Zenon DEF Environment, LoginCompletes, LoginLost, ShieldsDrop, LingerElapses,
       EditProfile, OwnerDies, OwnerStarts, vars, rest, hostVars, procVars
  <1>4. ASSUME NEW b \in Clients, CommandStep(b), \A c \in Clients \ {b} : Untouched(c)
        PROVE  \E c \in Clients : /\ IsAlive(z) /\ pc[c] = "using" /\ pc'[c] = "using"
                                  /\ mine[c] = z /\ mine'[c] = z
    <2>1. pc[b] # "using" /\ \E ds : Die(ds)
      BY <1>4, CommandDies
    <2>2. PICK c \in Clients : IsAlive(z) /\ pc[c] = "using" /\ mine[c] = z
      BY <1>1, <2>1
    <2> QED BY <1>4, <2>1, <2>2 DEF Untouched
  <1>5. UNCHANGED <<lockVars, pc, cmdVars, ownVars>> => UNCHANGED <<pc, mine>>
    BY DEF ownVars
  <1> QED BY <1>2, <1>3, <1>4, <1>5, WhoSteps
-----------------------------------------------------------------------------
(* Where no daemon dies by itself, or under a `run`.                       *)

\* A profile whose daemon is being brought up has no row; and the rows that the
\* re-check under the spawn lock finds are those of daemons that run.
SpawnClear ==
    \A c \in Clients :
        /\ pc[c] \in Spawning => registry[prof[c]] = None
        /\ pc[c] = "reuse" /\ spawnLock[prof[c]] = c /\ work[prof[c]] # None
           => work[prof[c]].daemon \in PidsForSocket(prof[c])

\* A daemon that is being brought up has bound the profile's socket.
SockOK ==
    \A c \in Clients :
        pc[c] \in Spawned /\ mine[c] \in PidsForSocket(prof[c]) => sock[prof[c]] = mine[c]

\* The rows that a transaction works on, at the start of it.
LEMMA ReapSparesKept ==
    ASSUME HostInv, NEW b \in Clients, ReapInplace(b), NEW p \in Profiles, work'[p] # None
    PROVE  LeavesAlone(p) /\ work'[p].daemon = registry[p].daemon
  <1>1. IInv /\ ServeInv /\ TypeOK
    BY DEF HostInv, IInv
  <1>2. registry[p] # None /\ Keeps(p) /\ Kept(p)
    BY <1>1, ReapSpares, ReapKept
  <1>3. Disturbance(b, p)
    BY <1>1, ReapDisturbs DEF ServeInv
  <1>4. ~StopsRow(b, p) /\ ~ClearsSocket(b, p) /\ ~BringUpFails(b)
    BY <1>2 DEF StopsRow, ClearsSocket, LiveRow, Keeps, ReapInplace, FixShields, TeardownAll,
       Down, ReuseRefused, SweepOne, ClearSocket, BringUpFails
  <1> QED BY <1>2, <1>3, <1>4 DEF Disturbance, Kept
\* A spawn lock is taken by the command that waits for it.
LEMMA LocksTaken ==
    ASSUME TypeOK, [Next]_vars, NEW p \in Profiles, spawnLock'[p] # spawnLock[p]
    PROVE  spawnLock'[p] = None \/ \E b \in Clients : AcquireSpawnLock(b)
  <1> USE DEF rest, lockVars, TypeOK
  <1>1. ASSUME NEW b \in Clients, CommandStep(b), ~AcquireSpawnLock(b)
        PROVE  spawnLock'[p] \in {None, spawnLock[p]}
    <2>1. Exit(b) \/ RunCommand(b) => spawnLock'[p] \in {None, spawnLock[p]}
      BY DEF Exit, RunCommand
    <2>2. User(b) => Exit(b) \/ spawnLock' = spawnLock
      BY Zenon DEF User, StartUp, StartDown, ScheduledReap, StartGlobal, Start, CommandEnds,
         Pass, Crash
    <2>3. ReapInplace(b) \/ FixShields(b) \/ TeardownAll(b) \/ Down(b) \/ CommitTxn(b)
          \/ SweepRead(b) \/ (\E q \in Profiles : SweepOne(b, q)) \/ ReuseAbsent(b)
          \/ ReusePending(b) \/ ReuseReady(b) \/ ReuseRefused(b) \/ ReuseShields(b)
          \/ ReuseExitFails(b) \/ ReuseExit(b) \/ ReuseForward(b) \/ ReuseNoPort(b) \/ Claim(b)
            => spawnLock' = spawnLock
      BY DEF ReapInplace, FixShields, TeardownAll, Down, CommitTxn, SweepRead, SweepOne,
             ReuseAbsent, ReusePending, ReuseReady, ReuseRefused, ReuseShields, ReuseExitFails,
             ReuseExit, ReuseForward, StartForward, ReuseNoPort, ForwardFails, Claim
    <2>4. ClearSocket(b) \/ Spawn(b) \/ SpawnFails(b) \/ Boot(b) \/ LoginRunning(b)
          \/ LoginPending(b) \/ BringUpFails(b) \/ EnforceShields(b) \/ SetExitNode(b)
          \/ SpawnForward(b) \/ ForwardsNoPort(b) \/ TimeoutExpired(b) \/ Register(b)
            => spawnLock' = spawnLock
      BY DEF ClearSocket, Spawn, SpawnFails, Boot, LoginRunning, LoginPending, BringUpFails,
             EnforceShields, SetExitNode, SpawnForward, StartForward, ForwardsNoPort,
             ForwardFails, TimeoutExpired, Register, Pass
    <2> QED BY <1>1, <2>1, <2>2, <2>3, <2>4, Zenon DEF CommandStep, Advance, Acquire, Return
  <1> QED BY <1>1, WhoSteps

\* A command comes to look at its profile's row right after it has reaped.
LEMMA ReusePath ==
    ASSUME TypeOK, NEW b \in Clients, CommandStep(b), pc'[b] = "reuse"
    PROVE  ReapInplace(b)
  <1> USE DEF rest, Goto, TypeOK
  <1>1. User(b) \/ Return(b) \/ RunCommand(b) => FALSE
    BY DEF User, StartUp, StartDown, ScheduledReap, StartGlobal, Start, CommandEnds, Pass,
       Crash, Return, Exit, RunCommand
  <1>2. FixShields(b) \/ TeardownAll(b) \/ Down(b) \/ CommitTxn(b) \/ ReuseAbsent(b)
        \/ ReusePending(b) \/ ReuseReady(b) \/ ReuseRefused(b) \/ ReuseShields(b)
        \/ ReuseExitFails(b) \/ ReuseExit(b) \/ ReuseForward(b) \/ ReuseNoPort(b)
        \/ Claim(b) => FALSE
    BY DEF FixShields, TeardownAll, Down, CommitTxn, ReuseAbsent, ReusePending, ReuseReady,
           ReuseRefused, ReuseShields, ReuseExitFails, ReuseExit, ReuseForward,
           StartForward, ReuseNoPort, ForwardFails, Claim
  <1>3. ClearSocket(b) \/ Spawn(b) \/ SpawnFails(b) \/ Boot(b) \/ LoginRunning(b)
        \/ LoginPending(b) \/ BringUpFails(b) \/ EnforceShields(b) \/ SetExitNode(b)
        \/ SpawnForward(b) \/ ForwardsNoPort(b) \/ TimeoutExpired(b) \/ Register(b)
        \/ AcquireSpawnLock(b) => FALSE
    BY DEF ClearSocket, Spawn, SpawnFails, Boot, LoginRunning, LoginPending, BringUpFails,
           EnforceShields, SetExitNode, SpawnForward, StartForward, ForwardsNoPort,
           ForwardFails, TimeoutExpired, Register, AcquireSpawnLock, Pass
  <1>4. SweepRead(b) => pc'[b] \in {"done", "sweeping"}
    BY DEF SweepRead
  <1>5. ASSUME NEW q \in Profiles, SweepOne(b, q) PROVE pc'[b] \in {"done", "sweeping"}
    BY <1>5 DEF SweepOne
  <1> QED BY <1>1, <1>2, <1>3, <1>4, <1>5, Zenon DEF CommandStep, Advance, Acquire

\* The daemon of a row that an `up` looks at under its profile's spawn lock is the
\* command's alone to stop.
LEMMA ReuseSpared ==
    ASSUME HostInv, [Next]_vars, ~May("daemonDies"), NEW c \in Clients,
           pc[c] = "reuse", pc'[c] = "reuse", NEW p \in Profiles, p = prof[c], spawnLock[p] = c
    PROVE  LeavesAlone(p)
  <1>1. IInv /\ ServeInv /\ TypeOK /\ regLock = c
    BY DEF HostInv, IInv, RegLockOK, TxnPlaces
  <1>2. ASSUME NEW b \in Clients, pc[b] \in Spawning PROVE prof[b] # p
    BY <1>1, <1>2 DEF IInv, SpawnLockOK, Spawning
  <1>3. ASSUME NEW b \in Clients
        PROVE  ~StopsRow(b, p) /\ ~ClearsSocket(b, p) /\ ~(BringUpFails(b) /\ prof[b] = p)
    <2>1. ~ReapInplace(b) /\ ~TeardownAll(b) /\ ~Down(b)
      BY <1>1 DEF ReapInplace, TeardownAll, Down
    <2>2. ~FixShields(b)
      BY <1>1 DEF FixShields, IInv, RegLockOK, TxnPlaces
    <2>3. ~ReuseRefused(b)
      BY <1>1 DEF ReuseRefused, IInv, RegLockOK, TxnPlaces, Goto, TypeOK
    <2>4. BringUpFails(b) \/ ClearSocket(b) => pc[b] \in Spawning
      BY DEF BringUpFails, ClearSocket, Spawning
    <2> QED BY <1>2, <2>1, <2>2, <2>3, <2>4 DEF StopsRow, ClearsSocket
  <1>4. ASSUME NEW b \in Clients, Spawn(b) PROVE LeavesAlone(p)
    <2>1. prof[b] # p
      BY <1>2, <1>4 DEF Spawn, Spawning
    <2> QED BY <1>1, <1>4, <2>1, SpawnStarts
  <1>5. ASSUME NEW d \in Daemons, Dies(d) PROVE FALSE
    BY <1>5 DEF Dies, DaemonDies
  <1> QED BY <1>1, <1>3, <1>4, <1>5, WhoDisturbs DEF Disturbance

LEMMA SpawnClearHolds ==
    ASSUME HostInv, SpawnClear, zombies = {}, [Next]_vars, ~May("daemonDies")
    PROVE  SpawnClear'
  <1>1. IInv /\ ServeInv /\ TypeOK /\ IInv'
    BY NextIInv DEF HostInv, IInv
  <1>2. ASSUME NEW c \in Clients, pc'[c] \in Spawning PROVE registry'[prof'[c]] = None
    <2>1. prof'[c] \in Profiles
      BY <1>1, <1>2 DEF IInv, CommandOK, UpPlaces
    <2>2. CASE ReuseAbsent(c) /\ spawnLock[prof[c]] = c /\ prof'[c] = prof[c]
      <3>1. pc[c] = "reuse" /\ ~LiveRow(work, prof[c]) /\ registry' = work
        BY <2>2 DEF ReuseAbsent, Commit
      <3> QED BY <2>1, <2>2, <3>1, NoneAssumption DEF SpawnClear, LiveRow, IsAlive,
         PidsForSocket
    <2>3. CASE pc[c] \in Spawning /\ prof'[c] = prof[c]
      <3>1. registry[prof'[c]] = None
        BY <2>3 DEF SpawnClear
      <3>2. ASSUME NEW b \in Clients, Register(b), prof[b] = prof[c] PROVE FALSE
        <4>1. pc[b] \in Spawning /\ pc'[b] \in {"ready", "auth"}
          BY <1>1, <3>2 DEF Register, Spawning, Goto, TypeOK
        <4>2. b = c
          BY <1>1, <2>3, <3>2, <4>1, SpawnerAlone
        <4> QED BY <1>2, <4>1, <4>2 DEF Spawning
      <3> QED BY <1>1, <2>1, <2>3, <3>1, <3>2, RowDaemon
    <2> QED BY <1>1, <1>2, <2>2, <2>3, WhoSpawns DEF Onward, Untouched, Spawned, Spawning
  <1>3. ASSUME NEW c \in Clients, pc'[c] = "reuse", NEW p \in Profiles, p = prof'[c],
               spawnLock'[p] = c, work'[p] # None
        PROVE  work'[p].daemon \in PidsForSocket(p)'
    <2>1. CASE ReapInplace(c)
      <3>1. LeavesAlone(p) /\ work'[p].daemon = registry[p].daemon
        BY <1>3, <2>1, ReapSparesKept
      <3>2. registry[p] # None /\ Keeps(p)
        BY <1>1, <1>3, <2>1, ReapSpares
      <3>3. registry[p].daemon \in PidsForSocket(p)
        BY <1>1, <3>2 DEF Keeps, IsAlive, ServeInv, RowServes, PidsForSocket, TypeOK, Row
      <3> QED BY <3>1, <3>3 DEF LeavesAlone
    <2>2. CASE Untouched(c)
      <3>1. pc[c] = "reuse" /\ prof[c] = p /\ regLock = c
        BY <1>1, <1>3, <2>2 DEF Untouched, IInv, RegLockOK, TxnPlaces
      <3>2. spawnLock[p] = c
        <4>1. ASSUME NEW b \in Clients, AcquireSpawnLock(b) PROVE spawnLock'[p] \in {b, spawnLock[p]} /\ b # c
          BY <1>1, <3>1, <4>1 DEF AcquireSpawnLock, TypeOK
        <4> QED BY <1>1, <1>3, <4>1, LocksTaken, NoneAssumption
      <3>3. LeavesAlone(p)
        BY <1>3, <3>1, <3>2, ReuseSpared
      <3>4. work'[p] = work[p]
        <4>1. ASSUME NEW b \in Clients PROVE ~ReapInplace(b) /\ ~TeardownAll(b) /\ ~FixShields(b)
          BY <1>1, <3>1 DEF ReapInplace, TeardownAll, FixShields, IInv, RegLockOK, TxnPlaces
        <4>2. work' # NoRows
          BY <1>3 DEF NoRows
        <4> QED BY <1>1, <4>1, <4>2, WhoWorks
      <3> QED BY <1>3, <3>1, <3>2, <3>3, <3>4 DEF SpawnClear, LeavesAlone
    <2>3. UNCHANGED <<lockVars, pc, cmdVars, ownVars>> => Untouched(c)
      BY DEF lockVars, cmdVars, ownVars, Untouched
    <2> QED BY <1>1, <1>3, <2>1, <2>2, <2>3, ReusePath, WhoSteps
  <1>4. ASSUME NEW c \in Clients, pc'[c] = "reuse" PROVE prof'[c] \in Profiles
    BY <1>1, <1>4 DEF IInv, CommandOK, UpPlaces
  <1>5. ASSUME NEW c \in Clients, pc'[c] = "reuse", spawnLock'[prof'[c]] = c,
               work'[prof'[c]] # None
        PROVE  \E p \in Profiles : p = prof'[c] /\ work'[p].daemon \in PidsForSocket(p)'
    BY <1>3, <1>4, <1>5
  <1>6. ASSUME NEW c \in Clients, pc'[c] = "reuse", spawnLock'[prof'[c]] = c,
               work'[prof'[c]] # None
        PROVE  (work[prof[c]].daemon \in PidsForSocket(prof[c]))'
    BY <1>5, <1>6 DEF PidsForSocket
  <1> QED BY <1>2, <1>6 DEF SpawnClear
-----------------------------------------------------------------------------
(* The sockets.                                                            *)

\* The socket of a daemon that is being brought up goes only with that daemon, unless a
\* command tears the profile's row down.
LEMMA SockHolds ==
    ASSUME HostInv, SockOK, [Next]_vars,
           \A c \in Clients, b \in Clients :
              pc[c] \in Spawned /\ registry[prof[c]] # None => ~StopsRow(b, prof[c])
    PROVE  SockOK'
  <1>1. IInv /\ ServeInv /\ TypeOK /\ IInv'
    BY NextIInv DEF HostInv, IInv
  <1>2. ASSUME NEW c \in Clients, NEW p \in Profiles, pc[c] \in Spawned, prof[c] = p,
               mine[c] \in PidsForSocket(p)'
        PROVE  sock'[p] = mine[c]
    <2>1. mine[c] \in PidsForSocket(p)
      BY <1>1, <1>2, WhoAppears DEF FreshDaemon
    <2>2. sock[p] = mine[c] /\ pc[c] \in Spawning
      BY <1>2, <2>1 DEF SockOK, Spawned
    <2>3. ASSUME NEW b \in Clients, Disturbance(b, p) PROVE sock'[p] = sock[p]
      <3>1. CASE BringUpFails(b) /\ prof[b] = p /\ PidsForSocket(p)' = PidsForSocket(p) \ {mine[b]}
        <4>1. pc[b] \in Spawning
          BY <3>1 DEF BringUpFails, Spawning
        <4> QED BY <1>1, <1>2, <2>2, <3>1, <4>1, SpawnerAlone
      <3> QED BY <1>2, <2>3, <3>1 DEF Disturbance, LeavesAlone
    <2>4. ASSUME NEW b \in Clients, Spawn(b) PROVE sock'[p] = sock[p]
      <3>1. prof[b] # p
        BY <1>1, <1>2, <2>2, <2>4, SpawnerAlone DEF Spawn, Spawning, Spawned
      <3> QED BY <1>1, <2>4, <3>1, SpawnStarts DEF LeavesAlone
    <2> QED BY <1>1, <2>2, <2>3, <2>4, WhoDisturbs DEF LeavesAlone, Dies
  <1>3. SUFFICES ASSUME NEW c \in Clients, NEW p \in Profiles, pc'[c] \in Spawned, p = prof'[c],
                        mine'[c] \in PidsForSocket(p)'
                 PROVE  sock'[p] = mine'[c]
    <2>1. ASSUME NEW c \in Clients, pc'[c] \in Spawned PROVE prof'[c] \in Profiles
      BY <1>1, <2>1 DEF IInv, CommandOK, UpPlaces, Spawned
    <2>2. ASSUME \A c \in Clients, p \in Profiles :
                    pc'[c] \in Spawned /\ p = prof'[c] /\ mine'[c] \in PidsForSocket(p)'
                    => sock'[p] = mine'[c]
          PROVE  SockOK'
      BY <2>1, <2>2 DEF SockOK, PidsForSocket
    <2> QED BY <2>2
  <1>4. CASE Spawn(c) /\ prof'[c] = prof[c]
    BY <1>1, <1>3, <1>4, SpawnStarts DEF TypeOK
  <1>5. CASE pc[c] \in Spawned /\ mine'[c] = mine[c] /\ prof'[c] = prof[c]
    BY <1>2, <1>3, <1>5
  <1>6. pc'[c] \in Spawning /\ pc'[c] \notin {"clear", "spawn"}
    BY <1>3 DEF Spawned, Spawning
  <1>7. Onward(c) => \/ Spawn(c) /\ prof'[c] = prof[c]
                     \/ pc[c] \in Spawned /\ mine'[c] = mine[c] /\ prof'[c] = prof[c]
    BY <1>6, Zenon DEF Onward
  <1>8. pc[c] \in Spawning /\ Untouched(c)
           => pc[c] \in Spawned /\ mine'[c] = mine[c] /\ prof'[c] = prof[c]
    BY <1>6 DEF Untouched, Spawned
  <1> QED BY <1>1, <1>4, <1>5, <1>6, <1>7, <1>8, WhoSpawns

\* So does that of the daemon of a row: what removes a socket file stops the daemon
\* that is registered, or is on the way to spawn one for a profile that has none.
LEMMA ReachableHolds ==
    ASSUME HostInv, SockOK, TrackedIsReachable, [Next]_vars
    PROVE  TrackedIsReachable'
  <1>1. IInv /\ ServeInv /\ TypeOK /\ DaemonsDecline
    BY NextIInv, Declines DEF HostInv, IInv
  <1>2. SUFFICES ASSUME NEW p \in Profiles, registry'[p] # None,
                        registry'[p].daemon \in PidsForSocket(p)'
                 PROVE  sock'[p] = registry'[p].daemon
    BY DEF TrackedIsReachable
  <1>3. CASE registry[p] # None /\ registry'[p].daemon = registry[p].daemon
    <2>1. registry[p].daemon \in PidsForSocket(p)
      BY <1>1, <1>2, <1>3 DEF DaemonsDecline, Broken, Rows
    <2>2. sock[p] = registry[p].daemon
      BY <1>3, <2>1 DEF TrackedIsReachable
    <2>3. ASSUME NEW b \in Clients, pc[b] \in Spawning PROVE prof[b] # p
      BY <1>1, <1>3, <2>1, <2>3 DEF IInv, SpawnSparesTracked, LiveRow, IsAlive, PidsForSocket
    <2>4. ASSUME NEW b \in Clients, Disturbance(b, p) PROVE sock'[p] = sock[p]
      <3>1. BringUpFails(b) => pc[b] \in Spawning
        BY DEF BringUpFails, Spawning
      <3> QED BY <1>2, <1>3, <2>3, <2>4, <3>1 DEF Disturbance, LeavesAlone
    <2>5. ASSUME NEW b \in Clients, Spawn(b) PROVE sock'[p] = sock[p]
      <3>1. prof[b] # p
        BY <2>3, <2>5 DEF Spawn, Spawning
      <3> QED BY <1>1, <2>5, <3>1, SpawnStarts DEF LeavesAlone
    <2> QED BY <1>1, <1>3, <2>2, <2>4, <2>5, WhoDisturbs DEF LeavesAlone, Dies
  <1>4. ASSUME NEW b \in Clients, Register(b), prof[b] = p, registry'[p].daemon = mine[b]
        PROVE  sock'[p] = registry'[p].daemon
    <2>1. UNCHANGED <<daemon, zombies, sock>> /\ pc[b] \in Spawned
      BY <1>4 DEF Register, hostVars, procVars, Spawned, Spawning
    <2> QED BY <1>2, <1>4, <2>1 DEF SockOK, PidsForSocket
  <1> QED BY <1>1, <1>2, <1>3, <1>4, RowDaemon
-----------------------------------------------------------------------------
(* The theorems for a host on which daemons do not die by themselves.      *)

RunFree == HostInv /\ VerbOK /\ zombies = {} /\ SpawnClear /\ SockOK

\* No `run` of any client may be under way, and no daemon dies by itself.
Undying == ~May("daemonDies") /\ NoVerb("run")

LEMMA NextRunFree == ASSUME Undying, RunFree, [Next]_vars PROVE RunFree'
  <1>1. HostInv /\ TypeOK /\ HostInv' /\ VerbOK /\ VerbOK'
    BY NextServe, VerbHolds DEF RunFree, HostInv, IInv
  <1>2. \A c \in Clients : pc[c] # "using"
    BY <1>1 DEF VerbOK, Undying, NoVerb, Verbs
  <1>3. zombies' = {}
    BY <1>1, <1>2, ZombiesArise DEF RunFree
  <1>4. SpawnClear'
    BY SpawnClearHolds DEF RunFree, Undying
  <1>5. \A c \in Clients : pc[c] \in Spawned => registry[prof[c]] = None
    BY DEF RunFree, SpawnClear, Spawned
  <1>6. SockOK'
    BY <1>5, SockHolds DEF RunFree
  <1> QED BY <1>1, <1>3, <1>4, <1>6 DEF RunFree

LEMMA RunFreeInvariance == ASSUME Undying PROVE Spec => []RunFree
  <1>1. Init => RunFree
    BY InitServe, InitVerb DEF RunFree, Init, SpawnClear, SockOK, Spawned, Spawning
  <1>2. RunFree /\ [Next]_vars => RunFree'
    BY NextRunFree
  <1> QED BY <1>1, <1>2, PTL DEF Spec

LEMMA StepUndisturbed ==
    ASSUME RunFree, [Next]_vars, NEW c \in Clients, pc[c] \in Spawning,
           mine[c] \in PidsForSocket(prof[c]), OthersStep(c)
    PROVE  mine[c] \in PidsForSocket(prof[c])' /\ sock'[prof[c]] = mine[c]
  <1>1. PICK p \in Profiles : p = prof[c]
    BY DEF RunFree, HostInv, IInv, CommandOK, UpPlaces
  <1>2. prof'[c] = p /\ LeavesAlone(p)
    BY <1>1, OthersSpare DEF RunFree, SpawnClear
  <1>3. pc[c] \in Spawned
    BY DEF RunFree, HostInv, ServeInv, MineUnset, Spawned, Spawning, PidsForSocket, IInv, TypeOK
  <1>4. mine[c] \in PidsForSocket(p) /\ sock[p] = mine[c]
    BY <1>1, <1>3 DEF RunFree, SockOK
  <1>5. mine[c] \in PidsForSocket(p)' /\ sock'[p] = mine[c]
    BY <1>2, <1>4 DEF LeavesAlone
  <1> QED BY <1>1, <1>2, <1>5 DEF PidsForSocket

\* Where no daemon dies by itself or under a `run`, nobody but the command that brings
\* it up stops a daemon or removes its socket, whatever is reaped, reset, swept, torn
\* down or killed meanwhile.
THEOREM SpawnsUndisturbed ==
    ASSUME ~May("daemonDies"), NoVerb("run")
    PROVE  Spec => SpawnUndisturbed
  <1>1. RunFree /\ [Next]_vars =>
          [\A c \in Clients :
             (pc[c] \in Spawning /\ mine[c] \in PidsForSocket(prof[c]) /\ OthersStep(c))
             => mine[c] \in PidsForSocket(prof[c])' /\ sock'[prof[c]] = mine[c]]_vars
    BY StepUndisturbed
  <1>2. Spec => []RunFree
    BY RunFreeInvariance DEF Undying
  <1> QED BY <1>1, <1>2, PTL DEF Spec, SpawnUndisturbed

\* Without `run`, and without deaths, the daemon of a row answers at its socket.
THEOREM Reachable ==
    ASSUME ~May("daemonDies"), NoVerb("run")
    PROVE  Spec => []TrackedIsReachable
  <1>1. Init => TrackedIsReachable
    BY DEF Init, TrackedIsReachable, NoRows
  <1>2. RunFree /\ TrackedIsReachable /\ [Next]_vars => TrackedIsReachable'
    BY ReachableHolds DEF RunFree
  <1>3. Spec => []RunFree
    BY RunFreeInvariance DEF Undying
  <1> QED BY <1>1, <1>2, <1>3, PTL DEF Spec
-----------------------------------------------------------------------------
(* And for one on which they do, with a linger window.                     *)

Windowed == HostInv /\ VerbOK /\ SockOK /\ TrackedIsReachable

LEMMA NextWindowed ==
    ASSUME Linger, NoVerb("reset"), Windowed, [Next]_vars
    PROVE  Windowed'
  <1>1. HostInv /\ IInv /\ ServeInv /\ TypeOK /\ VerbOK /\ HostInv' /\ VerbOK'
    BY NextServe, VerbHolds DEF Windowed, HostInv, IInv
  <1>2. ASSUME NEW c \in Clients, NEW b \in Clients, pc[c] \in Spawned, StopsRow(b, prof[c])
        PROVE  FALSE
    <2>1. ~LiveRow(registry, prof[c]) /\ work[prof[c]] = None
      BY <1>1, <1>2 DEF IInv, SpawnSparesTracked, ServeInv, SpawnNotWorked, Spawned
    <2>2. ~TeardownAll(b)
      BY <1>1 DEF TeardownAll, VerbOK, NoVerb, Verbs
    <2>3. ReuseRefused(b) => work[prof[b]] # None
      BY DEF ReuseRefused
    <2> QED BY <1>2, <2>1, <2>2, <2>3 DEF StopsRow
  <1>3. SockOK'
    BY <1>1, <1>2, SockHolds DEF Windowed
  <1> QED BY <1>1, <1>3, ReachableHolds DEF Windowed

\* With a linger window and without reset, the daemon of a row answers at its socket
\* whatever dies, crashes or times out.  (Without the window, down tears down the row
\* of a dead daemon while another command may be binding the socket anew.)
THEOREM ReachableWithLinger ==
    ASSUME Linger, NoVerb("reset")
    PROVE  Spec => []TrackedIsReachable
  <1>1. Init => Windowed
    BY InitServe, InitVerb DEF Windowed, Init, SockOK, Spawned, Spawning,
       TrackedIsReachable, NoRows
  <1>2. Windowed /\ [Next]_vars => Windowed'
    BY NextWindowed
  <1>3. Windowed => TrackedIsReachable
    BY DEF Windowed
  <1> QED BY <1>1, <1>2, <1>3, PTL DEF Spec
=============================================================================
