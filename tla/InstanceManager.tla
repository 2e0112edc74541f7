--------------------------- MODULE InstanceManager ---------------------------
(***************************************************************************)
(* The lifecycle of the per-profile tailscaled daemons of tailctl:         *)
(* instance_manager.py driven by the verbs of cli.py, over the registry    *)
(* of registry.py and the process table of liveness.py.                    *)
(*                                                                         *)
(* A client is one place a tailctl command can be started from; at most    *)
(* one command of it runs at a time, each a process of its own.  Commands  *)
(* share the registry (one exclusive flock, lock-free reads), one spawn    *)
(* flock per profile, the processes of the host and the preferences that   *)
(* the daemons keep in their state directories.                            *)
(*                                                                         *)
(* Identities of daemons, relays and owner processes stand for the         *)
(* (pid, create_time) pairs of the code: one that is dead may be given     *)
(* out again only when no row and no running command still names it.       *)
(***************************************************************************)
EXTENDS Naturals, FiniteSets

CONSTANTS
    Profiles,       \* profile names of profiles.yaml
    Clients,        \* places commands are started from
    SelfOwned,      \* clients whose claims belong to the command's own process
    Owners,         \* pids that own claims: sessions, and commands under `run`
    OwnerOf,        \* the owner pid of each client's claims
    CreateTimes,    \* create times of owner processes
    Daemons,        \* tailscaled processes
    Forwarders,     \* forwarder processes
    Nodes,          \* exit nodes a profile may name
    Commands,       \* the verbs each client may issue
    Keyed,          \* profiles with a non-interactive auth key
    PortForwards,   \* how many port forwards each profile declares
    Linger,         \* linger_seconds > 0
    Mortal,         \* clients whose commands may be killed half way
    Events,         \* what the environment may do
    None

Verbs == {"up", "run", "down", "reap", "shields", "fix", "reset"}

Row == [daemon    : Daemons,
        holders   : SUBSET (Owners \X CreateTimes),
        finalized : BOOLEAN,
        released  : BOOLEAN,           \* released_at is set
        fwds      : SUBSET Forwarders]

ASSUME ConstantsAssumption ==
    /\ SelfOwned \subseteq Clients
    /\ OwnerOf \in [Clients -> Owners]
    /\ Commands \in [Clients -> SUBSET Verbs]
    /\ Linger \in BOOLEAN

ASSUME ForwardsAssumption ==
    /\ PortForwards \in [Profiles -> Nat]
    /\ IsFiniteSet(Forwarders)

ASSUME NoneAssumption ==
    /\ None \notin Profiles /\ None \notin Clients /\ None \notin Daemons
    /\ None \notin CreateTimes /\ None \notin Nodes /\ None \notin Verbs
    /\ None \notin Row

VARIABLES
    registry,    \* instances.json: the committed row of each profile
    regLock,     \* the command inside transaction(), or None
    work,        \* the Registry object that command is changing
    spawnLock,   \* holder of each profile's spawn.lock
    pc, verb, prof, ct,  \* each client's command: place, verb, profile, claim
    mine,        \* the daemon a command has spawned (or just given up on)
    started,     \* forwarders started and not yet in a row
    todo,        \* untracked profiles a sweep still has to visit
    daemon,      \* the profile each daemon in the process table serves
    zombies,     \* daemons that died under a `run` that has not reaped them
    running,     \* daemons whose BackendState is Running
    relay,       \* the profile each live forwarder serves
    sock,        \* the daemon that bound each profile's socket file, if it exists
    shields, pref,   \* preferences in the state directory: shields, exit node
    cfgExit,     \* exit_node of the profile in profiles.yaml
    born,        \* create time of the process that has each owner pid, if any
    expired,     \* profiles whose released_at is older than the linger window
    timers       \* profiles with a detached `sleep; tailctl reap` pending

regVars  == <<registry, regLock, work>>
lockVars == <<regVars, spawnLock>>
cmdVars  == <<verb, prof, ct>>
ownVars  == <<mine, started, todo>>
procVars == <<daemon, zombies, running>>
hostVars == <<procVars, relay, sock>>
prefVars == <<shields, pref>>
timeVars == <<expired, timers>>
envVars  == <<cfgExit, born, timeVars>>
rest     == <<lockVars, cmdVars, ownVars, hostVars, prefVars, envVars>>
vars     == <<pc, rest>>

NoRows == [p \in Profiles |-> None]

\* Places of a command that is past the re-check and brings a daemon up.
Spawning == {"clear", "spawn", "boot", "login", "shields", "exit", "register",
             "pending"}
\* Results `up` and the other verbs end with.
Failures == {"refused", "exitFailed", "failed", "timedOut"}
Outcomes == Failures \cup {"ready", "auth", "done"}
Places   == Spawning \cup Outcomes \cup
            {"idle", "begin", "reuse", "finish", "claim", "await", "using",
             "down", "reset", "fixing", "commit", "sweep", "sweeping"}

Processes == {OwnerOf[c] : c \in SelfOwned}
-----------------------------------------------------------------------------
(* What the host answers.                                                  *)

\* _alive: the two-factor check finds the process; a zombie still counts.
IsAlive(d) == daemon[d] # None

LiveRow(rows, p) == rows[p] # None /\ IsAlive(rows[p].daemon)

\* pids_for_socket: by command line, which a zombie no longer has.
PidsForSocket(p) == {d \in Daemons : daemon[d] = p /\ d \notin zombies}

\* The CLI reaches the daemon through the profile's socket file.
Responds(p, d) == d \in PidsForSocket(p) /\ sock[p] = d
IsRunning(p, d) == Responds(p, d) /\ d \in running

May(e) == e \in Events
CliFails(p, d) == May("cliError") \/ ~Responds(p, d)

HolderAlive(h) == born[h[1]] = h[2]

\* Mutant: dead owners' claims are never dropped.
LiveHoldersKeepAll(row) == row.holders

LiveHolders(row) == {h \in row.holders : HolderAlive(h)}

Lingering(p) == registry[p] # None /\ registry[p].released /\ p \notin expired

\* Identities nobody refers to any more.
FreshDaemon(d) ==
    /\ daemon[d] = None
    /\ \A p \in Profiles : /\ registry[p] # None => registry[p].daemon # d
                           /\ work[p] # None => work[p].daemon # d
                           /\ sock[p] # d
    /\ \A c \in Clients : mine[c] # d

FreshForwarder(f) ==
    /\ relay[f] = None
    /\ \A p \in Profiles : /\ registry[p] # None => f \notin registry[p].fwds
                           /\ work[p] # None => f \notin work[p].fwds
    /\ \A c \in Clients : f \notin started[c]

FreshCreateTime(o, t) ==
    /\ \A p \in Profiles : /\ registry[p] # None => <<o, t>> \notin registry[p].holders
                           /\ work[p] # None => <<o, t>> \notin work[p].holders
    /\ \A c \in Clients : ~(OwnerOf[c] = o /\ ct[c] = t)
-----------------------------------------------------------------------------
(* Building blocks of the handlers.                                        *)

Goto(c, place) == pc' = [pc EXCEPT ![c] = place]
Pass(c, from, to) == pc[c] = from /\ Goto(c, to) /\ UNCHANGED rest

\* transaction(): clean exit writes the registry, an exception does not.
Commit(rows) == registry' = rows /\ regLock' = None /\ work' = NoRows

Abort == UNCHANGED registry /\ regLock' = None /\ work' = NoRows

\* Mutants: a claim without its create time, one that replaces the others, and
\* one that leaves released_at set.
AddHolderPidOnly(row, h) == [row EXCEPT !.holders = @ \cup {h[1]}, !.released = FALSE]
AddHolderReplaces(row, h) == [row EXCEPT !.holders = {h}, !.released = FALSE]
AddHolderKeepsReleased(row, h) == [row EXCEPT !.holders = @ \cup {h}]

\* _add_holder: one claim per owner pid, refreshed; cancels the linger.
AddHolder(row, h) ==
    [row EXCEPT !.holders = {g \in @ : g[1] # h[1]} \cup {h}, !.released = FALSE]

\* Mutant: the create time of the pid is read when the claim is made.
ClaimantNow(c) == <<OwnerOf[c], born[OwnerOf[c]]>>

Claimant(c) == <<OwnerOf[c], ct[c]>>

\* Processes that die.  A daemon spawned by a `run` that is now waiting for
\* the user's command stays in the process table until that `run` ends.
Die(ds) ==
    LET unreaped == {d \in ds : /\ IsAlive(d)
                                /\ \E c \in Clients : pc[c] = "using" /\ mine[c] = d}
    IN  /\ daemon' = [d \in Daemons |->
                        IF d \in ds \ unreaped THEN None ELSE daemon[d]]
        /\ zombies' = zombies \cup unreaped
        /\ running' = running \ ds

KillRelays(fs) ==
    relay' = [f \in Forwarders |-> IF f \in fs THEN None ELSE relay[f]]

Unlink(ps) == sock' = [p \in Profiles |-> IF p \in ps THEN None ELSE sock[p]]

\* Mutants: a teardown that leaves the daemon, or the relays, running.
TeardownLeavesDaemon(rows, ps) ==
    KillRelays(UNION {rows[p].fwds : p \in ps}) /\ Unlink(ps) /\ UNCHANGED procVars
TeardownLeavesRelays(rows, ps) ==
    Die({rows[p].daemon : p \in ps}) /\ Unlink(ps) /\ UNCHANGED relay

\* _teardown_instance of the rows of the profiles ps.
Teardown(rows, ps) ==
    /\ Die({rows[p].daemon : p \in ps})
    /\ KillRelays(UNION {rows[p].fwds : p \in ps})
    /\ Unlink(ps)

\* One round of the loop of _start_forwards: a relay for the next forward.
ForwardsLeft(c) == Cardinality(started[c]) < PortForwards[prof[c]]

StartForward(c) ==
    /\ ForwardsLeft(c)
    /\ \E f \in Forwarders :
         /\ FreshForwarder(f)
         /\ relay' = [relay EXCEPT ![f] = prof[c]]
         /\ started' = [started EXCEPT ![c] = @ \cup {f}]
    /\ UNCHANGED <<lockVars, pc, cmdVars, mine, todo, procVars, sock, prefVars, envVars>>

\* The next forward cannot be started (_free_port: the listen_host alias is gone).
\* The relays of the earlier rounds run on, and their list is lost.
ForwardFails(c) ==
    /\ May("noPort") /\ ForwardsLeft(c)
    /\ started' = [started EXCEPT ![c] = {}]
    /\ Goto(c, "failed")

ApplyExitNode(p) ==
    pref' = IF cfgExit[p] = None THEN pref ELSE [pref EXCEPT ![p] = cfgExit[p]]
-----------------------------------------------------------------------------
(* Starting and ending a command.                                          *)

Start(c, v, p) ==
    /\ pc[c] = "idle" /\ v \in Commands[c]
    /\ verb' = [verb EXCEPT ![c] = v]
    /\ prof' = [prof EXCEPT ![c] = p]
    /\ UNCHANGED <<lockVars, ownVars, hostVars, prefVars, cfgExit, expired>>

\* tailctl up | run <profile>; the claim carries the owner's create time.
StartUp(c, v, p) ==
    /\ v \in {"up", "run"}
    /\ Start(c, v, p)
    /\ Goto(c, "begin")
    /\ IF c \in SelfOwned
       THEN \E t \in CreateTimes :
               /\ FreshCreateTime(OwnerOf[c], t)
               /\ born' = [born EXCEPT ![OwnerOf[c]] = t]
               /\ ct' = [ct EXCEPT ![c] = t]
       ELSE /\ born[OwnerOf[c]] # None
            /\ ct' = [ct EXCEPT ![c] = born[OwnerOf[c]]]
            /\ UNCHANGED born
    /\ UNCHANGED timers

\* tailctl down <profile>, from the owner's session.
StartDown(c, p) ==
    /\ c \notin SelfOwned /\ born[OwnerOf[c]] # None
    /\ Start(c, "down", p)
    /\ Goto(c, "down")
    /\ UNCHANGED <<ct, born, timers>>

\* tailctl reap (ps reaps the same way), shields [--fix], reset --force.
StartGlobal(c, v) ==
    /\ v \in {"reap", "shields", "fix", "reset"}
    /\ Start(c, v, None)
    /\ Goto(c, IF v = "reset" THEN "reset" ELSE "begin")
    /\ UNCHANGED <<ct, born, timers>>

\* Mutant: the scheduled reap does not outlast the linger window.
ScheduledReapEarly(c, p) ==
    /\ p \in timers
    /\ Start(c, "reap", None)
    /\ Goto(c, "begin")
    /\ timers' = timers \ {p}
    /\ UNCHANGED <<ct, born>>

\* The detached process that down left behind wakes up after the window.
ScheduledReap(c, p) ==
    /\ p \in timers /\ ~Lingering(p)
    /\ Start(c, "reap", None)
    /\ Goto(c, "begin")
    /\ timers' = timers \ {p}
    /\ UNCHANGED <<ct, born>>

\* The child of a `run` that died while the user's command was executing.
Reaped(c) == {d \in zombies : d = mine[c] /\ pc[c] \in {"using", "down", "done"}}

\* The process of the command ends: its flocks and its children are released.
Exit(c) ==
    /\ Goto(c, "idle")
    /\ verb' = [verb EXCEPT ![c] = None]
    /\ prof' = [prof EXCEPT ![c] = None]
    /\ ct' = [ct EXCEPT ![c] = None]
    /\ mine' = [mine EXCEPT ![c] = None]
    /\ started' = [started EXCEPT ![c] = {}]
    /\ todo' = [todo EXCEPT ![c] = {}]
    /\ regLock' = IF regLock = c THEN None ELSE regLock
    /\ work' = IF regLock = c THEN NoRows ELSE work
    /\ spawnLock' = [p \in Profiles |->
                        IF spawnLock[p] = c THEN None ELSE spawnLock[p]]
    /\ born' = IF c \in SelfOwned THEN [born EXCEPT ![OwnerOf[c]] = None] ELSE born
    /\ daemon' = [d \in Daemons |->
                    IF d \in Reaped(c) THEN None ELSE daemon[d]]
    /\ zombies' = zombies \ Reaped(c)
    /\ UNCHANGED <<registry, running, relay, sock, prefVars, cfgExit, timeVars>>

Return(c) ==
    /\ pc[c] \in Outcomes
    /\ ~(pc[c] = "ready" /\ verb[c] = "run")
    /\ Exit(c)

\* `run`: up has returned, the user's command starts; then down in `finally`.
RunCommand(c) ==
    /\ pc[c] = "ready" /\ verb[c] = "run"
    /\ Goto(c, "using")
    /\ spawnLock' = [p \in Profiles |->
                        IF spawnLock[p] = c THEN None ELSE spawnLock[p]]
    /\ UNCHANGED <<regVars, cmdVars, ownVars, hostVars, prefVars, envVars>>

CommandEnds(c) == Pass(c, "using", "down")

\* SIGKILL, or Ctrl-C outside the user's command.
Crash(c) ==
    /\ c \in Mortal /\ pc[c] # "idle"
    /\ Exit(c)
-----------------------------------------------------------------------------
(* Transactions that reap first: up, reap, shields.                        *)

\* What _reap_inplace keeps: a live daemon that is held or lingering.
Keeps(p) ==
    /\ IsAlive(registry[p].daemon)
    /\ LiveHolders(registry[p]) # {} \/ Lingering(p)

ReapInplace(c) ==
    /\ pc[c] = "begin" /\ regLock = None
    /\ regLock' = c
    /\ LET dropped == {p \in Profiles : registry[p] # None /\ ~Keeps(p)}
           stale   == {p \in dropped : ~IsAlive(registry[p].daemon)}
           bound   == {p \in stale : PidsForSocket(p) # {}}
       IN  /\ work' = [p \in Profiles |->
                         IF registry[p] = None \/ p \in dropped THEN None
                         ELSE [registry[p] EXCEPT !.holders = LiveHolders(registry[p])]]
           /\ Die({registry[p].daemon : p \in dropped \ stale}
                    \cup UNION {PidsForSocket(p) : p \in stale})
           /\ KillRelays(UNION {registry[p].fwds : p \in dropped})
           /\ Unlink((dropped \ stale) \cup bound)
    /\ Goto(c, IF verb[c] \in {"up", "run"} THEN "reuse"
               ELSE IF verb[c] = "fix" THEN "fixing" ELSE "commit")
    /\ UNCHANGED <<registry, spawnLock, cmdVars, ownVars, prefVars, envVars>>

\* _shields_report with --fix: raise what is down, stop what cannot be confirmed.
FixShields(c) ==
    /\ pc[c] = "fixing"
    /\ LET tracked == {p \in Profiles : work[p] # None}
       IN  \E refused \in SUBSET tracked :
            /\ \A p \in refused : CliFails(p, work[p].daemon)
            /\ \A p \in tracked \ refused : Responds(p, work[p].daemon)
            /\ shields' = shields \cup (tracked \ refused)
            /\ Teardown(work, refused)
            /\ work' = [p \in Profiles |-> IF p \in refused THEN None ELSE work[p]]
    /\ Goto(c, "commit")
    /\ UNCHANGED <<registry, regLock, spawnLock, cmdVars, ownVars, pref, envVars>>

\* teardown_all: every row, whoever holds it.
TeardownAll(c) ==
    /\ pc[c] = "reset" /\ regLock = None
    /\ regLock' = c /\ work' = NoRows
    /\ Teardown(registry, {p \in Profiles : registry[p] # None})
    /\ Goto(c, "commit")
    /\ UNCHANGED <<registry, spawnLock, cmdVars, ownVars, prefVars, envVars>>

\* Mutant: reap without the sweep.
CommitTxnNoSweep(c) ==
    /\ pc[c] = "commit"
    /\ Commit(work)
    /\ Goto(c, "done")
    /\ UNCHANGED <<spawnLock, cmdVars, ownVars, hostVars, prefVars, envVars>>

CommitTxn(c) ==
    /\ pc[c] = "commit"
    /\ Commit(work)
    /\ Goto(c, IF verb[c] = "reap" THEN "sweep" ELSE "done")
    /\ UNCHANGED <<spawnLock, cmdVars, ownVars, hostVars, prefVars, envVars>>
-----------------------------------------------------------------------------
(* _sweep_untracked_orphans: the tail of reap.                             *)

\* Mutant: every profile is swept.
SweepReadAll(c) ==
    /\ pc[c] = "sweep"
    /\ todo' = [todo EXCEPT ![c] = Profiles]
    /\ Goto(c, "sweeping")
    /\ UNCHANGED <<lockVars, cmdVars, mine, started, hostVars, prefVars, envVars>>

SweepRead(c) ==
    /\ pc[c] = "sweep"
    /\ LET untracked == {p \in Profiles : registry[p] = None}
       IN  /\ todo' = [todo EXCEPT ![c] = untracked]
           /\ Goto(c, IF untracked = {} THEN "done" ELSE "sweeping")
    /\ UNCHANGED <<lockVars, cmdVars, mine, started, hostVars, prefVars, envVars>>

\* Mutant: the sweep does not look at the spawn lock.
SweepOneIgnoresLock(c, p) ==
    /\ pc[c] = "sweeping" /\ p \in todo[c]
    /\ Die(PidsForSocket(p))
    /\ Unlink({q \in {p} : PidsForSocket(q) # {}})
    /\ todo' = [todo EXCEPT ![c] = @ \ {p}]
    /\ Goto(c, IF todo[c] = {p} THEN "done" ELSE "sweeping")
    /\ UNCHANGED <<lockVars, cmdVars, mine, started, relay, prefVars, envVars>>

\* A profile whose spawn lock is held is skipped.
SweepOne(c, p) ==
    /\ pc[c] = "sweeping" /\ p \in todo[c]
    /\ LET ds == IF spawnLock[p] = None THEN PidsForSocket(p) ELSE {}
       IN  /\ Die(ds)
           /\ Unlink(IF ds = {} THEN {} ELSE {p})
    /\ todo' = [todo EXCEPT ![c] = @ \ {p}]
    /\ Goto(c, IF todo[c] = {p} THEN "done" ELSE "sweeping")
    /\ UNCHANGED <<lockVars, cmdVars, mine, started, relay, prefVars, envVars>>
-----------------------------------------------------------------------------
(* down.                                                                   *)

\* The row once only the claims left remain; the last release starts the linger.
LeaveTo(row, left) ==
    [row EXCEPT !.holders = left, !.released = @ \/ left = {}]

Down(c) ==
    /\ pc[c] = "down" /\ regLock = None
    /\ Goto(c, "done")
    /\ LET p == prof[c]
           row == registry[p]
           left == {h \in row.holders : h[1] # OwnerOf[c]}
       IN  \/ /\ row = None
              /\ UNCHANGED <<registry, hostVars, timeVars>>
           \/ /\ row # None /\ (left # {} \/ Linger)
              /\ registry' = [registry EXCEPT ![p] = LeaveTo(@, left)]
              /\ expired' = IF left = {} THEN expired \ {p} ELSE expired
              /\ timers' = IF left = {} THEN timers \cup {p} ELSE timers
              /\ UNCHANGED hostVars
           \/ /\ row # None /\ left = {} /\ ~Linger
              /\ Teardown(registry, {p})
              /\ registry' = [registry EXCEPT ![p] = None]
              /\ UNCHANGED timeVars
    /\ UNCHANGED <<regLock, work, spawnLock, cmdVars, ownVars, prefVars,
                   cfgExit, born>>
-----------------------------------------------------------------------------
(* up and run: reuse of a registered instance, inside the transaction.     *)

\* Mutant: the spawn lock is waited for inside the transaction.
ReuseAbsentKeepsLock(c) ==
    LET p == prof[c] IN
    /\ pc[c] = "reuse"
    /\ ~LiveRow(work, p)
    /\ IF spawnLock[p] = c
       THEN Commit(work) /\ Goto(c, "clear")
       ELSE UNCHANGED regVars /\ Goto(c, "await")
    /\ UNCHANGED <<spawnLock, cmdVars, ownVars, hostVars, prefVars, envVars>>

\* No live row: leave the transaction and queue for the spawn lock, or, when
\* this was the re-check under it, spawn.
ReuseAbsent(c) ==
    LET p == prof[c] IN
    /\ pc[c] = "reuse"
    /\ ~LiveRow(work, p)
    /\ Commit(work)
    /\ Goto(c, IF spawnLock[p] = c THEN "clear" ELSE "await")
    /\ UNCHANGED <<spawnLock, cmdVars, ownVars, hostVars, prefVars, envVars>>

\* Alive but not seen Running: claim it and answer with the auth URL.
ReusePending(c) ==
    LET p == prof[c] IN
    /\ pc[c] = "reuse" /\ LiveRow(work, p)
    /\ ~IsRunning(p, work[p].daemon) \/ May("cliError")
    /\ Commit([work EXCEPT ![p] = AddHolder(@, Claimant(c))])
    /\ Goto(c, "auth")
    /\ UNCHANGED <<spawnLock, cmdVars, ownVars, hostVars, prefVars, envVars>>

\* Running, shields confirmed, already finalized: claim it.
ReuseReady(c) ==
    LET p == prof[c] IN
    /\ pc[c] = "reuse" /\ work[p] # None /\ work[p].finalized
    /\ IsRunning(p, work[p].daemon)
    /\ shields' = shields \cup {p}
    /\ Commit([work EXCEPT ![p] = AddHolder(@, Claimant(c))])
    /\ Goto(c, "ready")
    /\ UNCHANGED <<spawnLock, cmdVars, ownVars, hostVars, pref, envVars>>

\* Running, but shields not confirmed: the exception leaves the registry as it
\* was, with a row whose daemon is dead.
ReuseRefused(c) ==
    LET p == prof[c] IN
    /\ pc[c] = "reuse" /\ work[p] # None
    /\ IsRunning(p, work[p].daemon)
    /\ May("cliError") \/ May("daemonDies")     \* just after the status call
    /\ Teardown(work, {p})
    /\ Abort
    /\ mine' = [mine EXCEPT ![c] = work[p].daemon]
    /\ Goto(c, "refused")
    /\ UNCHANGED <<spawnLock, cmdVars, started, todo, prefVars, envVars>>

\* Running, shields confirmed, first claim since the login: finalize it.
ReuseShields(c) ==
    LET p == prof[c] IN
    /\ pc[c] = "reuse" /\ work[p] # None /\ ~work[p].finalized
    /\ IsRunning(p, work[p].daemon)
    /\ shields' = shields \cup {p}
    /\ Goto(c, "finish")
    /\ UNCHANGED <<lockVars, cmdVars, ownVars, hostVars, pref, envVars>>

ReuseExitFails(c) ==
    LET p == prof[c] IN
    /\ pc[c] = "finish" /\ cfgExit[p] # None
    /\ CliFails(p, work[p].daemon)
    /\ Abort
    /\ mine' = [mine EXCEPT ![c] = work[p].daemon]
    /\ Goto(c, "exitFailed")
    /\ UNCHANGED <<spawnLock, cmdVars, started, todo, hostVars, prefVars, envVars>>

ExitApplies(p, d) == cfgExit[p] # None => Responds(p, d)

ReuseExit(c) ==
    LET p == prof[c] IN
    /\ pc[c] = "finish" /\ ExitApplies(p, work[p].daemon)
    /\ ApplyExitNode(p)
    /\ Goto(c, "claim")
    /\ UNCHANGED <<lockVars, cmdVars, ownVars, hostVars, shields, envVars>>

ReuseForward(c) == pc[c] = "claim" /\ StartForward(c)

\* The exception leaves the registry as it was, with a row that is still pending.
ReuseNoPort(c) ==
    /\ pc[c] = "claim" /\ ForwardFails(c)
    /\ Abort
    /\ UNCHANGED <<spawnLock, cmdVars, mine, todo, hostVars, prefVars, envVars>>

Claim(c) ==
    LET p == prof[c] IN
    /\ pc[c] = "claim" /\ ~ForwardsLeft(c)
    /\ Commit([work EXCEPT ![p] = [AddHolder(@, Claimant(c))
                                     EXCEPT !.finalized = TRUE, !.fwds = started[c]]])
    /\ started' = [started EXCEPT ![c] = {}]
    /\ Goto(c, "ready")
    /\ UNCHANGED <<spawnLock, cmdVars, mine, todo, hostVars, prefVars, envVars>>
-----------------------------------------------------------------------------
(* up and run: the slow path, under the profile's spawn lock.              *)

\* Mutants: no second look at the registry under the lock; a lock that does not
\* exclude.
AcquireSpawnLockNoRecheck(c) ==
    /\ pc[c] = "await" /\ spawnLock[prof[c]] = None
    /\ spawnLock' = [spawnLock EXCEPT ![prof[c]] = c]
    /\ Goto(c, "clear")
    /\ UNCHANGED <<regVars, cmdVars, ownVars, hostVars, prefVars, envVars>>
AcquireSpawnLockShared(c) ==
    /\ pc[c] = "await"
    /\ spawnLock' = [spawnLock EXCEPT ![prof[c]] = c]
    /\ Goto(c, "begin")
    /\ UNCHANGED <<regVars, cmdVars, ownVars, hostVars, prefVars, envVars>>

AcquireSpawnLock(c) ==
    /\ pc[c] = "await" /\ spawnLock[prof[c]] = None
    /\ spawnLock' = [spawnLock EXCEPT ![prof[c]] = c]
    /\ Goto(c, "begin")
    /\ UNCHANGED <<regVars, cmdVars, ownVars, hostVars, prefVars, envVars>>

\* _kill_socket_orphans: kill whatever is bound to the profile's socket.
ClearSocket(c) ==
    LET p == prof[c]
        orphans == PidsForSocket(p)
    IN
    /\ pc[c] = "clear"
    /\ Die(orphans)
    /\ Unlink(IF orphans = {} THEN {} ELSE {p})
    /\ Goto(c, "spawn")
    /\ UNCHANGED <<lockVars, cmdVars, ownVars, relay, prefVars, envVars>>

\* The daemon starts from the profile's state directory and binds its socket.
Spawn(c) ==
    LET p == prof[c] IN
    /\ pc[c] = "spawn"
    /\ \E d \in Daemons :
         /\ FreshDaemon(d)
         /\ daemon' = [daemon EXCEPT ![d] = p]
         /\ sock' = [sock EXCEPT ![p] = d]
         /\ mine' = [mine EXCEPT ![c] = d]
    /\ Goto(c, "boot")
    /\ UNCHANGED <<lockVars, cmdVars, started, todo, zombies, running, relay,
                   prefVars, envVars>>

\* An exception with nothing to undo: no port, or a daemon gone at once.
SpawnFails(c) ==
    \/ Pass(c, "spawn", "failed") /\ May("noPort")
    \/ Pass(c, "boot", "failed") /\ ~IsAlive(mine[c])

\* _wait_socket_reachable, then the first look at the backend state.
Boot(c) ==
    /\ Pass(c, "boot", IF mine[c] \in running THEN "shields" ELSE "login")
    /\ Responds(prof[c], mine[c])

\* The saved login, or the auth key, brought the daemon to Running in time.
LoginRunning(c) == Pass(c, "login", "shields") /\ IsRunning(prof[c], mine[c])

\* Mutant: a pending instance is registered as a finalized one.
LoginPendingFinalized(c) ==
    /\ Pass(c, "login", "register") /\ prof[c] \notin Keyed
    /\ ~IsRunning(prof[c], mine[c]) \/ May("cliError")

\* No auth key and not Running in time: register a pending instance.
LoginPending(c) ==
    /\ Pass(c, "login", "pending") /\ prof[c] \notin Keyed
    /\ ~IsRunning(prof[c], mine[c]) \/ May("cliError")

\* The bring-up fails where the code kills the daemon it has spawned.
BringUpFails(c) ==
    LET p == prof[c]
        d == mine[c]
    IN
    /\ \/ pc[c] = "boot" /\ CliFails(p, d) /\ Goto(c, "failed")
       \/ /\ pc[c] = "login" /\ p \in Keyed
          /\ ~IsRunning(p, d) \/ May("cliError")
          /\ Goto(c, "failed")
       \/ pc[c] = "shields" /\ CliFails(p, d) /\ Goto(c, "refused")
       \/ pc[c] = "exit" /\ CliFails(p, d) /\ Goto(c, "exitFailed")
    /\ Die({d})
    /\ Unlink({p})
    /\ UNCHANGED <<lockVars, cmdVars, ownVars, relay, prefVars, envVars>>

EnforceShields(c) ==
    LET p == prof[c] IN
    /\ pc[c] = "shields" /\ Responds(p, mine[c])
    /\ shields' = shields \cup {p}
    /\ Goto(c, IF cfgExit[p] = None THEN "register" ELSE "exit")
    /\ UNCHANGED <<lockVars, cmdVars, ownVars, hostVars, pref, envVars>>

SetExitNode(c) ==
    LET p == prof[c] IN
    /\ pc[c] = "exit" /\ Responds(p, mine[c])
    /\ ApplyExitNode(p)
    /\ Goto(c, "register")
    /\ UNCHANGED <<lockVars, cmdVars, ownVars, hostVars, shields, envVars>>

SpawnForward(c) == pc[c] = "register" /\ StartForward(c)

\* Outside the try: the spawned daemon is left behind as well.
ForwardsNoPort(c) ==
    /\ pc[c] = "register" /\ ForwardFails(c)
    /\ UNCHANGED <<lockVars, cmdVars, mine, todo, hostVars, prefVars, envVars>>

\* _register: the row is written over whatever the profile had.
Register(c) ==
    LET p == prof[c] IN
    /\ pc[c] = "pending" \/ (pc[c] = "register" /\ ~ForwardsLeft(c))
    /\ regLock = None
    /\ registry' = [registry EXCEPT ![p] =
                      [daemon    |-> mine[c],
                       holders   |-> {Claimant(c)},
                       finalized |-> pc[c] = "register",
                       released  |-> FALSE,
                       fwds      |-> started[c]]]
    /\ started' = [started EXCEPT ![c] = {}]
    /\ Goto(c, IF pc[c] = "register" THEN "ready" ELSE "auth")
    /\ UNCHANGED <<regLock, work, spawnLock, cmdVars, mine, todo, hostVars,
                   prefVars, envVars>>

\* real_runner lets subprocess.TimeoutExpired through; no handler expects it.
TimeoutExpired(c) ==
    /\ May("timeout")
    /\ \/ pc[c] \in {"boot", "login", "shields", "exit"}
       \/ pc[c] = "reuse" /\ LiveRow(work, prof[c])
       \/ pc[c] = "finish" /\ cfgExit[prof[c]] # None
       \/ /\ pc[c] = "fixing" \/ (pc[c] = "commit" /\ verb[c] \in {"shields", "fix"})
          /\ \E p \in Profiles : work[p] # None
    /\ Goto(c, "timedOut")
    /\ IF regLock = c
       THEN /\ Abort
            /\ mine' = IF pc[c] \in {"reuse", "finish"}
                       THEN [mine EXCEPT ![c] = work[prof[c]].daemon] ELSE mine
       ELSE UNCHANGED <<regVars, mine>>
    /\ UNCHANGED <<spawnLock, cmdVars, started, todo, hostVars, prefVars, envVars>>
-----------------------------------------------------------------------------
(* The environment: daemons, their control plane, users and time.          *)

DaemonDies(d) ==
    /\ May("daemonDies") /\ IsAlive(d) /\ d \notin zombies
    /\ Die({d})
    /\ UNCHANGED <<lockVars, pc, cmdVars, ownVars, relay, sock, prefVars, envVars>>

\* A saved login reconnects, the key is accepted, or the user authenticates.
LoginCompletes(d) ==
    /\ IsAlive(d) /\ d \notin zombies \cup running
    /\ running' = running \cup {d}
    /\ UNCHANGED <<lockVars, pc, cmdVars, ownVars, daemon, zombies, relay, sock,
                   prefVars, envVars>>

LoginLost(d) ==
    /\ May("loginLost") /\ d \in running
    /\ running' = running \ {d}
    /\ UNCHANGED <<lockVars, pc, cmdVars, ownVars, daemon, zombies, relay, sock,
                   prefVars, envVars>>

ShieldsDrop(p) ==
    /\ May("shieldsDrop") /\ p \in shields
    /\ shields' = shields \ {p}
    /\ UNCHANGED <<lockVars, pc, cmdVars, ownVars, hostVars, pref, envVars>>

\* profiles.yaml is edited; a command reads it once, when it starts.
EditProfile(p, e) ==
    /\ May("edit") /\ e # cfgExit[p]
    /\ \A c \in Clients : prof[c] # p
    /\ cfgExit' = [cfgExit EXCEPT ![p] = e]
    /\ UNCHANGED <<lockVars, pc, cmdVars, ownVars, hostVars, prefVars, born,
                   timeVars>>

OwnerDies(o) ==
    /\ May("ownerDies") /\ o \notin Processes /\ born[o] # None
    /\ born' = [born EXCEPT ![o] = None]
    /\ UNCHANGED <<lockVars, pc, cmdVars, ownVars, hostVars, prefVars, cfgExit,
                   timeVars>>

\* Another session gets the pid of a dead one.
OwnerStarts(o) ==
    /\ May("pidReuse") /\ o \notin Processes /\ born[o] = None
    /\ \E t \in CreateTimes :
         /\ FreshCreateTime(o, t)
         /\ born' = [born EXCEPT ![o] = t]
    /\ UNCHANGED <<lockVars, pc, cmdVars, ownVars, hostVars, prefVars, cfgExit,
                   timeVars>>

LingerElapses(p) ==
    /\ Lingering(p)
    /\ expired' = expired \cup {p}
    /\ UNCHANGED <<lockVars, pc, cmdVars, ownVars, hostVars, prefVars, cfgExit,
                   born, timers>>
-----------------------------------------------------------------------------
Init ==
    /\ registry = NoRows /\ regLock = None /\ work = NoRows
    /\ spawnLock = [p \in Profiles |-> None]
    /\ pc = [c \in Clients |-> "idle"]
    /\ verb = [c \in Clients |-> None]
    /\ prof = [c \in Clients |-> None]
    /\ ct = [c \in Clients |-> None]
    /\ mine = [c \in Clients |-> None]
    /\ started = [c \in Clients |-> {}]
    /\ todo = [c \in Clients |-> {}]
    /\ daemon = [d \in Daemons |-> None]
    /\ zombies = {} /\ running = {}
    /\ relay = [f \in Forwarders |-> None]
    /\ sock = [p \in Profiles |-> None]
    /\ shields = {}
    /\ pref = [p \in Profiles |-> None]
    /\ cfgExit \in [Profiles -> Nodes \cup {None}]
    /\ \E t \in CreateTimes :
         born = [o \in Owners |-> IF o \in Processes THEN None ELSE t]
    /\ expired = {} /\ timers = {}

\* The steps a command takes by itself once its locks are granted.
Advance(c) ==
    \/ Return(c) \/ RunCommand(c)
    \/ FixShields(c) \/ CommitTxn(c)
    \/ SweepRead(c) \/ \E p \in Profiles : SweepOne(c, p)
    \/ ReuseAbsent(c) \/ ReusePending(c) \/ ReuseReady(c) \/ ReuseRefused(c)
    \/ ReuseShields(c) \/ ReuseExitFails(c) \/ ReuseExit(c)
    \/ ReuseForward(c) \/ ReuseNoPort(c) \/ Claim(c)
    \/ ClearSocket(c) \/ Spawn(c) \/ SpawnFails(c) \/ Boot(c)
    \/ LoginRunning(c) \/ LoginPending(c) \/ BringUpFails(c)
    \/ EnforceShields(c) \/ SetExitNode(c) \/ SpawnForward(c) \/ ForwardsNoPort(c)
    \/ TimeoutExpired(c)

\* The steps that wait for a flock.
Acquire(c) ==
    \/ ReapInplace(c) \/ TeardownAll(c) \/ Down(c) \/ Register(c)
    \/ AcquireSpawnLock(c)

User(c) ==
    \/ \E v \in Verbs, p \in Profiles : StartUp(c, v, p)
    \/ \E p \in Profiles : StartDown(c, p) \/ ScheduledReap(c, p)
    \/ \E v \in Verbs : StartGlobal(c, v)
    \/ CommandEnds(c)
    \/ Crash(c)

Environment ==
    \/ \E d \in Daemons : DaemonDies(d) \/ LoginCompletes(d) \/ LoginLost(d)
    \/ \E p \in Profiles : ShieldsDrop(p) \/ LingerElapses(p)
    \/ \E p \in Profiles, e \in Nodes \cup {None} : EditProfile(p, e)
    \/ \E o \in Owners : OwnerDies(o) \/ OwnerStarts(o)

Next ==
    \/ \E c \in Clients : Advance(c) \/ Acquire(c) \/ User(c)
    \/ Environment

Spec == Init /\ [][Next]_vars
-----------------------------------------------------------------------------
(* What the lifecycle guarantees.                                          *)

LiveClaim(p, h) ==
    /\ registry[p] # None /\ registry[p].daemon \in PidsForSocket(p)
    /\ h \in registry[p].holders /\ HolderAlive(h)

Moves(c, from, to) == pc[c] = from /\ pc'[c] = to

\* Every variable stays in its type.
TypeOK ==
    /\ registry \in [Profiles -> Row \cup {None}]
    /\ regLock \in Clients \cup {None}
    /\ work \in [Profiles -> Row \cup {None}]
    /\ spawnLock \in [Profiles -> Clients \cup {None}]
    /\ pc \in [Clients -> Places]
    /\ verb \in [Clients -> Verbs \cup {None}]
    /\ prof \in [Clients -> Profiles \cup {None}]
    /\ ct \in [Clients -> CreateTimes \cup {None}]
    /\ mine \in [Clients -> Daemons \cup {None}]
    /\ started \in [Clients -> SUBSET Forwarders]
    /\ todo \in [Clients -> SUBSET Profiles]
    /\ daemon \in [Daemons -> Profiles \cup {None}]
    /\ zombies \subseteq Daemons
    /\ running \subseteq Daemons
    /\ relay \in [Forwarders -> Profiles \cup {None}]
    /\ sock \in [Profiles -> Daemons \cup {None}]
    /\ shields \subseteq Profiles
    /\ pref \in [Profiles -> Nodes \cup {None}]
    /\ cfgExit \in [Profiles -> Nodes \cup {None}]
    /\ born \in [Owners -> CreateTimes \cup {None}]
    /\ expired \subseteq Profiles
    /\ timers \subseteq Profiles

\* While a command is bringing a daemon up for a profile, the registry has no
\* live daemon for it: two `up`s never race to register, and the row that
\* _register overwrites is at worst one whose daemon is dead.
SpawnSparesTracked ==
    \A c \in Clients : pc[c] \in Spawning => ~LiveRow(registry, prof[c])

\* A committed row is held, or it is lingering: `released_at` is set exactly
\* when the last claim was released gracefully, so reap neither leaks a row
\* nor cuts the grace of a released one.
LingerIffUnheld ==
    \A p \in Profiles : registry[p] # None =>
        (registry[p].released <=> registry[p].holders = {})

\* No daemon runs that tailctl has lost track of: it is the daemon of a row,
\* or a command that holds the spawn lock is still bringing it up.
LiveDaemonTracked ==
    \A p \in Profiles : \A d \in PidsForSocket(p) :
        \/ registry[p] # None /\ registry[p].daemon = d
        \/ \E c \in Clients : /\ mine[c] = d /\ spawnLock[p] = c
                              /\ pc[c] \in Spawning

\* An instance handed out as ready refuses inbound connections and leaves
\* through the exit node that the profile names.
ReadyIsSecured ==
    \A p \in Profiles :
        (LiveRow(registry, p) /\ registry[p].finalized) => p \in shields /\ pref[p] = cfgExit[p]

\* An `up` that answers ready hands out an instance that leaves through the
\* exit node profiles.yaml named when the command read it.
ReadyRoutesAsConfigured ==
    \A c \in Clients : pc[c] = "ready" => pref[prof[c]] = cfgExit[prof[c]]

\* The registered daemon of a profile answers at the profile's socket: no
\* clean-up of another daemon has unlinked it.
TrackedIsReachable ==
    \A p \in Profiles :
        (registry[p] # None /\ registry[p].daemon \in PidsForSocket(p))
        => sock[p] = registry[p].daemon

\* The relay f is in the row that names it, or with the command that has started it
\* and is about to write it down.
Tracked(f) ==
    \/ registry[relay[f]] # None /\ f \in registry[relay[f]].fwds
    \/ \E c \in Clients : f \in started[c] /\ prof[c] = relay[f]

\* A relay is accounted for until it is stopped; only a command that fails on a later
\* forward of the same profile loses those that it has started.
RelaysKept ==
    [][\A f \in Forwarders : relay'[f] # None =>
          \/ Tracked(f)'
          \/ relay[f] # None /\ ~Tracked(f)
          \/ \E c \in Clients : /\ f \in started[c]
                                /\ pc[c] \in {"claim", "register"}
                                /\ pc'[c] = "failed"]_vars

\* What `up` or `run` was told is ready stays that way while the claimant
\* lives: the claim is in the registry, and the daemon is there for as long as
\* the user's command of `tailctl run` executes.
ReadyKeepsInstance ==
    \A c \in Clients :
        (pc[c] \in {"ready", "using"} /\ HolderAlive(Claimant(c)))
        => LiveClaim(prof[c], Claimant(c))

\* How a command ends the claim of owner o on p: its owner's own down, a reset, or
\* shields that could not be confirmed.
Ends(c, p, o) ==
    \/ Moves(c, "down", "done") /\ OwnerOf[c] = o /\ prof[c] = p
    \/ Moves(c, "reset", "commit") \/ Moves(c, "fixing", "commit")
    \/ Moves(c, "reuse", "refused") /\ prof[c] = p

\* A claim of a live owner on a live daemon ends only so: never by another session's
\* down, up or linger.
HeldInstanceSurvives ==
    [][\A p \in Profiles, h \in Owners \X CreateTimes :
          LiveClaim(p, h) =>
            \/ LiveClaim(p, h)' /\ registry'[p].daemon = registry[p].daemon
            \/ ~HolderAlive(h)'
            \/ \E c \in Clients : Ends(c, p, h[1])]_vars

\* Where daemons die and reap runs, such an instance may end in two more ways: its
\* daemon dies by itself, or a sweep comes to it that set out before it was
\* registered.  No sweep sets out for an instance that is held.
HeldInstanceEnds ==
    [][\A p \in Profiles, h \in Owners \X CreateTimes :
          LiveClaim(p, h) =>
            /\ \A c \in Clients : p \in todo'[c] => p \in todo[c]
            /\ \/ LiveClaim(p, h)' /\ registry'[p].daemon = registry[p].daemon
               \/ ~HolderAlive(h)'
               \/ UNCHANGED <<pc, todo, registry>>
               \/ \E c \in Clients :
                    \/ pc[c] = "sweeping" /\ p \in todo[c] \ todo'[c] /\ pc'[c] # "idle"
                    \/ Ends(c, p, h[1])]_vars

\* The claims as leases: an `up` asks from its start until it has claimed.
Asking(c) == verb[c] \in {"up", "run"}
             /\ pc[c] \in Spawning \cup {"begin", "reuse", "finish", "claim", "await"}

Rows    == {p \in Profiles : registry[p] # None}
Held    == [p \in Profiles |-> IF registry[p] = None THEN {} ELSE registry[p].holders]
Asked   == [c \in Clients |->
              IF Asking(c) THEN {<<prof[c], <<OwnerOf[c], ct[c]>>>>} ELSE {}]
Leaving == [c \in Clients |-> IF pc[c] = "down" THEN {<<prof[c], OwnerOf[c]>>} ELSE {}]
Present == {h \in Owners \X CreateTimes : HolderAlive(h)}
Broken  == {p \in Profiles :
              registry[p] # None /\ registry[p].daemon \notin PidsForSocket(p)}

Lease == INSTANCE Leases WITH
    rows <- Rows, held <- Held, asked <- Asked, leaving <- Leaving,
    present <- Present, broken <- Broken

\* The claims in instances.json behave as leases: each `up` adds its own claim, at
\* most once; none that was released or dropped is written back from rows read
\* earlier; and none comes to belong to another process that got the same pid.
ImplementsLeases == Lease!Spec

\* A daemon that a command is still bringing up, registered nowhere, is
\* stopped by no other command, and its socket file is left alone.
OthersStep(c) == pc'[c] = pc[c] /\ <<pc, todo>>' # <<pc, todo>>

SpawnUndisturbed ==
    [][\A c \in Clients :
          (pc[c] \in Spawning /\ mine[c] \in PidsForSocket(prof[c]) /\ OthersStep(c))
          => mine[c] \in PidsForSocket(prof[c])' /\ sock'[prof[c]] = mine[c]]_vars

\* Where daemons die as well, another command stops one that is being brought up
\* only if it finds, as it begins, a dead one still in the profile's row
\* (_reap_inplace kills what is bound to the socket of a dead row).
SpawnKilledByDeadRow ==
    [][\A c \in Clients :
          (pc[c] \in Spawning /\ mine[c] \in PidsForSocket(prof[c]) /\ OthersStep(c))
          => \/ mine[c] \in PidsForSocket(prof[c])'
             \/ /\ registry[prof[c]] # None
                /\ ~IsAlive(registry[prof[c]].daemon)
                /\ \E b \in Clients : pc[b] = "begin" /\ pc'[b] # "begin"]_vars

\* An exit node that cannot be applied stops the daemon, on the reuse path of
\* _try_reuse as on the slow path.
ExitFailureStopsDaemon ==
    \A c \in Clients : (pc[c] = "exitFailed" /\ mine[c] # None) => ~IsAlive(mine[c])

\* A daemon that a check could not confirm, here for want of an answer in
\* time, is not left running.
TimeoutStopsDaemon ==
    \A c \in Clients : (pc[c] = "timedOut" /\ mine[c] # None) => ~IsAlive(mine[c])
-----------------------------------------------------------------------------
(* Scheduling: a command advances while nothing but its own next step is   *)
(* missing (every wait in the code has a deadline), and a flock that is    *)
(* released again and again is eventually granted to each waiter.  The     *)
(* user's command of a `run` may go on for ever.                           *)
Fairness == \A c \in Clients : WF_vars(Advance(c)) /\ SF_vars(Acquire(c))

\* The window passes, and the process that down scheduled then runs reap.
LingerFairness ==
    \A p \in Profiles : /\ WF_vars(LingerElapses(p))
                        /\ SF_vars(\E c \in Clients : ScheduledReap(c, p))

\* reap is run now and then, as from cron or launchd.
JanitorFairness == \E c \in Clients \ Mortal : WF_vars(StartGlobal(c, "reap"))

FairSpec    == Spec /\ Fairness
LingerSpec  == FairSpec /\ LingerFairness
JanitorSpec == FairSpec /\ JanitorFairness

\* Every command returns, or reaches the user's command it is to run: no two
\* commands wait for each other's locks.
CommandsReturn ==
    \A c \in Clients : (pc[c] # "idle") ~> (pc[c] \in {"idle", "using"})

\* A released instance is reused or stopped without any further command; only
\* another down of the profile restarts its window.
LingerBounded ==
    \A p \in Profiles :
        (registry[p] # None /\ registry[p].holders = {})
        ~> (\/ registry[p] = None \/ registry[p].holders # {}
            \/ \E c \in Clients : pc[c] = "down" /\ prof[c] = p)

\* A daemon that no row and no command accounts for is eventually stopped, or
\* another `up` takes the profile's spawn lock, under which it is cleared too.
Orphan(p, d) ==
    /\ d \in PidsForSocket(p)
    /\ registry[p] # None => registry[p].daemon # d
    /\ \A c \in Clients : ~(mine[c] = d /\ pc[c] \in Spawning)

OrphansSwept ==
    \A p \in Profiles, d \in Daemons : Orphan(p, d) ~> (~Orphan(p, d) \/ spawnLock[p] # None)

\* A claim of an owner that is gone does not keep its instance for ever.
DeadClaimsDropped ==
    \A p \in Profiles, h \in Owners \X CreateTimes :
        (registry[p] # None /\ h \in registry[p].holders /\ ~HolderAlive(h))
        ~> ~(registry[p] # None /\ h \in registry[p].holders /\ ~HolderAlive(h))
=============================================================================
