# A TLA+ model of tailctl

tailctl runs one private userspace `tailscaled` per profile, so that several
tailnets can be used side by side. There is no resident process: every
`tailctl` command is a process of its own that reads and writes a registry
file, takes advisory file locks, and starts, asks and kills other processes.
What makes it hard is that all of these may be killed, die, answer late or run
at the same time. This directory states what the commands guarantee together,
checks it with TLC and proves part of it with TLAPS.

## 1. The system

| Component | Source (`src/tailctl/`) | State it keeps | Operations |
|---|---|---|---|
| Instance lifecycle | `instance_manager.py` | one `spawn.lock` and one socket file per profile; the processes it starts | `up`, `down`, `reap`, `shields`, `teardown_all`; inside them spawn, login, exit node, forwards, register, sweep |
| Registry | `registry.py` | `instances.json`, `instances.lock` | `transaction` (exclusive flock), `read` (lock-free) |
| Liveness | `liveness.py` | none; asks the process table | `is_alive` (pid and create time), `pids_for_socket` |
| Verbs | `cli.py` | the claim of the command: owner pid and create time | `up`, `down`, `run`, `reap`, `ps`, `shields`, `reset` |
| Onboarding verbs | `cli.py`, `config.py` | `profiles.yaml` | `init`, `bootstrap`, `doctor`, `profiles` |
| Exit node | `instance_manager.py` | none; asks the daemon's netmap | set, discover a suffix variant, retry |
| Tailscale client | `tailscale.py` | preferences inside a daemon's state directory | `status`, `shields_up`, `raise_shields`, `set_exit_node`, `up` |
| Forwarder | `forwarder.py` | connections of one relay process | accept, SOCKS5 connect, copy both ways |
| Configuration | `config.py`, `profiles.py` | `profiles.yaml`, read once per command | parse, validate |
| Signals, log, paths | `signals.py`, `log.py`, `paths.py` | handler table, log file | install, append, rotate |

How they interact. A verb of `cli.py` resolves the owner of its claim (the
command itself for `run`, the session otherwise) and calls the lifecycle. The
lifecycle changes the registry inside `transaction()`, which is exclusive
among all commands, and asks `liveness` whether the processes that rows and
claims name still exist. A profile without a live row is brought up outside
the transaction, under the profile's spawn lock, through the Tailscale client
and the daemon's socket; the result goes into the registry in a second
transaction. `down` leaves a detached `sleep; tailctl reap` behind.

What makes each component correct, and where it is hard:

* **Lifecycle.** Never two daemons for a profile; never a running daemon that
  nobody accounts for; an instance that is held is not stopped; one that is
  released is stopped after its window; one that is handed out as ready
  refuses inbound connections and leaves through the right exit node. Hard:
  two `up`s, an `up` and a `reap`, a killed command, a daemon that dies
  between two looks at it, exceptions that abandon a transaction after the
  kill it made.
* **Registry.** Committed changes are not lost, readers without the lock see a
  whole file. Hard: a crash between the temporary file and the rename.
* **Liveness.** A pid that was reused does not revive a row or a claim. Hard:
  zombies, and kills by pid alone.
* **Verbs.** A claim lasts as long as its owner; `run` releases its own only.
* **Tailscale client.** Each failure is an exception the callers handle. Hard:
  the time-out that is not.
* **Forwarder.** Bytes are delivered in both directions until each side has
  finished, and both sockets are given back. Hard: half-close, an error on one
  side while the other waits in `read` or `drain`, a proxy that says nothing.
* **Onboarding.** profiles.yaml loads after each command, and a command that
  fails leaves what it found. Hard: no lock, a write that truncates first, a
  roll-back over somebody else's edit, names that collide.
* **Exit node.** Traffic leaves through the configured node or a suffix variant
  of it, or `up` refuses. Hard: the netmap changes while `up` is looking.

## 2. The modules

| Module | What it is |
|---|---|
| `InstanceManager.tla` | the model: lifecycle, registry, liveness, locks and verbs, with the environment; its properties, fairness and the deliberately broken operators the mutation checks use |
| `MCInstanceManager.tla` | small instances for TLC: who owns the claims of each client, the verbs each client may issue, symmetry |
| `InstanceManagerProofs.tla` | the inductive invariant and the theorems |
| `Leases.tla` | what the sessions are promised: claims that come once for each `up`, and end by `down`, with their owner or with the instance |
| `LeaseProofs.tla` | that the lifecycle implements it |
| `SpawnProofs.tla` | who may stop a daemon or remove its socket: the theorems about bringing one up while others reap, sweep and crash |
| `ReadyProofs.tla` | what is handed out: that a finalized instance is secured, and that one which is held stays |
| `RelayProofs.tla` | that a relay keeps its owner until it is stopped |
| `RegistryStore.tla` | `transaction()` and `read()` on files: the flock, `exists`/`open`/parse, the temporary file and `os.replace`, errors and kills at every step |
| `AtomicRegistry.tla` | what they promise: exclusive transactions that change the registry in one step or not at all, reads of one committed registry |
| `RegistryStoreProofs.tla` | that the first implements the second |
| `Forwarder.tla` | one connection of a relay: the SOCKS5 handshake, two `_pipe` tasks, asyncio's transports, and two ends that do as they like |
| `Channel.tla` | what a connection promises: two streams, each finished on its own |
| `ForwarderProofs.tla` | that the first implements the second, for any number of chunks and any buffers |
| `ProfilesYaml.tla` | `config.load` as a predicate, and `init`, `bootstrap`, the load of `up` and an editor on one file |
| `ExitNode.tla` | `_set_exit_node_with_retry` and `_discover_exit_node` over a netmap that changes |
| `Onboarding.tla` | the two composed, and their properties |
| `MCOnboarding.tla` | names, requests and account lists in which the collisions happen |
| `OnboardingProofs.tla` | the theorems about the two |

`InstanceManager` uses the registry at the level of `AtomicRegistry`: `regLock`
is its `owner`, `work` its `draft`, `registry` its `committed`.

### State of InstanceManager

| Variables | In the code |
|---|---|
| `registry` | the rows of `instances.json`: daemon, holders, `finalized`, whether `released_at` is set, forwards |
| `regLock`, `work` | the flock of `transaction()` and the `Registry` object being changed under it |
| `spawnLock` | the flocks on the profiles' `spawn.lock` |
| `pc`, `verb`, `prof`, `ct` | per client: where its command is, what it does, for which profile, with which owner create time |
| `mine`, `started`, `todo` | its local variables: the daemon it has spawned, the forwarders it has started, the profiles its sweep still has to visit |
| `daemon`, `zombies`, `running` | the process table: which profile a daemon serves, daemons that died under a `run` that has not reaped them, daemons whose BackendState is Running |
| `relay`, `sock` | forwarder processes; the daemon that bound a profile's socket file |
| `shields`, `pref` | preferences in the state directory, which outlive the daemon |
| `cfgExit`, `born` | `profiles.yaml`; the create time of the process that has an owner pid |
| `expired`, `timers` | rows whose linger window has passed; the reaps that `down` has left sleeping |

A *client* is a place commands are started from; at most one command of it
runs at a time. Several clients are several concurrent commands. Daemons,
relays and owner processes are identities that stand for (pid, create time)
pairs: one that is dead is given out again only when nothing names it any
more (`FreshDaemon`, `FreshForwarder`, `FreshCreateTime`). That the pid of a
session may return with another create time is `OwnerStarts`.

### Actions of InstanceManager

A command is a sequence of actions; `pc` names the next one. What runs while
the registry lock is held is cut into several actions wherever something that
does not need the lock could happen in between, or an exception could leave.

| Code | Actions |
|---|---|
| `_cmd_up`, `_cmd_run`, `_cmd_down`, `_cmd_reap`/`_cmd_ps`, `_cmd_shields`, `_cmd_reset` | `StartUp`, `StartDown`, `StartGlobal`, `RunCommand`, `CommandEnds`, `Return` |
| `_reap_inplace` (dropping dead rows, killing what is bound to their sockets, stopping what nobody holds) | `ReapInplace`, the first step of `up`, `reap`, `shields` |
| `_try_reuse` | `ReuseAbsent`, `ReusePending`, `ReuseReady`, `ReuseRefused`, `ReuseShields`, `ReuseExitFails`, `ReuseExit`, `ReuseForward` (one per round of `_start_forwards`), `ReuseNoPort`, `Claim` |
| `_acquire_spawn_lock` and the second look under it | `AcquireSpawnLock`, then `ReapInplace` and `Reuse*` again |
| `_spawn_and_register` | `ClearSocket`, `Spawn`, `SpawnFails`, `Boot`, `LoginRunning`, `LoginPending`, `BringUpFails`, `EnforceShields`, `SetExitNode`, `SpawnForward` (one per round), `ForwardsNoPort`, `Register` |
| `down` | `Down` (release, linger or tear down, in one transaction) |
| `reap` after its transaction | `SweepRead`, then `SweepOne` per profile |
| `shields --fix`, `reset --force` | `FixShields`, `TeardownAll`, `CommitTxn` |
| `real_runner` timing out | `TimeoutExpired` |
| the detached reaper of `down` | `ScheduledReap` |
| SIGKILL, Ctrl-C | `Crash` |
| daemons, users, sessions, the clock | `DaemonDies`, `LoginCompletes`, `LoginLost`, `ShieldsDrop`, `EditProfile`, `OwnerDies`, `OwnerStarts`, `LingerElapses` |

An exception inside `transaction()` is `Abort`: the registry stays as it was,
while processes that were killed before the exception stay killed.

`PortForwards` says how many forwards each profile declares. `StartForward` is
one round of the loop of `_start_forwards`, so a command may be killed between
two, and `_free_port` or `_spawn_forwarder` may raise at any of them
(`ForwardFails`): the list of the forwarders already started is then lost.

### RegistryStore

A file name (`json`, `tmp`) leads to an inode, and `contents` says what the
inode holds: a registry, or `Partial` while it is being written. A reader keeps
the inode it has opened (`fd`), whatever the name leads to later. `Lock` and
`Unlock` are the two ends of `transaction()`, `Read` is `read()`;
`NoFile`/`FileExists`, `Open` and `Parse` are `_read_unlocked`; `Modify` is a
body that returns, with the generation counted up, `Raise` one that does not;
`Create`, `Write`, `Replace` are `_write_unlocked` and `WriteFails` its `OSError`
at any of them. `Create` truncates the temporary file an earlier writer has left.
`Crash` drops the lock and the open file, as the kernel does.

The mapping to `AtomicRegistry`: the committed registry is what `json` leads to;
a transaction owns it from the end of its read to `Replace`, an error or a kill;
a read takes place when the file is opened. Machine stops (and so the missing
`fsync`), files edited by hand and `schema_version` are not modelled.

### Forwarder

| Variables | In the code |
|---|---|
| `sent`, `fin`, `reset`, `got`, `told` | the two ends: chunks written, FIN, RST, chunks received, and how the receiving side ended |
| `taken` | chunks that `_pipe` has read from an end and written to the other |
| `pipe` | where the `_pipe` that reads from an end is: in `read`, in `drain`, returned |
| `conn` | the relay's transport towards an end |
| `phase` | where `handle` is: the three waits of the handshake, the two tasks, over |

Data is a count of chunks, a chunk being what one `read(65536)` returns: nothing
in the code looks inside. `drain()` waits while the transport holds more than
`HighWater` chunks and the sockets more than `Kernel`; the low-water mark, which
only delays the wake-up, is left out. `Close` is `transport.close()`, which
writes out what is buffered first (`Flushed`). A transport learns of a reset when
it reads or writes (`Notice`), after which the reader or `drain()` raises
(`Abandon`). When the handshake fails, the upstream writer is dropped without
`close()` and closes its transport when it is collected: `Refuse` closes both.
`Killed` is the relay process being killed by `down`, `reap` or `reset`.

`Channel` maps `sent`, `fin`, `got` and `told` to themselves; a stream of it is
`broken` when its sender reset the connection, the tunnel was refused, or the
relay was killed.

### Onboarding

| Variables | In the code |
|---|---|
| `file` | the text of `profiles.yaml`: absent, not loadable, or a mapping |
| `step`, `request`, `found`, `result` | a command's place, its arguments (or the accounts of `switch --list`), `original`, and what it reports |
| `profile` | the profile that `up` has loaded |
| `netmap` | peers that are online and offer an exit node |
| `stage`, `target`, `configured`, `saw` | the loop of `_set_exit_node_with_retry`: where it is, the name it tries, `profile.exit_node`, and (a ghost) the peers its one discovery saw |
| `raced`, `spoiled` | ghosts: did somebody else write the file while this command had it, and did that ever happen |

`StartInit` and `StartBootstrap` are the commands up to the first write, with
their refusals. `write_text` is two steps, `Truncate` and one of
`FillScaffold`, `FillAppended`, `FillOriginal`, so that a reader, another
command, a kill or a full disk (`Kill`) may come in between. `Accept` and
`RollBack` are the two outcomes of the validation, `LoadForUp` is `_cmd_up`,
on its own or after `--register`. A name is the sequence of its `-` segments,
which is all that `re.sub(r"-\d+$", ...)`, the anchored pattern and init's
`f"{name}-{acct.id}"` look at.

### What is abstracted

* `_kill` (SIGTERM, up to 3 s, SIGKILL) is one step, and a kill succeeds.
* Polling loops (`_wait_socket_reachable`, `_wait_running_or_auth`,
  `_set_exit_node_with_retry`) are the outcomes they can end with.
* `reap`'s sweep of one profile (try the spawn lock, kill, unlock) is one step.
* Port numbers, the auth URL, log files and messages are left out.
* A commit of the registry does not fail in `InstanceManager`. That
  `_write_unlocked` may raise `OSError` is in `RegistryStore` only (`WriteFails`).
* `TAILCTL_OWNER_PID` is the constant `OwnerOf`. `_resolve_owner`'s fall-back
  when the named owner is gone is not modelled: an `up` starts while its owner
  lives. `down` is run from the session that owns the claim.
* In `profiles.yaml`, the fields other than account, exit node and forwarded
  services, and everything above `profiles` except `default`.
* The syntax of `profiles.yaml` is what an appended block makes of it. `tail` says
  what two-space text at the end belongs to: `profiles`; something `load` ignores
  (a key it does not know, such as `notes:`, or a profile whose own name is
  indented by one), so that the block changes nothing `load` reads; or nothing, as
  after a scalar, so that the text is refused. Values are not quoted in the block:
  `Falsy` are the exit nodes that YAML reads as no value (`off`, `no`, `null`,
  `0`), and `AsRead` what `load` makes of a request. Other values that YAML reads
  as no string are refused; they are one body in `MCOnboarding`.
* In `Onboarding` an instance is not modelled further: `up` ends where the exit
  node is applied or refused. `InstanceManager` has the rest.
* A signal hits the process it is meant for (`_kill` has only the pid).
* Time is the order of events, except that the scheduled reap of `down` wakes
  up after the window has passed (`int(linger) + 5` seconds later).

## 3. What the runs check

Every run of `InstanceManager` has two clients, so two commands that overlap at every step;
`runs` has two profiles, the others one: profiles share nothing but the
registry lock and the sweep's loop. Three daemon identities are enough for a
registered one, one being brought up and one that is orphaned (the liveness
runs have two, and no symmetry). `CreateTimes = {t1, t2}` lets a pid be reused
once while an old claim is still around. The set `Events` names what the
environment may do in a run; the set `Commands` which verbs each client issues,
`Mortal` whose commands may be killed at any step. Symmetry is over daemon,
forwarder and create-time identities, which no property names.

| Run | Instance | Properties |
|---|---|---|
| `lifecycle` | `up`/`down` against `up`/`down`/`shields --fix`/`reset`; sessions die, pids are reused, CLI calls fail | `TypeOK`, `SpawnSparesTracked`, `LingerIffUnheld`, `LiveDaemonTracked`, `ReadyIsSecured`, `HeldInstanceSurvives`, `ImplementsLeases` |
| `runs` | `run` against `up`/`down`/`shields`, two profiles, one with two forwards and one with an auth key, no linger window; logins lapse, shields drop, any forward may fail | `ReadyKeepsInstance`, `RelaysKept` |
| `crashes` | `run` against `up`/`down`/`reap`/`shields --fix`; commands and daemons die anywhere, CLI errors and time-outs, a forward that may fail, profile edited, auth key | `SpawnSparesTracked`, `TrackedIsReachable`, `SpawnKilledByDeadRow`, `HeldInstanceEnds` |
| `linger` | `up`/`down` against `up`/`reap` under `LingerSpec`, CLI calls fail | `CommandsReturn`, `LingerBounded` |
| `janitor` | the same commands under `JanitorSpec`; one client's are killed, sessions die | `SpawnUndisturbed`, `OrphansSwept`, `DeadClaimsDropped` |

| `store` | three commands, so two that compete for the lock and a reader; rows of two kinds; two transactions that commit (`MaxGeneration`), so a file replaced while it is open; four inodes, one for each name and two that readers may still hold | `TypeOK`, `NeverCorrupt`, `ImplementsAtomic`, `NoLostUpdate` |

* `SpawnSparesTracked`: while a command is past its second look, the profile
  has no live registered daemon. The row that `_register` overwrites is dead.
* `LiveDaemonTracked`: as long as nobody is killed, each running daemon is in a
  row or in the hands of a command that holds the spawn lock.
* `LingerIffUnheld`: `released_at` is set on a committed row exactly when its
  last claim was released.
* `ReadyIsSecured`: a live finalized instance has shields up and the exit node
  of its profile (while neither is changed behind tailctl's back).
* `HeldInstanceSurvives` (action property): the claim of a live owner on a live
  daemon ends by the owner's `down`, by `reset`, or because shields could not
  be confirmed; never by another session's `down`, `up` or linger.
* `HeldInstanceEnds` (action property): where daemons die and `reap` runs, it may
  also end because its daemon dies, or because a sweep comes to the profile that
  read the registry before the instance was registered (the run `sweep_race`). No
  sweep sets out for an instance that is held.
* `ImplementsLeases`: the claims of the committed rows refine `Leases`: a claim
  comes from the `up` that asked for it, once, and no transaction writes back
  one that was released or dropped since its rows were read. An instance whose
  daemon is gone, or a zombie, is broken, and its claims go with its row; why
  the daemon went is the matter of `HeldInstanceSurvives`.
* `ReadyKeepsInstance`: what `run` was told is ready is there until its command
  has ended. `RelaysKept` (action property): a relay that is in a row, or with
  the command that started it, stays so until it is killed; only a command that
  cannot start a later forward of the same profile loses what it has started.
* `TrackedIsReachable`: no clean-up unlinks a registered live daemon's socket.
* `SpawnUndisturbed` (action property): reap and its sweep leave a daemon that
  is still being brought up alone.
* `SpawnKilledByDeadRow` (action property): with daemons that die too, the one
  way another command stops such a daemon is a `reap` that begins while the
  profile's row is still that of a dead one.
* `CommandsReturn`, `LingerBounded`, `OrphansSwept`, `DeadClaimsDropped`:
  liveness, see below.

* `NeverCorrupt`: no reader, with the lock or without, has half a file open.
* `ImplementsAtomic`: `RegistryStore` refines `AtomicRegistry`. `NoLostUpdate`: a
  committed registry is made from the one it replaces.

| Run | Instance | Properties |
|---|---|---|
| `relay` | each end may send two chunks; sockets hold none and the transport one, so both tasks can be stuck in `drain` at once; resets, half-closes, refusal and kill at any time | `TypeOK`, `NoTruncation`, `ImplementsChannel`, `EndIsHeard`, `NothingLeaks` |
| `onboarding` | two commands, each `init`, `bootstrap` (with or without `--register`, `--force`) or `up`; one save by the user; an absent file, and files whose `tail` is each of the three; requests for a new profile, a name that is taken, an exit node that reads as none and is a duplicate or not, and one that `load` refuses; two changes of a netmap of two variants of a node and a node with the same prefix; CLI calls fail or time out; one command at a time in the exit-node loop, since two share only the netmap | `TypeOK`, `FileLoads`, `BootstrapIsAtomic`, `InitKeepsAccounts`, `RegistersWhatItWrote`, `EgressIsConfigured`, `RefusedUnseen` |

* `NoTruncation`: an end that sees the end of the stream has all of it, but for
  a reset, a refusal or a kill. `ImplementsChannel`: `Forwarder` refines
  `Channel`: besides, neither direction ends the other, and nobody sees a reset
  that neither end caused.
* `EndIsHeard`, `NothingLeaks`: liveness. An end that finishes or resets is
  heard of at the other one; both sockets are closed after a refusal, after both
  ends are done, and after a reset by an end that could still send.
* `FileLoads`: whatever commands run one after the other, the next one can load
  the file, if each was let to finish and the user saved no bad one.
* `BootstrapIsAtomic` (action property): a bootstrap that nobody races ends with
  its block, as `load` reads it, in a file that loads and all else unchanged, or
  with what it found. The latter also where `tail` is "ignored", though it then
  reports success. `RegistersWhatItWrote`: `--register` brings up
  that block, or, where `tail` is "ignored", the profile of that name from before,
  or none.
* `InitKeepsAccounts` (action property): each signed-in account has a profile in
  the file that `init` writes.
* `EgressIsConfigured`, `RefusedUnseen`: an `up` that goes through leaves by the
  configured node, or by one that differs in a numeric suffix and was there when
  the configured one was not; one that refuses had looked and found neither.

Two chunks are one that is in flight when the other is read; a second command
is what a race on the file takes, and a third would only repeat it. Two changes
of the netmap let a node appear before the discovery and leave after it.

A property is checked under the events that it can survive. Those it does not:
`SpawnUndisturbed` fails when daemons may die (a `reap` that finds the dead row
of a profile being brought up kills the new daemon through
`_kill_socket_orphans`; `SpawnKilledByDeadRow` says that this is the one way);
`TrackedIsReachable` fails when daemons may die and
`reset` runs (it unlinks the path of the dead row, which is by then the new
daemon's); `ReadyKeepsInstance` fails when one `TAILCTL_OWNER_PID` is shared
by a `run` and another claim. A row whose daemon died under a `run` that is
still its parent is kept as alive, because a zombie has a pid and a create
time. Two commands that write `profiles.yaml` at once may undo each other, and
both may report success; one that is killed between truncating and validating
leaves a file that no command loads; `BootstrapIsAtomic`, `RegistersWhatItWrote`
and `FileLoads` leave these out (`raced`, `spoiled`), because the code does
nothing about them. All of these are in the hazard list of `PROJECT.json`.

### Disagreements between code and documentation

| Run | What TLC finds |
|---|---|
| `sweep_race` | `_sweep_untracked_orphans` reads the registry, and only later tries the spawn lock. An `up` that registers and finishes in between loses its held daemon, although the docstring says the sweep kills daemons "with no registry row". |
| `cli_timeout` | `subprocess.TimeoutExpired` is no `TailscaleError`, so a CLI call that times out leaves the daemon running; the comments promise that a daemon that cannot be confirmed is torn down, and `TailscaleError` is documented to cover time-outs. |
| `exit_edited` | An instance that is already finalized is handed out as ready with the exit node, or none, that the profile had when it was finalized. |
| `reuse_exit` | "The caller tears the daemon down on this error" holds for `_spawn_and_register`, not for `_try_reuse`. |

More were met and have no run of their own; where a property would be false of the
code, it is stated with the case as its only exception.

* `down` is to "stop forwards" at zero (`instance_manager.py:12`). When a forward
  after the first cannot be started, `_start_forwards` (594-618) loses the list of
  those it has started; they are in no row, and no `down`, `reset` or `reap` stops
  them. `RelaysKept` exempts the command that fails so.
* `bootstrap` appends "under `profiles:` (last top-level key)" and reloads "to
  validate the result parses" (`cli.py:757-758`); nothing checks that `profiles` is
  last. In a file that ends in a mapping `load` does not know, the block becomes
  part of that, and `bootstrap` reports a profile that does not exist.
  `BootstrapIsAtomic` and `RegistersWhatItWrote` say what holds then.
* An exit node that is spelled like a YAML false or null (`off`) is accepted by
  `bootstrap` and dropped by `load` (`config.py:185`).
* `init` says "one entry per signed-in account" (`cli.py:237`), and loses one when
  a name is another's with its id appended; `InitKeepsAccounts` exempts exactly that.
* `_pipe` closes the other end "so the peer doesn't hang" after a transport error,
  with a FIN like that of a stream that is complete; `NoTruncation` exempts resets.
* The discovery that "heals the -2/no-suffix drift" "while the netmap syncs" takes
  place once, when the first attempt has failed, so a node that appears later is not
  found; `RefusedUnseen` speaks of the peers of that one look.

### Fairness

`Fairness` is weak fairness of a command's own steps (each wait in the code has
a deadline, so a command that has its locks goes on) and strong fairness of the
steps that need a flock: `flock(LOCK_EX)` blocks in the kernel, and a waiter is
served although the lock is taken and released many times before. Nothing
makes a user start or end a command: the program under `run` may go on for ever.
`LingerFairness` adds that time passes and that the process that `down` left
sleeping then runs `reap`; it is strong because a client runs one command at a
time and is not idle continuously. `JanitorFairness` adds that `tailctl reap` is
started again and again by a client that is not killed, which is how
`_cmd_reap` is documented ("Safe to run from cron/launchd as the janitor for
crashed sessions").

In `Forwarder` the event loop runs a task or callback that is ready (`Finish`,
`Pipe`, `Flushed`), a transport that must meet a reset does (`MustNotice`: it is
reading, or has something to write), and an end goes on receiving. Nothing is
assumed of what an end sends, that it ever finishes, or that the proxy answers:
the handshake has no time-out, and `EndIsHeard` begins when the tunnel stands.
`Onboarding` has no liveness property and no fairness: its commands do not wait
for each other.

## 4. What is proved

`InstanceManagerProofs.tla` proves, for every value of the constants (any number
of profiles, clients, daemons, relays and sessions, and any `Events`):

* `TypeCorrect`: `Spec => []TypeOK`;
* `SpawnExclusive`: `Spec => []SpawnSparesTracked`;
* `LingerSound`: `Spec => []LingerIffUnheld`.

Assumed is only what the constants are: `ConstantsAssumption`, and
`NoneAssumption`, that `None` is none of the values it stands in for. TLC
evaluates both in every run.

The three follow from one inductive invariant, `IInv`. `SpawnSparesTracked` is
not inductive: a step of another command could write a live row for the
profile. It takes

* `SpawnLockOK`: whoever is bringing a profile up holds its spawn lock, so
  `Register`, which writes a new row, is not another command's next step;
* `RegLockOK`: a command inside `transaction()` holds the lock, and its rows are
  those of the file, so no commit adds a row that was not there;
* `CommandOK`: what a command carries at each place (profile, claim, daemon);
* that a dead process stays dead: `DieSpares` for kills and deaths,
  `FreshDaemon` for spawns, whose identity is in no row.

`LingerOK` extends `LingerIffUnheld` to the rows in memory; a row that `reap`
keeps is held or lingering, `AddHolderHolds` and `LeaveToHolds` say what a claim
and a release do to a row. The step lemmas (`UserStep`, `TransactionStep`,
`ReuseStep`, `SpawnStep`, `EnvironmentStep`) have one step per action.

`LeaseProofs.tla` proves `ClaimsAreLeases`: `Spec => ImplementsLeases`, from the
same assumptions. Beside `IInv` it needs `WorkOK`: the rows a transaction is
working on have lost only claims of owners that are gone, and lack only rows with
such claims or a daemon that is gone, compared with those in the file. They were
read when the transaction began and are written when it ends; what was gone then
is still gone because no step gives a dead owner's create time, or a registered
daemon's identity, out again (`Declines`). Each commit is then a `Tidy` or a
`Grant` of `Leases` (`TidyStep`, `ClaimStep`, `RegisterStep`), `Down` a `Release`
(`DownStep`), and every other step starts, withdraws or is not seen.

### Daemons, instances and relays

Three modules prove the other properties of the lifecycle. Those that some event
or verb breaks have it excluded by a hypothesis of the theorem, on `Events`,
`Commands`, `Mortal` or `OwnerOf`; the runs that check the property satisfy the
hypotheses, so they are not empty. All else is arbitrary: any number of clients,
profiles and daemons, any other verbs and events in any order.

| Theorem | States | Where |
|---|---|---|
| `SpawnKillers` | `SpawnKilledByDeadRow` | always |
| `SpawnsUndisturbed` | `SpawnUndisturbed` | no daemon dies by itself, no `run` (under which one may be a zombie): then no profile that is being brought up has a row of a dead daemon |
| `DaemonsTracked` | `LiveDaemonTracked` | no command is killed or times out, and no forward fails (or no profile has one): each of these leaves a daemon in no row |
| `Reachable` | `TrackedIsReachable` | no daemon dies by itself, no `run` |
| `ReachableWithLinger` | `TrackedIsReachable` | a linger window, no `reset`: else `down`, or `reset`, tears down the row of a dead daemon, and unlinks the socket that its successor has bound |
| `InstancesSecured` | `ReadyIsSecured` | shields are not lowered and the profile is not edited behind tailctl's back |
| `HeldInstancesSurvive` | `HeldInstanceSurvives` | no daemon dies by itself, no `reap` (the run `sweep_race`), and clients that share an owner are of one session (`OwnersApart`) |
| `HeldInstancesEnd` | `HeldInstanceEnds` | clients that share an owner are of one session |
| `ReadyKeeps` | `ReadyKeepsInstance` | besides: no two clients share an owner, `run` claims for itself, as in `_resolve_owner` without `TAILCTL_OWNER_PID`, and nobody may end an instance that is held (`reset`, `shields --fix`, a check that fails) |
| `RelaysStayTracked` | `RelaysKept` | no daemon dies by itself, no command is killed, and not both `run` and `reap`: the sweep may kill the daemon of a row that it has not seen, and if that daemon is a `run`'s zombie, its row is registered over with its relays |

The argument goes through a list. `ServeInv` says that a row, and a command that
has spawned a daemon, name a daemon of their own profile or one that is gone; that
no transaction works on a row of a profile that is being brought up; and that the
daemon of a row which a transaction drops is stopped by then. From it,
`WhoDisturbs` lists every step that may stop a daemon of a profile or remove its
socket: five that stop the daemon of its row, three that stop what is bound to its
socket, and a bring-up that fails. All theorems about daemons follow from that
list; `SpawnKillers` needs nothing else than `HostInv` (`IInv` with `ServeInv`).

* `RunFree` adds what holds where no daemon is a zombie: a profile that is being
  brought up has no row (`SpawnClear`), and its daemon has bound the socket
  (`SockOK`). With a linger window, `Windowed` needs only the second.
* `Rewrites` lists the steps that write a row. With it `SecureInv` follows the
  shields and the exit node from the place where a command has set them
  (`PlaceSecured`) to the row it finalizes (`RowSecured`), and from the row a
  transaction works on to the file (`WorkSame`).
* `ClaimInv` adds that the only claim of a living owner that a command can meet
  in its own name is the one it makes (`ClaimFresh`), so that no `down` releases
  that of another session. A claim is kept in a step in which no daemon dies by
  itself and no sweep comes to its profile (`Spared`, `HeldSurvives`); with it both
  theorems about held instances follow, and `WhoSweeps` says for which profiles a
  sweep sets out.
* `ReadyInv` follows an instance from `up` to the end of the user's command. It
  is one joint invariant, because that the daemon of a row runs (`FinishAlive`),
  that the command's own daemon does (`SpawnedAlive`), and that nobody ends an
  instance which another one holds rest on each other.
* `RelayInv` says that no relay is lost with a row: a row that is dropped has none
  left (`DroppedBare`), nor has one that a bring-up registers over (`SpareBare`),
  although `_register` does not look at it. What is left is the loop that starts
  them (`StartedAt`), for any number of forwards.

### Registry, forwarder and onboarding

`RegistryStoreProofs.tla` proves, for any number of commands, transactions, rows
and inodes, `StoreTypes`, `StoreNeverCorrupt`, `StoreLosesNoUpdate` and `StoreRefines`
(`Spec => ImplementsAtomic`), from `StoreAssumption` and `ContentsAssumption` (a half-written
file is not a registry). The inductive invariant `StoreInv` says what each step
relies on: a command between `Lock` and `Unlock` holds the lock (`LockHeld`);
`instances.json` is whole and not the temporary file (`FileWhole`); an open file
is whole and no writer's target (`ReaderSafe`); the draft of a transaction is the
committed registry, then its successor, and is what the temporary file holds
before the rename (`DraftCurrent`). `StepRefines` has one case for each action.

`ForwarderProofs.tla` proves `RelayTyped`, `NothingTruncated` and `RelayIsChannel`
for every `MaxChunks`, `Kernel` and `HighWater` in `Nat` (`RelayAssumption`).
`NoTruncation` needs to know why an end may be told "eof": `RelayInv` ties the
state of each transport and each `_pipe` to what its ends have done. A task that
returned cleanly has copied everything up to a FIN, or an end has reset; a task
that failed has met a reset; while the two run, only one that failed has closed a
transport; and a transport fails only by a reset. From it, each action
is a step or a stutter of `Channel` (`PeerRefines`, `RelayRefines`).

`OnboardingProofs.tla` proves `EgressAsConfigured`, `RefusesOnlyUnseen`,
`BootstrapAllOrNothing`, `RegistersTheWritten`, `OnboardingTyped`, `InitKeepsThem`
and `FileAlwaysLoads` for any set of commands, files, requests, account lists,
hosts and numerals, from `NamesAssumption` (host names are sequences of strings)
and `ConfigAssumption` (texts and bodies are of their types, `switch --list` names
no account twice, and what `init` writes is readable). The first two follow from `EgressInv`: the name an `up` tries is the
configured one, or a variant that its discovery saw when the configured one was
not there. Its lemmas say that the name the loop starts with is a name, because
`load` has checked it (`UpKeeps`), that a non-empty set of variants has one that
sorts first, so that the discovery returns one of them (`FirstVariant`, by the
well-foundedness of the naturals), and that a name is its base or its base with a
numeral (`BaseAndSuffix`). The next two follow from `WriterInv`: between the
write and the validation of a bootstrap that nobody races, the file is the text
it found with its block, as `load` reads it, and when `--register` goes on it still
is. `AppendedHolds` says what that is for each `tail`: the found file with one
profile more, or the found file.

The last three rest on what the loop of `init` computes for any list of accounts.
The loop is the recursive function `Starter`, from a number of accounts to the text
after them; `StarterLoop` shows that there is one, and `LoopStarts` and `LoopKeeps`
what it keeps, each by the least number for which it would not hold. After each
account, every profile is that of one account under the name it was given, the
default is a profile, and, unless names collide, no account has lost its profile
to a later one. So the file that `init` writes loads (`ScaffoldLoads`), is of its
type, and has every account (`ScaffoldKeeps`). `TextInv` says which request, accounts and text
a command holds at each place, `LoadsInv` that, until somebody is raced, what a
bootstrap has read loads and so may be written back. `FileAlwaysLoads` assumes that
the file there is at first, if any, loads.

### Model-checked only

Every invariant and every action property of the runs, and each refinement, is
stated by a theorem. What stays with TLC are the liveness properties,
`CommandsReturn`, `LingerBounded`, `OrphansSwept`, `DeadClaimsDropped`, `EndIsHeard`
and `NothingLeaks`: fairness and ENABLED are outside what the provers reach. Where a
theorem has a hypothesis, nothing is proved without it; the table above says what
goes wrong then, or which run shows it. That `SpawnSparesTracked` and
`TrackedIsReachable` hold in the run `crashes`, where daemons and commands die, is
proved as well (`ReachableWithLinger`, since that run has a linger window).

## 5. Plan

1. The hypotheses of `RelaysStayTracked`: with `run` and `reap`, which relays the sweep
   may leave behind, stated as `HeldInstanceEnds` is, instead of excluding the verbs.
2. A specification of what `up` promises of the daemon it hands out, as `Leases`
   is one of the claims.

### Not modelled

* `doctor` and `profiles`: read-only reports that no other command reads.
* `signals.py` and `log.py`: no module of `src/` installs the handlers, pushes a
  clean-up or writes the log, so nothing the program does depends on them.
* `paths.py`: pure path computation.
* The parsers of `tailscale.py` and the text that the verbs print.
* Of `config.py`, the patterns of single fields, the paths of the binaries and
  `listen_host`: each is refused or not, one profile at a time.
* The inside of `tailscaled`, of the SOCKS5 proxy and of the kernel, beyond what
  the callers in `src/` see of them.
