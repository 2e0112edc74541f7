---------------------------- MODULE RegistryStore ----------------------------
(***************************************************************************)
(* RegistryStore of registry.py: transaction() under an exclusive flock,   *)
(* read() without one, and _write_unlocked, which writes a temporary file  *)
(* whose name all writers share and renames it over instances.json.        *)
(*                                                                         *)
(* A file name leads to an inode and a reader keeps the inode it opened.   *)
(* A command may be killed at any step; the machine itself does not stop.  *)
(***************************************************************************)
EXTENDS Naturals

CONSTANTS
    Clients,        \* commands
    Rows,           \* what `instances` may hold
    NoInstances,    \* the empty one
    Inodes,
    MaxGeneration,  \* bound: transactions that may change the registry
    None,
    Partial         \* the contents of a file that is being written

ASSUME StoreAssumption ==
    /\ NoInstances \in Rows
    /\ None \notin Clients /\ None \notin Inodes
    /\ MaxGeneration \in Nat

Registry == [generation : Nat, rows : Rows]

\* Mutant: `instances` has no default.
EmptyWithoutRows == [generation |-> 0, rows |-> None]

\* Registry().
Empty == [generation |-> 0, rows |-> NoInstances]

ASSUME ContentsAssumption == Partial \notin Registry /\ None \notin Registry

VARIABLES
    json,      \* inode of instances.json, or None before the first write
    tmp,       \* inode of instances.json.tmp, or None
    contents,  \* what each inode holds
    lock,      \* holder of the flock on instances.lock
    pc,        \* each command's place
    txn,       \* is it in transaction(), or in read()?
    fd,        \* the inode it has open
    mem        \* its Registry object

fileVars == <<json, tmp, contents>>
vars     == <<fileVars, lock, pc, txn, fd, mem>>

Reading == {"exists", "open", "parse"}
Writing == {"create", "write", "replace"}
Places  == {"idle", "body", "unlock", "done"} \cup Reading \cup Writing

Goto(c, place) == pc' = [pc EXCEPT ![c] = place]
-----------------------------------------------------------------------------
\* Mutant: the flock does not exclude.
LockShared(c) ==
    /\ pc[c] = "idle"
    /\ lock' = c
    /\ txn' = [txn EXCEPT ![c] = TRUE]
    /\ Goto(c, "exists")
    /\ UNCHANGED <<fileVars, fd, mem>>

\* transaction(): wait for the flock.
Lock(c) ==
    /\ pc[c] = "idle" /\ lock = None
    /\ lock' = c
    /\ txn' = [txn EXCEPT ![c] = TRUE]
    /\ Goto(c, "exists")
    /\ UNCHANGED <<fileVars, fd, mem>>

\* read(): no lock.
Read(c) ==
    /\ pc[c] = "idle"
    /\ txn' = [txn EXCEPT ![c] = FALSE]
    /\ Goto(c, "exists")
    /\ UNCHANGED <<fileVars, lock, fd, mem>>

Loaded(c) == Goto(c, IF txn[c] THEN "body" ELSE "done")

\* _read_unlocked: is there a file, open it, parse it.
NoFile(c) ==
    /\ pc[c] = "exists" /\ json = None
    /\ mem' = [mem EXCEPT ![c] = Empty]
    /\ Loaded(c)
    /\ UNCHANGED <<fileVars, lock, txn, fd>>

FileExists(c) ==
    /\ pc[c] = "exists" /\ json # None
    /\ Goto(c, "open")
    /\ UNCHANGED <<fileVars, lock, txn, fd, mem>>

Open(c) ==
    /\ pc[c] = "open" /\ json # None
    /\ fd' = [fd EXCEPT ![c] = json]
    /\ Goto(c, "parse")
    /\ UNCHANGED <<fileVars, lock, txn, mem>>

\* read_text and json.loads; half a file is a RegistryCorruptError.
Parse(c) ==
    /\ pc[c] = "parse"
    /\ IF contents[fd[c]] = Partial
       THEN Goto(c, IF txn[c] THEN "unlock" ELSE "done") /\ UNCHANGED mem
       ELSE Loaded(c) /\ mem' = [mem EXCEPT ![c] = contents[fd[c]]]
    /\ fd' = [fd EXCEPT ![c] = None]
    /\ UNCHANGED <<fileVars, lock, txn>>

\* The body of the `with` returns; the generation is counted up.
Modify(c) ==
    /\ pc[c] = "body" /\ mem[c].generation < MaxGeneration
    /\ \E r \in Rows :
         mem' = [mem EXCEPT ![c] = [generation |-> @.generation + 1, rows |-> r]]
    /\ Goto(c, "create")
    /\ UNCHANGED <<fileVars, lock, txn, fd>>

\* The body raises.
Raise(c) ==
    /\ pc[c] = "body"
    /\ Goto(c, "unlock")
    /\ UNCHANGED <<fileVars, lock, txn, fd, mem>>

Unused(i) == i \notin {json, tmp} /\ \A c \in Clients : fd[c] # i

\* Mutant: instances.json itself is opened for writing.
CreateInPlace(c) ==
    /\ pc[c] = "create"
    /\ \E i \in Inodes :
         /\ IF json = None THEN Unused(i) ELSE i = json
         /\ tmp' = i
         /\ contents' = [contents EXCEPT ![i] = Partial]
    /\ Goto(c, "write")
    /\ UNCHANGED <<json, lock, txn, fd, mem>>

\* write_text opens the temporary file: a new one, or the one that a killed
\* writer left, cut to nothing.
Create(c) ==
    /\ pc[c] = "create"
    /\ \E i \in Inodes :
         /\ IF tmp = None THEN Unused(i) ELSE i = tmp
         /\ tmp' = i
         /\ contents' = [contents EXCEPT ![i] = Partial]
    /\ Goto(c, "write")
    /\ UNCHANGED <<json, lock, txn, fd, mem>>

Write(c) ==
    /\ pc[c] = "write" /\ tmp # None
    /\ contents' = [contents EXCEPT ![tmp] = mem[c]]
    /\ Goto(c, "replace")
    /\ UNCHANGED <<json, tmp, lock, txn, fd, mem>>

\* os.replace.
Replace(c) ==
    /\ pc[c] = "replace" /\ tmp # None
    /\ json' = tmp /\ tmp' = None
    /\ Goto(c, "unlock")
    /\ UNCHANGED <<contents, lock, txn, fd, mem>>

\* An OSError, as from a full disk, anywhere in _write_unlocked.
WriteFails(c) ==
    /\ pc[c] \in Writing
    /\ Goto(c, "unlock")
    /\ UNCHANGED <<fileVars, lock, txn, fd, mem>>

\* The end of the `with`, by return or by exception.
Unlock(c) ==
    /\ pc[c] = "unlock"
    /\ lock' = IF lock = c THEN None ELSE lock
    /\ Goto(c, "done")
    /\ UNCHANGED <<fileVars, txn, fd, mem>>

Return(c) ==
    /\ pc[c] = "done"
    /\ Goto(c, "idle")
    /\ mem' = [mem EXCEPT ![c] = None]
    /\ UNCHANGED <<fileVars, lock, txn, fd>>

\* The command is killed: the kernel closes its files and drops its flock.
Crash(c) ==
    /\ pc[c] # "idle"
    /\ Goto(c, "idle")
    /\ lock' = IF lock = c THEN None ELSE lock
    /\ fd' = [fd EXCEPT ![c] = None]
    /\ mem' = [mem EXCEPT ![c] = None]
    /\ UNCHANGED <<fileVars, txn>>

Init ==
    /\ json = None /\ tmp = None
    /\ contents = [i \in Inodes |-> Partial]
    /\ lock = None
    /\ pc = [c \in Clients |-> "idle"]
    /\ txn = [c \in Clients |-> FALSE]
    /\ fd = [c \in Clients |-> None]
    /\ mem = [c \in Clients |-> None]

Step(c) ==
    \/ Lock(c) \/ Read(c)
    \/ NoFile(c) \/ FileExists(c) \/ Open(c) \/ Parse(c)
    \/ Modify(c) \/ Raise(c)
    \/ Create(c) \/ Write(c) \/ Replace(c) \/ WriteFails(c)
    \/ Unlock(c) \/ Return(c) \/ Crash(c)

Next == \E c \in Clients : Step(c)

Spec == Init /\ [][Next]_vars
-----------------------------------------------------------------------------
\* Every variable stays in its type: no parsed registry is less than one.
TypeOK ==
    /\ json \in Inodes \cup {None}
    /\ tmp \in Inodes \cup {None}
    /\ contents \in [Inodes -> Registry \cup {Partial}]
    /\ lock \in Clients \cup {None}
    /\ pc \in [Clients -> Places]
    /\ txn \in [Clients -> BOOLEAN]
    /\ fd \in [Clients -> Inodes \cup {None}]
    /\ mem \in [Clients -> Registry \cup {None}]

\* Nobody finds half a file: RegistryCorruptError does not come from tailctl's
\* own writers, whatever is killed and whoever reads without the lock.
NeverCorrupt ==
    \A c \in Clients : pc[c] = "parse" => contents[fd[c]] # Partial

\* The registry as the file system shows it.
Committed == IF json = None THEN Empty ELSE contents[json]

Owner == IF lock # None /\ pc[lock] \in {"body"} \cup Writing THEN lock ELSE None

Seen(c) ==
    IF txn[c] THEN None
    ELSE IF pc[c] = "parse" THEN contents[fd[c]]
    ELSE IF pc[c] = "done" THEN mem[c] ELSE None

Draft == IF Owner = None THEN None ELSE mem[Owner]

Atomic == INSTANCE AtomicRegistry
            WITH committed <- Committed,
                 owner     <- Owner,
                 draft     <- Draft,
                 seen      <- [c \in Clients |-> Seen(c)]

\* The file, the lock and the temporary file implement atomic transactions and
\* reads of one committed registry.
ImplementsAtomic == Atomic!Spec

\* No committed change is lost: what replaces a registry is one,
\* and was made from it.
NoLostUpdate ==
    [][Committed' # Committed =>
         /\ Committed' \in Registry
         /\ Committed'.generation = Committed.generation + 1]_vars
=============================================================================
