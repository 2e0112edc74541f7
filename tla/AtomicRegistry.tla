--------------------------- MODULE AtomicRegistry ---------------------------
(***************************************************************************)
(* What registry.py promises its callers, without files: transactions that *)
(* exclude each other and change the registry in one step or not at all,   *)
(* and reads that take no lock and see one committed registry.             *)
(***************************************************************************)
EXTENDS Naturals

CONSTANTS Clients, Rows, NoInstances, None

VARIABLES
    committed,   \* the registry
    owner,       \* the command inside transaction(), or None
    draft,       \* the Registry object that command is changing, or None
    seen         \* what each command's read() is about to return, or None

vars == <<committed, owner, draft, seen>>

Registry == [generation : Nat, rows : Rows]
Empty    == [generation |-> 0, rows |-> NoInstances]

Init ==
    /\ committed = Empty
    /\ owner = None /\ draft = None
    /\ seen = [c \in Clients |-> None]

Begin(c) ==
    /\ owner = None
    /\ owner' = c /\ draft' = committed
    /\ UNCHANGED <<committed, seen>>

\* The body of the `with` has run: new rows, and the next generation.
Edit(c) ==
    /\ owner = c
    /\ \E r \in Rows :
         draft' = [generation |-> committed.generation + 1, rows |-> r]
    /\ UNCHANGED <<committed, owner, seen>>

Commit(c) ==
    /\ owner = c /\ draft.generation = committed.generation + 1
    /\ committed' = draft
    /\ owner' = None /\ draft' = None
    /\ UNCHANGED seen

\* The body or the write raises, or the command is killed.
Abandon(c) ==
    /\ owner = c
    /\ owner' = None /\ draft' = None
    /\ UNCHANGED <<committed, seen>>

Look(c) ==
    /\ seen' = [seen EXCEPT ![c] = committed]
    /\ UNCHANGED <<committed, owner, draft>>

Forget(c) ==
    /\ seen' = [seen EXCEPT ![c] = None]
    /\ UNCHANGED <<committed, owner, draft>>

Next == \E c \in Clients : \/ Begin(c) \/ Edit(c) \/ Commit(c) \/ Abandon(c)
                           \/ Look(c) \/ Forget(c)

Spec == Init /\ [][Next]_vars
=============================================================================
