------------------------------- MODULE Leases -------------------------------
(***************************************************************************)
(* What tailctl promises the sessions that use its instances, without      *)
(* daemons, locks or files.  A claim appears on a profile once for each    *)
(* `up` that asked for it, and only for the process that asked; it ends    *)
(* when its owner releases it or is gone, or when the instance is broken.  *)
(* What was released, or ended, does not come back.                        *)
(***************************************************************************)
CONSTANTS Profiles, Clients, Owners, CreateTimes

Claims == Owners \X CreateTimes

VARIABLES
    rows,      \* profiles with an instance, held or lingering
    held,      \* the claims on each profile
    asked,     \* the claim each client's `up` is to make, if any
    leaving,   \* the release each client's `down` is to make, if any
    present,   \* claims whose owner lives
    broken     \* instances whose daemon is gone

vars == <<rows, held, asked, leaving, present, broken>>

Init ==
    /\ rows = {} /\ broken = {}
    /\ held = [p \in Profiles |-> {}]
    /\ asked = [c \in Clients |-> {}]
    /\ leaving = [c \in Clients |-> {}]
    /\ present \subseteq Claims

Idle(c) == asked[c] = {} /\ leaving[c] = {}

Ask(c, p, h) ==
    /\ Idle(c)
    /\ asked' = [asked EXCEPT ![c] = {<<p, h>>}]
    /\ UNCHANGED <<rows, held, leaving>>

AskToLeave(c, p, o) ==
    /\ Idle(c)
    /\ leaving' = [leaving EXCEPT ![c] = {<<p, o>>}]
    /\ UNCHANGED <<rows, held, asked>>

\* The command fails, or is killed.
Withdraw(c) ==
    /\ asked' = [asked EXCEPT ![c] = {}]
    /\ leaving' = [leaving EXCEPT ![c] = {}]
    /\ UNCHANGED <<rows, held>>

\* An instance may lose the claims of owners that are gone, and end with them.
Tidied(p) ==
    \/ /\ p \in rows /\ p \in rows'
       /\ held'[p] \subseteq held[p]
       /\ (held[p] \ held'[p]) \cap present = {}
    \/ /\ p \notin rows' /\ held'[p] = {}
       /\ p \in broken \/ held[p] \cap present = {}

Tidy ==
    /\ \A p \in Profiles : Tidied(p)
    /\ UNCHANGED <<asked, leaving>>

\* An earlier claim of the same pid is replaced; one on a broken instance goes.
Grant(c, p, h) ==
    LET others == {g \in held[p] : g[1] # h[1]} IN
    /\ asked[c] = {<<p, h>>}
    /\ asked' = [asked EXCEPT ![c] = {}]
    /\ p \in rows' /\ h \in held'[p]
    /\ held'[p] \subseteq others \cup {h}
    /\ p \in broken \/ others \cap present \subseteq held'[p]
    /\ \A q \in Profiles \ {p} : Tidied(q)
    /\ UNCHANGED leaving

Release(c, p, o) ==
    /\ leaving[c] = {<<p, o>>}
    /\ leaving' = [leaving EXCEPT ![c] = {}]
    /\ held' = [held EXCEPT ![p] = {h \in @ : h[1] # o}]
    /\ rows' = rows \/ (rows' = rows \ {p} /\ held'[p] = {})
    /\ UNCHANGED asked

\* Owners come and go, and daemons are stopped; `present` and `broken` are what
\* every action may see changed, and only NoneReturns restricts that.
Host == UNCHANGED <<rows, held, asked, leaving>>

\* An owner that is gone is gone for good.
NoneReturns == \A p \in Profiles : held[p] \cap (present' \ present) = {}

Next ==
    /\ NoneReturns
    /\ \/ Tidy \/ Host
       \/ \E c \in Clients :
            \/ Withdraw(c)
            \/ \E p \in Profiles, h \in Claims : Ask(c, p, h) \/ Grant(c, p, h)
            \/ \E p \in Profiles, o \in Owners : AskToLeave(c, p, o) \/ Release(c, p, o)

Spec == Init /\ [][Next]_vars
=============================================================================
