------------------------------ MODULE ExitNode ------------------------------
(***************************************************************************)
(* _set_exit_node_with_retry and _discover_exit_node: `up` sets the exit   *)
(* node of the profile, looks once for a node of that name with another    *)
(* numeric suffix, and retries until the deadline while nodes come and go. *)
(*                                                                         *)
(* A host name is the sequence of the segments that "-" joins.             *)
(***************************************************************************)
EXTENDS Naturals, Sequences

CONSTANTS
    Commands,
    Hosts,      \* names a peer may have
    Numerals,   \* segments that match \d+, in the order sorted() gives them
    MaxChanges, \* bound: changes of the netmap
    None

VARIABLES
    netmap,      \* names of the peers that are online and offer an exit node
    configured,  \* profile.exit_node of each `up`, or None
    stage,       \* its place in the loop
    target,      \* the name it tries to set
    saw,         \* ghost: what its discovery saw; None if it saw nothing yet
    changes

IsNumeral(s) == \E i \in DOMAIN Numerals : Numerals[i] = s

\* re.sub(r"-\d+$", "", configured)
Base(name) ==
    IF Len(name) > 1 /\ IsNumeral(name[Len(name)])
    THEN SubSeq(name, 1, Len(name) - 1) ELSE name

\* re.escape(base) + r"(-\d+)?$"
IsVariant(base, host) ==
    host = base \/ \E i \in DOMAIN Numerals : host = Append(base, Numerals[i])

\* The order of strings among the variants of one base.
Before(base, g, h) ==
    \/ g = base
    \/ \E i, j \in DOMAIN Numerals :
         i <= j /\ g = Append(base, Numerals[i]) /\ h = Append(base, Numerals[j])

\* Mutant: any peer whose name starts with the base.
DiscoverPrefix(name, peers) ==
    LET same == {h \in peers : Head(h) = Head(name)}
    IN  IF name \in peers THEN name
        ELSE IF same = {} THEN None ELSE CHOOSE h \in same : TRUE

\* _discover_exit_node, once the status has been read.
Discover(name, peers) ==
    LET variants == {h \in peers : IsVariant(Base(name), h)}
    IN  IF name \in peers THEN name
        ELSE IF variants = {} THEN None
        ELSE CHOOSE h \in variants : \A g \in variants : Before(Base(name), h, g)
-----------------------------------------------------------------------------
ExitInit ==
    /\ netmap = {}
    /\ configured = [c \in Commands |-> None]
    /\ stage = [c \in Commands |-> "off"]
    /\ target = [c \in Commands |-> None]
    /\ saw = [c \in Commands |-> None]
    /\ changes = 0

\* up, with a profile that names an exit node.
Begin(c, name) ==
    /\ stage[c] = "off"
    /\ stage' = [stage EXCEPT ![c] = "set"]
    /\ configured' = [configured EXCEPT ![c] = name]
    /\ target' = [target EXCEPT ![c] = name]
    /\ UNCHANGED <<netmap, saw, changes>>

To(c, place) == stage' = [stage EXCEPT ![c] = place]

\* `tailscale set --exit-node` refuses a name that no peer offers, and may
\* fail for reasons of its own.
SetExitNode(c) ==
    /\ stage[c] \in {"set", "again"}
    /\ \/ target[c] \in netmap /\ To(c, "applied")
       \/ To(c, IF stage[c] = "set" THEN "look" ELSE "failed")
    /\ UNCHANGED <<netmap, configured, target, saw, changes>>

\* Mutant: the loop keeps the name of the profile.
LookOnly(c) ==
    /\ stage[c] = "look"
    /\ saw' = [saw EXCEPT ![c] = netmap]
    /\ To(c, "failed")
    /\ UNCHANGED <<netmap, configured, target, changes>>

\* The one discovery.  A name it finds is tried at once.
Look(c) ==
    /\ stage[c] = "look"
    /\ LET name == Discover(configured[c], netmap)
           new  == name # None /\ name # target[c]
       IN  /\ saw' = [saw EXCEPT ![c] = netmap]
           /\ target' = [target EXCEPT ![c] = IF new THEN name ELSE @]
           /\ To(c, IF new THEN "again" ELSE "failed")
    /\ UNCHANGED <<netmap, configured, changes>>

\* status failed: there is no other discovery.
LookFails(c) ==
    /\ stage[c] = "look"
    /\ To(c, "failed")
    /\ UNCHANGED <<netmap, configured, target, saw, changes>>

\* `tailscale` does not answer: TimeoutExpired is not among the errors that the
\* loop handles, and the command ends.
TimesOut(c) ==
    /\ stage[c] \in {"set", "look", "again"}
    /\ To(c, "timedOut")
    /\ UNCHANGED <<netmap, configured, target, saw, changes>>

\* Before the deadline it sleeps and tries again, after it it raises.
Retry(c) ==
    /\ stage[c] = "failed"
    /\ To(c, "again") \/ To(c, "refused")
    /\ UNCHANGED <<netmap, configured, target, saw, changes>>

\* Peers join, leave, and change what they offer: seen only by an `up` that
\* is in the loop.
ChangeNetmap ==
    /\ \E c \in Commands : stage[c] \in {"set", "look", "again", "failed"}
    /\ changes < MaxChanges /\ changes' = changes + 1
    /\ netmap' \in SUBSET Hosts \ {netmap}
    /\ UNCHANGED <<configured, stage, target, saw>>
=============================================================================
