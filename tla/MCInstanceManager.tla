-------------------------- MODULE MCInstanceManager --------------------------
(***************************************************************************)
(* Small instances of InstanceManager for TLC.  c1 and c2 are the places   *)
(* commands come from, s1 and s2 two sessions, r1 the pid of a `tailctl    *)
(* run` command.                                                           *)
(***************************************************************************)
EXTENDS InstanceManager, TLC

CONSTANTS p1, p2, c1, c2, s1, s2, r1, d1, d2, d3, f1, f2, f3, t1, t2, e1, e2

\* Each client has an owner of its own.
OwnSessions == (c1 :> s1) @@ (c2 :> s2)
RunAndShell == (c1 :> r1) @@ (c2 :> s2)

\* The verbs that are started from each place.
UpDownAll   == (c1 :> {"up", "down"}) @@ (c2 :> {"up", "down", "fix", "reset"})
RunUpDown   == (c1 :> {"run"}) @@ (c2 :> {"up", "down", "shields"})
RunReap     == (c1 :> {"run"}) @@ (c2 :> {"up", "down", "reap", "fix"})
UpDownReap  == (c1 :> {"up", "down"}) @@ (c2 :> {"up", "reap"})

\* Port forwards of the profiles: none, or one or two of the first one.
NoForwards  == [p \in Profiles |-> 0]
OneForward  == [p \in Profiles |-> IF p = p1 THEN 1 ELSE 0]
TwoForwards == [p \in Profiles |-> IF p = p1 THEN 2 ELSE 0]

\* Processes are interchangeable; no property names one.
Symmetry == Permutations({d1, d2, d3}) \cup Permutations({f1, f2, f3})
                \cup Permutations({t1, t2})
=============================================================================
