------------------------------- MODULE Channel -------------------------------
(***************************************************************************)
(* What a forwarded connection promises its two ends, without sockets or a *)
(* relay: two streams, one in each direction, that an end may finish while *)
(* it still receives.  An end is told that the other has finished only     *)
(* when it has everything the other sent, unless that stream was broken.   *)
(***************************************************************************)
EXTENDS Naturals

Ends == {"client", "remote"}
Other(e) == IF e = "client" THEN "remote" ELSE "client"

VARIABLES
    sent,    \* chunks each end has written
    fin,     \* has it finished writing?
    got,     \* chunks it has received
    told,    \* how its receiving side ended: "nothing" yet, "eof" or "reset"
    broken   \* the ends whose stream was cut

vars == <<sent, fin, got, told, broken>>

Init ==
    /\ sent = [e \in Ends |-> 0]
    /\ fin  = [e \in Ends |-> FALSE]
    /\ got  = [e \in Ends |-> 0]
    /\ told = [e \in Ends |-> "nothing"]
    /\ broken = {}

Send(e) ==
    /\ ~fin[e]
    /\ sent' = [sent EXCEPT ![e] = @ + 1]
    /\ UNCHANGED <<fin, got, told, broken>>

Finish(e) ==
    /\ fin' = [fin EXCEPT ![e] = TRUE]
    /\ UNCHANGED <<sent, got, told, broken>>

Deliver(e) ==
    /\ told[e] = "nothing" /\ got[e] < sent[Other(e)]
    /\ got' = [got EXCEPT ![e] = @ + 1]
    /\ UNCHANGED <<sent, fin, told, broken>>

Complete(e) == fin[e] /\ got[Other(e)] = sent[e]

End(e) ==
    /\ told[e] = "nothing"
    /\ Complete(Other(e)) \/ Other(e) \in broken
    /\ told' = [told EXCEPT ![e] = "eof"]
    /\ UNCHANGED <<sent, fin, got, broken>>

\* Nobody is told of a reset while both streams are whole.
Abort(e) ==
    /\ told[e] = "nothing" /\ broken # {}
    /\ told' = [told EXCEPT ![e] = "reset"]
    /\ UNCHANGED <<sent, fin, got, broken>>

Break ==
    /\ \E S \in SUBSET Ends : broken' = broken \cup S
    /\ UNCHANGED <<sent, fin, got, told>>

Next == \/ Break
        \/ \E e \in Ends : \/ Send(e) \/ Finish(e) \/ Deliver(e)
                           \/ End(e) \/ Abort(e)

Spec == Init /\ [][Next]_vars
=============================================================================
