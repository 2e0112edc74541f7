---------------------------- MODULE MCOnboarding ----------------------------
(***************************************************************************)
(* A small instance of Onboarding: names, requests and account lists in    *)
(* which the collisions of the code happen.                                *)
(***************************************************************************)
EXTENDS Onboarding

CONSTANT NotAName   \* an exit_node that YAML reads as a number

\* The commands are interchangeable.
Symmetric == Permutations(Commands)

\* "gw-10", "gw-2" and "gw-lab": for "gw" two variants, for "gw-2" itself or one.
gw == <<"gw">>
MCNumerals == <<"10", "2">>
MCHosts == {Append(gw, "10"), Append(gw, "2"), Append(gw, "lab")}

\* Profiles: two accounts, with or without an exit node, one that load refuses.
Body(account, exit, services) ==
    [account |-> account, exit |-> exit, services |-> services]
MCBodies == {Body(a, x, s) : a \in {"a1", "a2", "a3"},
                             x \in {None, NotAName, gw, Append(gw, "2")},
                             s \in {<< >>, <<"db">>, <<"db", "db">>}}

off == <<"off">>
MCFalsy == {off}

corp == <<"corp">>
corpA2 == <<"corp", "a2">>
lab == <<"lab">>

\* A new profile; another exit node for a name that is taken, or that init gives;
\* an exit node that is read as none, which is a duplicate until that is done; and
\* one that load refuses for two reasons.
MCRequests ==
    {[name |-> lab, body |-> Body("a2", Append(gw, "2"), <<"db">>)],
     [name |-> corp, body |-> Body("a1", gw, << >>)],
     [name |-> lab, body |-> Body("a1", off, << >>)],
     [name |-> lab, body |-> Body("a3", NotAName, <<"db", "db">>)]}

Account(id, name, selected) == [id |-> id, name |-> name, selected |-> selected]

\* Nobody signed in; two accounts of one tailnet; and a tailnet whose name is
\* another's with an id appended.
MCAccountLists ==
    {<< >>,
     <<Account("a1", corp, TRUE), Account("a2", corp, FALSE)>>,
     <<Account("a3", corpA2, FALSE), Account("a1", corp, FALSE),
       Account("a2", corp, TRUE)>>}

File(profiles, tail) ==
    [default |-> corp, profiles |-> profiles, tail |-> tail]
One  == corp :> Body("a1", None, << >>)

MCFound == {Absent} \cup
           {File(One, tail) : tail \in {"profiles", "ignored", "closed"}}
\* A file that loads, and one that names a profile that is gone.
MCEdits == {File((lab :> Body("a2", gw, << >>)) @@ One, "profiles"),
            File(lab :> Body("a2", gw, << >>), "profiles")}
=============================================================================
