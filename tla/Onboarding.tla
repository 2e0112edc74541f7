----------------------------- MODULE Onboarding -----------------------------
(***************************************************************************)
(* From profiles.yaml to the exit node: `init`, `bootstrap` and `up` run   *)
(* side by side on one file, the user edits it, and an `up` takes the exit *)
(* node of the profile it has loaded to the daemon.                        *)
(***************************************************************************)
EXTENDS ProfilesYaml

CONSTANTS
    Hosts, Numerals, MaxChanges,   \* of ExitNode
    MaxLoops                       \* bound: commands that come to the exit node
VARIABLES netmap, configured, stage, target, saw, changes

INSTANCE ExitNode

\* Host names are names, and their segments strings; None is neither a name nor
\* a report.
ASSUME NamesAssumption ==
    /\ \A h \in Hosts : h \in Seq(STRING) /\ h # None
    /\ Numerals \in Seq(STRING)
    /\ None # "scaffolded"

exitNode == <<netmap, configured, stage, target, saw, changes>>
vars == <<config, exitNode>>

Init == ConfigInit /\ ExitInit

\* Two commands in that loop share nothing but the netmap.
Loops == {c \in Commands : stage[c] # "off"}

Up(c) ==
    /\ LoadForUp(c)
    /\ \/ step'[c] = "done" /\ UNCHANGED exitNode
       \/ /\ step'[c] = "exit" /\ Cardinality(Loops) < MaxLoops
          /\ Begin(c, profile'[c].exit)

ChangeFile(c) ==
    /\ \/ StartInit(c) \/ StartBootstrap(c) \/ ReadOriginal(c) \/ Truncate(c)
       \/ FillScaffold(c) \/ FillAppended(c) \/ FillOriginal(c)
       \/ Accept(c) \/ RollBack(c) \/ Kill(c)
    /\ UNCHANGED exitNode

ApplyExitNode(c) ==
    /\ step[c] = "exit"
    /\ SetExitNode(c) \/ Look(c) \/ LookFails(c) \/ Retry(c) \/ TimesOut(c)
    /\ UNCHANGED config

Next ==
    \/ \E c \in Commands : Up(c) \/ ChangeFile(c) \/ ApplyExitNode(c)
    \/ Save /\ UNCHANGED exitNode
    \/ ChangeNetmap /\ UNCHANGED config

Spec == Init /\ [][Next]_vars
-----------------------------------------------------------------------------
\* Every variable keeps its range; a file that holds profiles is a mapping of
\* names to bodies with a default.
TypeOK ==
    /\ Text(file)
    /\ step \in [Commands -> Writing \cup {"idle", "up", "exit", "done"}]
    /\ result \in [Commands -> {None, "refused", "scaffolded", "bootstrapped",
                                "reverted"}]
    /\ netmap \subseteq Hosts
    /\ stage \in [Commands -> {"off", "set", "look", "again", "failed",
                               "applied", "refused", "timedOut"}]
    /\ \A c \in Commands : step[c] = "exit" => stage[c] # "off"

\* A command leaves its part of the file behind it.
Finishes(c) == step[c] \in Writing /\ step'[c] \in {"done", "up"} /\ ~raced'[c]

\* f with the block r in it, as load reads it, and nothing else changed, is g.
Extends(f, r, g) ==
    LET rest == DOMAIN f.profiles \ {r.name}
    IN  /\ g.default = f.default
        /\ g.profiles[r.name] = AsRead(r.body)
        /\ DOMAIN g.profiles = rest \cup {r.name}
        /\ \A n \in rest : g.profiles[n] = f.profiles[n]

AllOrNothing(c) ==
    Finishes(c) /\ found[c] # None =>
      \/ /\ result'[c] = "bootstrapped" /\ Loads(file')
         /\ IF found[c].tail = "ignored" THEN file' = found[c]
            ELSE Extends(found[c], request[c], file')
      \/ result'[c] = "reverted" /\ file' = found[c]

\* "appended profile did not validate; reverted" (_cmd_bootstrap): when nobody
\* else writes profiles.yaml meanwhile, bootstrap either adds its block to a
\* file that loads, leaving the other profiles as they are, or leaves what load
\* reads as it found it: when the block was refused, and also, though it reports
\* success, when the file ends in something that load ignores.
BootstrapIsAtomic == [][\A c \in Commands : AllOrNothing(c)]_vars

\* No sequence of commands, one at a time, leaves a file that `up` refuses,
\* if each was let to finish and the user saved none.
FileLoads ==
    (~spoiled /\ \A c \in Commands : step[c] \notin Writing)
        => file = Absent \/ Loads(file)

\* "one entry per signed-in account" (_cmd_init), but for an account whose name
\* is another's with its id appended.
InitKeepsAccounts ==
    [][\A c \in Commands :
         Finishes(c) /\ result'[c] = "scaffolded" =>
           \/ \A i \in DOMAIN request[c] :
                \E n \in DOMAIN file'.profiles :
                  file'.profiles[n].account = request[c][i].id
           \/ \E i, j \in DOMAIN request[c] :
                request[c][i].name
                  = Append(request[c][j].name, request[c][j].id)]_vars

\* `up` has found r's profile in f, or has found none of that name.
LoadsFrom(c, f, r) ==
    IF r.name \in DOMAIN f.profiles THEN profile'[c] = f.profiles[r.name]
    ELSE profile'[c] = None

\* `bootstrap --register` brings up the profile it has just written, unless
\* somebody has changed the file since; when the block went where load ignores
\* it, the one of that name from before, or none.
RegistersWhatItWrote ==
    [][\A c \in Commands :
         step[c] = "up" /\ step'[c] # "up" /\ ~raced'[c] =>
           IF found[c].tail = "ignored" THEN LoadsFrom(c, found[c], request[c])
           ELSE profile'[c] = AsRead(request[c].body)]_vars

\* Two names that differ in a numeric suffix at most.
SameButSuffix(g, h) ==
    \E n \in {g, h} \cup {SubSeq(g, 1, Len(g) - 1), SubSeq(h, 1, Len(h) - 1)} :
        {g, h} \subseteq {n} \cup {Append(n, Numerals[i]) : i \in DOMAIN Numerals}

\* "NOT an arbitrary prefix" (_discover_exit_node): traffic leaves through the
\* node the loaded profile names, or, if that one was not there when `up`
\* looked, through one that was and differs from it in a numeric suffix.
EgressIsConfigured ==
    \A c \in Commands :
        stage[c] = "applied" =>
            \/ target[c] = profile[c].exit
            \/ /\ target[c] \in saw[c] /\ profile[c].exit \notin saw[c]
               /\ SameButSuffix(target[c], profile[c].exit)

\* "auto-discovering the advertising node by suffix-variant": `up` refuses
\* under the configured name only if that node, or none that differs from it in
\* the suffix, was there when it looked, or the status could not be read.
RefusedUnseen ==
    \A c \in Commands :
        stage[c] = "refused" /\ target[c] = profile[c].exit /\ saw[c] # None =>
            \/ profile[c].exit \in saw[c]
            \/ \A h \in saw[c] : Base(h) # Base(profile[c].exit)
=============================================================================
