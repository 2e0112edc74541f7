---------------------------- MODULE ProfilesYaml ----------------------------
(***************************************************************************)
(* profiles.yaml: what config.load accepts, and how `init`, `bootstrap`    *)
(* and an editor change it.  No lock protects the file, and write_text     *)
(* truncates it before it writes.                                          *)
(*                                                                         *)
(* A name is the sequence of the segments that "-" joins.  Of a profile's  *)
(* fields, the account, the exit node and the services of its port         *)
(* forwards are modelled; what load refuses in another field, it refuses   *)
(* as it does a bad service.                                               *)
(***************************************************************************)
EXTENDS Naturals, SequencesExt

CONSTANTS
    Commands,
    Bodies,        \* what a profile may say: [account, exit, services]
    EnvNames,      \* services that name an environment variable
    Falsy,         \* exit nodes that, unquoted, are no value in YAML: off, no, null, 0
    Requests,      \* what bootstrap is asked for: [name, body]
    AccountLists,  \* what `switch --list` may answer: [id, name, selected]
    Edits,         \* what the user may save
    Found,         \* what profiles.yaml may hold at first
    MaxEdits,      \* bound: saves by the user
    Absent, Unreadable, None

VARIABLES
    file,     \* contents of profiles.yaml
    step,     \* each command's place
    request,  \* what it was asked for: a request, or init's account list
    found,    \* what it read: bootstrap's `original`
    result,   \* what it reports
    profile,  \* the profile `up` has loaded
    raced,    \* was it killed, or did anyone else write the file while it ran?
    spoiled,  \* was any command that writes raced, or a bad file saved?
    edits

config == <<file, step, request, found, result, profile, raced, spoiled, edits>>

\* The text is a mapping with the keys that config.load requires.  tail: what
\* two-space text at the end of the file belongs to: "profiles"; something that
\* load ignores ("ignored": a key it does not know, `notes:`, or the body of a
\* profile indented by one); or nothing it may belong to ("closed").
Contents(f) ==
    /\ f \notin {Absent, Unreadable}
    /\ DOMAIN f = {"default", "profiles", "tail"}
    /\ f.tail \in {"profiles", "ignored", "closed"}

\* _parse_port_forwards does not raise.
PortForwardsSound(services) ==
    /\ IsInjective(services)
    /\ \A i \in DOMAIN services : services[i] \in EnvNames

\* The checks of each profile.  An exit_node that YAML reads as a value other
\* than a string (10, or true) is no name; one it reads as no value is None.
FieldsSound(f) ==
    \A n \in DOMAIN f.profiles :
        /\ f.profiles[n].exit = None \/ f.profiles[n].exit \in Seq(STRING)
        /\ PortForwardsSound(f.profiles[n].services)

\* config.load does not raise.
Loads(f) ==
    /\ Contents(f)
    /\ f.default \in DOMAIN f.profiles
    /\ FieldsSound(f)
    /\ \A m, n \in DOMAIN f.profiles :
         m # n => <<f.profiles[m].account, f.profiles[m].exit>>
                    # <<f.profiles[n].account, f.profiles[n].exit>>

\* A mapping with one key set.
With(profiles, name, body) ==
    [n \in DOMAIN profiles \cup {name} |->
       IF n = name THEN body ELSE profiles[n]]

\* What load makes of a body that the block spells without quotes: the exit
\* node `off` is none.
AsRead(body) == [body EXCEPT !.exit = IF @ \in Falsy THEN None ELSE @]

\* Mutant: of two equal keys the first counts.
AppendedFirstWins(f, r) ==
    IF ~Contents(f) \/ f.tail = "closed" THEN Unreadable
    ELSE IF f.tail = "ignored" THEN f
    ELSE [f EXCEPT !.profiles = @ @@ (r.name :> AsRead(r.body))]

\* The text with the new block at its end, as load reads it: the last of two
\* equal keys counts, and where the end of the file is ignored, so is the block.
Appended(f, r) ==
    IF ~Contents(f) \/ f.tail = "closed" THEN Unreadable
    ELSE IF f.tail = "ignored" THEN f
    ELSE [f EXCEPT !.profiles = With(@, r.name, AsRead(r.body))]

\* Mutant: a name that is taken is used all the same.
NameTaken(profiles, account) == account.name

\* The name init gives an account.
NameFor(profiles, account) ==
    IF account.name \in DOMAIN profiles
    THEN Append(account.name, account.id) ELSE account.name

\* Mutant: the id is lost.
BodyNoAccount(account) == [account |-> "", exit |-> None, services |-> << >>]

\* A scaffolded profile: all but the account is commented out.
BodyOf(account) == [account |-> account.id, exit |-> None, services |-> << >>]

\* One more profile; that of the selected account is the default.
AddAccount(f, account) ==
    LET name == NameFor(f.profiles, account)
    IN  [f EXCEPT !.profiles = With(@, name, BodyOf(account)),
                  !.default  = IF account.selected /\ @ = None THEN name ELSE @]

\* The loop of init: what it has of the file after each account.
Starter(accounts) ==
    LET f[i \in 0..Len(accounts)] ==
          IF i = 0 THEN [default |-> None, profiles |-> << >>, tail |-> "profiles"]
          ELSE AddAccount(f[i - 1], accounts[i])
    IN  f

\* What init writes: the first profile is the default if no account is selected.
Scaffold(accounts) ==
    LET f == Starter(accounts)[Len(accounts)]
    IN  IF f.default = None THEN [f EXCEPT !.default = accounts[1].name] ELSE f

\* A text is readable only as a mapping of names to bodies.
Text(f) ==
    \/ f \in {Absent, Unreadable}
    \/ Contents(f) /\ \A n \in DOMAIN f.profiles : f.profiles[n] \in Bodies

\* Texts and bodies are of their types, `switch --list` names no account twice, and
\* what init writes is readable.
ASSUME ConfigAssumption ==
    /\ \A f \in Found \cup Edits : Text(f)
    /\ \A r \in Requests : AsRead(r.body) \in Bodies
    /\ \A accounts \in AccountLists :
         /\ accounts \in Seq([id : STRING, name : Seq(STRING), selected : BOOLEAN])
         /\ IsInjective([i \in DOMAIN accounts |-> accounts[i].id])
         /\ \A i \in DOMAIN accounts :
              [account |-> accounts[i].id, exit |-> None, services |-> << >>] \in Bodies
         /\ accounts # << >> => Scaffold(accounts) # Unreadable
-----------------------------------------------------------------------------
ConfigInit ==
    /\ file \in Found
    /\ step = [c \in Commands |-> "idle"]
    /\ request = [c \in Commands |-> None]
    /\ found = [c \in Commands |-> None]
    /\ result = [c \in Commands |-> None]
    /\ profile = [c \in Commands |-> None]
    /\ raced = [c \in Commands |-> FALSE]
    /\ spoiled = FALSE
    /\ edits = 0

\* Places of a command that is going to change the file.
Writing == {"read", "truncate", "fill", "validate"}

\* c, or the user, writes the file under every other command.
WriteFile(c, f) ==
    LET under == {d \in Commands \ {c} : step[d] \in Writing}
    IN  /\ file' = f
        /\ raced' = [d \in Commands |->
                       raced[d] \/ d \in under \/ (d # c /\ step[d] = "up")]
        /\ spoiled' = (spoiled \/ under # {})

\* c is through with the file, and what it knew of it is gone.
Leave(c, place) ==
    /\ step' = [step EXCEPT ![c] = place]
    /\ request' = [request EXCEPT ![c] = None]
    /\ found' = [found EXCEPT ![c] = None]
Return(c) == Leave(c, "done")

Go(c, place) == step' = [step EXCEPT ![c] = place]
Report(c, what) == result' = [result EXCEPT ![c] = what]

\* _cmd_init, up to write_text.  The file may appear before it is written.
StartInit(c) ==
    /\ step[c] = "idle"
    /\ \E accounts \in AccountLists, force \in BOOLEAN :
         \/ /\ accounts = << >> \/ (file # Absent /\ ~force)
            /\ Return(c) /\ Report(c, "refused")
         \/ /\ accounts # << >> /\ (file = Absent \/ force)
            /\ Go(c, "truncate") /\ Report(c, "scaffolded")
            /\ request' = [request EXCEPT ![c] = accounts]
            /\ UNCHANGED found
    /\ UNCHANGED <<file, profile, raced, spoiled, edits>>

\* _cmd_bootstrap, up to the rendered block: load, the name, the account.
StartBootstrap(c) ==
    /\ step[c] = "idle"
    /\ \E r \in Requests, force \in BOOLEAN, discovered \in BOOLEAN :
         LET free == Loads(file) /\ (r.name \notin DOMAIN file.profiles \/ force)
         IN  \/ /\ ~free \/ ~discovered
                /\ Return(c) /\ Report(c, "refused")
             \/ /\ free /\ discovered
                /\ Go(c, "read")
                /\ request' = [request EXCEPT ![c] = r]
                /\ UNCHANGED <<found, result>>
    /\ UNCHANGED <<file, profile, raced, spoiled, edits>>

ReadOriginal(c) ==
    /\ step[c] = "read"
    /\ Go(c, "truncate")
    /\ found' = [found EXCEPT ![c] = file]
    /\ UNCHANGED <<file, request, result, profile, raced, spoiled, edits>>

\* write_text opens the file, which empties it, and then writes.
Truncate(c) ==
    /\ step[c] = "truncate"
    /\ Go(c, "fill")
    /\ WriteFile(c, Unreadable)
    /\ UNCHANGED <<request, found, result, profile, edits>>

FillScaffold(c) ==
    /\ step[c] = "fill" /\ result[c] = "scaffolded"
    /\ WriteFile(c, Scaffold(request[c]))
    /\ Return(c)
    /\ UNCHANGED <<result, profile, edits>>

FillAppended(c) ==
    /\ step[c] = "fill" /\ result[c] = None
    /\ WriteFile(c, Appended(found[c], request[c]))
    /\ Go(c, "validate")
    /\ UNCHANGED <<request, found, result, profile, edits>>

FillOriginal(c) ==
    /\ step[c] = "fill" /\ result[c] = "reverted"
    /\ WriteFile(c, found[c])
    /\ Return(c)
    /\ UNCHANGED <<result, profile, edits>>

\* --register goes on with `up`.
Accept(c) ==
    /\ step[c] = "validate" /\ Loads(file)
    /\ Report(c, "bootstrapped")
    /\ \/ Return(c)
       \/ Go(c, "up") /\ UNCHANGED <<request, found>>
    /\ UNCHANGED <<file, profile, raced, spoiled, edits>>

\* Mutant: the message only.
ReportOnly(c) ==
    /\ step[c] = "validate" /\ ~Loads(file)
    /\ Return(c) /\ Report(c, "reverted")
    /\ UNCHANGED <<file, profile, raced, spoiled, edits>>

RollBack(c) ==
    /\ step[c] = "validate" /\ ~Loads(file)
    /\ Go(c, "truncate") /\ Report(c, "reverted")
    /\ UNCHANGED <<file, request, found, profile, raced, spoiled, edits>>

\* Mutant: --register brings up the default.
OfferedDefault(c) ==
    IF ~Loads(file) THEN {}
    ELSE IF step[c] = "up" THEN {file.default}
    ELSE DOMAIN file.profiles

\* The profiles `up` can mean: any that loads, or the one just bootstrapped.
Offered(c) ==
    IF ~Loads(file) THEN {}
    ELSE IF step[c] = "up" THEN {request[c].name} \cap DOMAIN file.profiles
    ELSE DOMAIN file.profiles

\* _cmd_up loads profiles.yaml again, after --register too.  A profile with an
\* exit node whose instance is ready needs no more.
LoadForUp(c) ==
    /\ step[c] \in {"idle", "up"}
    /\ \/ /\ Offered(c) = {}
          /\ Return(c)
          /\ UNCHANGED profile
       \/ \E n \in Offered(c) :
            /\ profile' = [profile EXCEPT ![c] = file.profiles[n]]
            /\ \/ Return(c)
               \/ file.profiles[n].exit # None /\ Leave(c, "exit")
    /\ UNCHANGED <<file, result, raced, spoiled, edits>>

Kill(c) ==
    /\ step[c] \notin {"idle", "done"}
    /\ Return(c)
    /\ spoiled' = (spoiled \/ step[c] \in Writing)
    /\ raced' = [raced EXCEPT ![c] = TRUE]
    /\ UNCHANGED <<file, result, profile, edits>>

\* The user saves another file from an editor.
Save ==
    /\ edits < MaxEdits /\ edits' = edits + 1
    /\ \E f \in Edits :
         /\ file' = f
         /\ raced' = [c \in Commands |->
                        raced[c] \/ step[c] \in Writing \cup {"up"}]
         /\ spoiled' = (\/ spoiled \/ ~Loads(f)
                        \/ \E c \in Commands : step[c] \in Writing)
    /\ UNCHANGED <<step, request, found, result, profile>>
=============================================================================
