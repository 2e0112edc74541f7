SPECIFICATION Spec
CONSTANTS
    p1 = p1  p2 = p2  c1 = c1  c2 = c2  s1 = s1  s2 = s2  r1 = r1
    d1 = d1  d2 = d2  d3 = d3  f1 = f1  f2 = f2  f3 = f3  t1 = t1  t2 = t2
    e1 = e1  e2 = e2  None = None
    Profiles = {p1}
    Clients = {c1, c2}
    SelfOwned = {c1}
    Owners = {r1, s2}
    CreateTimes = {t1, t2}
    Daemons = {d1, d2, d3}
    Forwarders = {f1, f2}
    Nodes = {e1}
    Keyed = {p1}
    Linger = TRUE
    Mortal = {c1, c2}
    Events = {"daemonDies", "cliError", "timeout", "noPort", "edit"}
    OwnerOf <- RunAndShell
    Commands <- RunReap
    PortForwards <- OneForward
SYMMETRY Symmetry
INVARIANTS
    SpawnSparesTracked
    TrackedIsReachable
PROPERTIES
    SpawnKilledByDeadRow
    HeldInstanceEnds
