SPECIFICATION Spec
CONSTANTS
    p1 = p1  p2 = p2  c1 = c1  c2 = c2  s1 = s1  s2 = s2  r1 = r1
    d1 = d1  d2 = d2  d3 = d3  f1 = f1  f2 = f2  f3 = f3  t1 = t1  t2 = t2
    e1 = e1  e2 = e2  None = None
    Profiles = {p1, p2}
    Clients = {c1, c2}
    SelfOwned = {c1}
    Owners = {r1, s2}
    CreateTimes = {t1}
    Daemons = {d1, d2, d3}
    Forwarders = {f1, f2, f3}
    Nodes = {}
    Keyed = {p2}
    Linger = FALSE
    Mortal = {}
    Events = {"loginLost", "noPort", "shieldsDrop"}
    OwnerOf <- RunAndShell
    Commands <- RunUpDown
    PortForwards <- TwoForwards
SYMMETRY Symmetry
INVARIANTS
    ReadyKeepsInstance
PROPERTIES
    RelaysKept
