SPECIFICATION Spec
CONSTANTS
    h1 = h1  h2 = h2  i1 = i1  i2 = i2  m1 = m1  m2 = m2
    light = light  heavy = heavy  b1 = b1  b2 = b2  a = a  b = b  slash = slash
    Slash = slash  Characters = {a, b, slash}
    NoBackend = NoBackend  Absent = Absent
    Weight <- Weights  HashOrder <- ScanOrder
    Hosts = {h1, h2}  Ingresses = {i1, i2}  Modules = {m1, m2}  Definitions = {light, heavy}
    exacts = exacts  mixed = mixed
    DeclaredPaths = {exacts, mixed}  PathsOf <- Declared
    RequestPaths <- Asked  Backends = {b1, b2}
    Rules <- TwoRules  IngressConfigs <- AllConfigs  MaxEntries = 2
INVARIANTS TypeOK NoOrphanRoutes AnswersAreOwed
PROPERTIES RoutesChangeOnPurpose ReloadIsComplete

