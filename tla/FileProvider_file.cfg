SPECIFICATION ProviderSpec
CONSTANTS
    h1 = h1  i1 = i1  i2 = i2  m1 = m1
    light = light  heavy = heavy  b1 = b1  b2 = b2  a = a  slash = slash
    Slash = slash  Characters = {a, slash}
    NoBackend = NoBackend  Absent = Absent
    Weight <- Weights  HashOrder <- ScanOrder
    Hosts = {h1}  Ingresses = {i1, i2}  Modules = {m1}  Definitions = {light, heavy}
    exacts = exacts  all = all
    DeclaredPaths = {exacts, all}  PathsOf <- Declared
    RequestPaths <- Asked  Backends = {b1, b2}
    Rules <- Listed  IngressConfigs <- Configs  MaxEntries = 8
    Contents <- Files  Broken = Broken  Missing = Missing
    Capacity = 1  MaxChanges = 3
PROPERTIES FileComesIntoForce SecondLoadRepairs
\* The provider may be stopped, and waits for ever if the file is left alone.
CHECK_DEADLOCK FALSE
