SPECIFICATION FairSpec
CONSTANTS
    m1 = m1  m2 = m2  i1 = i1  i2 = i2  i3 = i3  i4 = i4
    secret = secret  tls = tls  service = service
    v1 = v1  v2 = v2  c1 = c1  c2 = c2
    apex = apex  www = www  shop = shop  name = name
    DefaultCert = DefaultCert  NoCert = NoCert  None = None
    ModuleObjects = {m1, m2}  Ingresses = {i1, i2, i3, i4}  NameOf <- Names
    ModuleSecrets = {secret}  Services = {service}  Secrets = {tls}
    Versions = {v1, v2}  Certificates = {c1, c2}  CertsOf <- Holds
    DomainNames = {apex, www, shop}  Domains <- Bears  Wildcards <- Wild
    Parent <- Above  Suffixes <- Ending  NameLen <- Lengths
    Specs <- Possible  Populations <- Together
    MaxChanges <- Changes
    Beginnings <- FirstSeen  FirstData <- First
INVARIANTS KubeTypeOK NoOrphan NotSleptThrough HandshakesCovered
PROPERTIES DeletionsComplete ModulesConverge RoutesConverge CertsConverge
\* The cluster may be empty.
CHECK_DEADLOCK FALSE
