SPECIFICATION Spec
CONSTANTS
    s1 = s1  home = home  page = page  favicon = favicon
    Sessions = {s1}  None = None
    StoreTtl = 2  RedisTtl = 4  MaxTtl = 2  MaxTime = 3
    Pages = {home, page}  Favicon = favicon
    SessionTtl = 3  FlowTtl = 1  EnableRefresh = TRUE  MaxFlows = 2
    Difficulty = 2  OneDay = 2  ChallengeTtl = 1  MaxScore = 100  Penalty = 100  MaxChallenges = 2
INVARIANTS LoginTypeOK
PROPERTIES PassesWereGranted LoginLasts NewestFlowCompletes
           PassesAreEarned OnlyZeroIsRefused
