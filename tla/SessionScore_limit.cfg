SPECIFICATION FairSpec
CONSTANTS
    s1 = s1  s2 = s2  r1 = r1  r2 = r2  Absent = Absent
    Sessions = {s1}  Requests = {r1}  SessionOf <- OneSession
    MaxScore = 8  Threshold = 2  Credit = 2  Costs <- SmallCosts
    Ttl = 1  Capacity = 1  MaySolve = FALSE  MayExpire = FALSE
PROPERTIES LimitIsLifted
