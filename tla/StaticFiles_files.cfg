SPECIFICATION Spec
CONSTANTS
    None = None  Files = {f1}  Requests = {r1, r2}
    MaxVersions = 3  Length <- MCLength  Tag <- MCTag  Ranges <- MCRanges
    ChunkSize = 2
SYMMETRY Symmetry
INVARIANTS AnswersAreFresh AbortsOnlyAcrossReplacement
