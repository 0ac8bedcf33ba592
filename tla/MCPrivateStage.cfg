CONSTANTS
    Stages = {dev, prod}
    Versions = {1, 2}
    Names = {1, 2}
    Fits <- SharedName
    Contents = {c1, c2}
    Metas = {any}
    MaxResults = 1
    MaxLinks = 4
SYMMETRY Interchangeable
SPECIFICATION Spec
INVARIANTS VersionsAgree FilesAreLinked ResultsHaveFile SimpleLinksComplete ImportRestores
PROPERTY NonVolatileKeeps
