\* Any sequence of calls on a database of five handles
SPECIFICATION Spec
CONSTANTS
    MaxHandle = 5
    Uuids <- MCUuids
    Places = {4}
    MaxNum = 5
    None = None
INVARIANT TypeOK
INVARIANT HandlesAscend
INVARIANT FoundAgain
INVARIANT DeclarationsMatch
