SPECIFICATION Spec
CONSTANTS
    NoCursor = NoCursor
    Asset <- MCAsset
    Album = {1}
    Allowed = {1, 2, 3}
    MaxEvents = 5
INVARIANTS
    CursorStaysBehind
