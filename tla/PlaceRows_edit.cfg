SPECIFICATION Spec
CONSTANTS
    Upstream <- SmallUpstream
    Bodies <- SmallPatches
    Poster = Poster
    other = other
    Null = Null
INVARIANT SportOfSports
