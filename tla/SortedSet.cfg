SPECIFICATION Spec
CONSTANTS
    Members = {1, 2}
    Scores <- MCScores
    Places <- MCPlaces
INVARIANTS TreeFollowsMembers RankMatchesRange GeoposIsWhereAdded
