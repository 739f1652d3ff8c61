CONSTANTS
    route1 = route1
    route2 = route2
    type1 = type1
    type2 = type2
    scope1 = scope1
    scope2 = scope2
    star1 = star1
    p1 = p1
    p2 = p2
    Routes = {route1}
    Types = {type1}
    Scopes = {scope1}
    Patterns = {star1}
    StarMatch <- MCStarMatch
    AnyScope = AnyScope
    Publishers = {p1, p2}
    Persists = {1, 2, 3}
    MaxPersist = 2
    MaxEvents = 3
SPECIFICATION HistorySpec
SYMMETRY Symmetry
INVARIANTS LastSubscriptionDecides HistoryIsNewest NoEventMissed
CHECK_DEADLOCK FALSE
