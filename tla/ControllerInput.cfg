SPECIFICATION InputSpec
CONSTANTS
    a = a
    t = t
    s = s
    v1 = v1
    v2 = v2
    NoView = NoView
    Controls = {a, t, s}
    Sticks = {s}
    Views = {v1, v2}
    Starts <- StartsOf
    May <- CallsOf
    Role <- RoleOf
    DefaultMode <- ModeOf
    Opener = t
    Capacity = 2
    MaxEvents = 2
    Mixes <- MixesOf
INVARIANTS
    GamePaired
    PressIsFresh
    PageFollowsOwner
    NothingOfDeadViews
CHECK_DEADLOCK FALSE
