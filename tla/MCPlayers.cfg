CONSTANTS
    Players = {a, b, c}
    Parties = {P, Q}
    None = None
    Slots = {private}
    Normals = {help}
    Guilds = {guild}
    guildIn <- OneGuild
    Levels = {1, 2}
    Places = {here, there}
    Home = here
    s1 = s1
    s2 = s2
    f1 = f1
    f2 = f2
    d = d
    Tiles = {1, 2, 3}
    Crowded = {2}
    Sight = 1
    Viewers = {v, g}
    Sensing = {g}
    Exact = {g}
    Beasts = {m}
    TopItems = {s1, s2}
    DownItems = {f1, f2, d}
    order <- SameOrder
    Splashes = {s1, s2}
    Fields = {f1, f2}
    Lasting = {f2}
    Limit = 3
SPECIFICATION MCSpec
SYMMETRY Interchangeable
CONSTRAINT OneParty
CHECK_DEADLOCK FALSE
INVARIANTS
    PartiesPaired
    ChannelReaders
    SharedExperienceCurrent
    ViewsExact
