CONSTANTS
    u1 = u1  u2 = u2
    top = top  mid = mid  low = low  mirror = mirror
    Users = {u1, u2}
    StageNames = {top, mid, low, mirror}
    Owner <- OwnerOf
    Types <- TypesOf
    Settings <- SettingsOf
    MaxTurns = 16
SPECIFICATION IXSpec
INVARIANTS SroReaches MirrorsAsWhitelisted ImportsBasesFirst
