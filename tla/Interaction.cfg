SPECIFICATION Spec
CONSTANTS
    Characters = {me, other}
    LocalChar = me
    Tables = {t1, t2}
    Others = {painter}
    NoActor = NoActor
    NoChar = NoChar
INVARIANTS
    CurrentIsOverlapped
    NeverLockedOut
PROPERTIES
    OnlyStarterEnds
