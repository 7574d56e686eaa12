SPECIFICATION FairAdmission
CONSTANTS
    Name = {n}
    Root = {r1, r2}
    Owner = {o1, o2}
    TransferId = {t1, t2}
    None = None
    Window = 1
    MaxClock = 2
    MaxOffers = 2
    MaxChanges = 1
INVARIANTS
    AdmissionTypeOK
    TablesAgree
    MembersOnly
PROPERTIES
    MovesByConsent
    TransfersOnce
    ProofsAreSpent
    SetFollowsTeam
