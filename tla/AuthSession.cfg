SPECIFICATION Spec
CONSTANTS
    OldRoles = user
    NewRoles = admin
    AccessTtl = 2
    RefreshTtl = 3
    MaxNow = 3
    MaxLogins = 2
    MaxFaults = 1
    MaxPending = 2
INVARIANTS
    TypeOK
    LogoutIsFinal
    SessionIsExtendable
    RolesAreRecent
PROPERTY SessionEndIsTold
