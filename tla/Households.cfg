CONSTANTS
    User = {u1, u2}
    Invitation = {i1, i2}
    Inviter = {n1}
    Tab = {t1, t2}
    None = None
SPECIFICATION Spec
SYMMETRY Symmetry
INVARIANTS
    SessionInside
    MembersWereInvited
    
PROPERTIES
    InvitationsAreFinal
    RolesAreKept
CHECK_DEADLOCK FALSE
