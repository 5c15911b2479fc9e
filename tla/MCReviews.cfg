SPECIFICATION ReviewsSpec
CONSTANTS
  Proposals = {p1}
  Users = {member, admin}
  Admins = {admin}
  Clients = {c1, c2}
  MaxVersion = 3
  MaxTrail = 5
  None = None
  Shown = {1, 2}
  Own = {2}
  Role = "MEMBER"
  Filters = {"all", "open"}
  MaxLoads = 1
  MaxSent = 1
  MaxChanges = 1
  Nobody = Nobody
SYMMETRY Symmetry
INVARIANTS
  OneApprovalPerVersion
  StandingApproval
  TrailTellsStatus
  OfferedIsAccepted
CHECK_DEADLOCK FALSE
