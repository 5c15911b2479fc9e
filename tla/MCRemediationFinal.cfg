SPECIFICATION Spec
CONSTANTS
  Proposals = {p1}
  Users = {member, admin}
  Admins = {admin}
  Clients = {c1, c2}
  MaxVersion = 1
  MaxTrail = 3
  None = None
PROPERTIES
  NoApprovalOfFinal
