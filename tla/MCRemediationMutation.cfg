SPECIFICATION Spec
CONSTANTS
  Proposals = {p1}
  Users = {member, admin}
  Admins = {admin}
  Clients = {c1, c2}
  MaxVersion = 2
  MaxTrail = 2
  None = None
PROPERTIES
  MutationInvalidates
