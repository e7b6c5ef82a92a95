SPECIFICATION Spec
CONSTANTS
  u1 = u1
  u2 = u2
  u3 = u3
  admins = admins
  helpdesk = helpdesk
  staff = staff
  f1 = f1
  f2 = f2
  Users <- MCUsers
  Privileged = {u1}
  Groups = {admins, helpdesk, staff}
  AdminGroups = {admins, helpdesk}
  Members <- MCMembers
  Limited = TRUE
  Factors = {f1, f2}
  Enrolled <- MCEnrolled
  Active = {f1}
  Listing = Listing
  NoFactor = NoFactor
  NotCollected = NotCollected
INVARIANT FactorRowsAreWhole
INVARIANT CountsAreOktas
