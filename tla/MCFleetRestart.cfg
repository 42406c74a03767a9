CONSTANTS
  c1 = c1
  c2 = c2
  c3 = c3
  Cards = {c1, c2, c3}
  Nobody = Nobody
  Null = Null
  Machines <- MCMachines
  RackSlug <- MCRackSlug
SPECIFICATION Spec
INVARIANTS
  RestartsNotCounted
