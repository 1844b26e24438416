\* Three workers patch the budgets of two projects.
CONSTANTS
  Projects = {p1, p2}
  Users = {ann, boss}
  Admins = {boss}
  Requests = {r1, r2, r3}
  Budgets = {low, high}
  NoBudget = NoBudget
  Nobody = Nobody
  None = None
SPECIFICATION Spec
PROPERTY BudgetLinearizable
SYMMETRY BudgetSymmetry
