SPECIFICATION Spec
CONSTANTS
  Parts = {"leases", "sleeping", "wedged", "queue", "maintenance", "bootstrap", "relay", "archive"}
  a = a
  b = b
  card = card
  Nothing = Nothing
  One = {a}
  Two = {a, b}
  OneCard = {card}
PROPERTIES BudgetComesBack RecoveriesEnd  
CHECK_DEADLOCK FALSE
