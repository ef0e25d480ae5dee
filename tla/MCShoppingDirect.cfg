\* shopping.c's DIRECT build, cart.subtotal1 += price: two lovers' loads
\* of the subtotal can meet, and one add is lost.
CONSTANTS
  BUILD = "direct"
  Lovers = {1, 2}
  Model <- MCModel
  Budget <- MCBudget
SPECIFICATION Spec
INVARIANT SubtotalIsSumOfPurchases
