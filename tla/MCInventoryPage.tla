--------------------------- MODULE MCInventoryPage ---------------------------
(* InventoryPage with two stock rows listed one per page.                  *)
EXTENDS InventoryPage

CONSTANTS e0, c1, inv, none

=============================================================================
