--------------------------- MODULE MCRecipeRepair ---------------------------
(* RecipeRepair for TLC: runs are model values.                            *)
EXTENDS RecipeRepair
=============================================================================
