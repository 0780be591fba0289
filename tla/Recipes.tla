------------------------------ MODULE Recipes --------------------------------
(***************************************************************************)
(* The recipe manager: a list of recipes in memory, each with an id that   *)
(* identifies it to the user, and a file that is read at the start and on  *)
(* request and written on request and at the end.  A recipe is its id.     *)
(* The program may be killed between two commands and started again; a     *)
(* kill in the middle of a save, after which the next start reads          *)
(* uninitialized counts, is not modelled.                                  *)
(***************************************************************************)
EXTENDS Integers, Sequences

CONSTANTS
  MaxRecipeId,    \* bound: ids ever given
  MaxListed       \* bound: recipes in the list

ASSUME RecipeAssumption == MaxRecipeId \in Nat /\ MaxListed \in Nat

VARIABLES
  recipes,        \* the list, in the order of insertion
  next_id,        \* the id of the next recipe
  recipes_dat,    \* the file: written at all, next_id and the recipes
  cooking,        \* "menu", or "exited"
  staleIds        \* history: next_id was replaced while the list was kept

recipeVars == <<recipes, next_id, recipes_dat, cooking, staleIds>>
-----------------------------------------------------------------------------
RecipeInit ==
  /\ recipes = <<>> /\ next_id = 1 /\ cooking = "menu" /\ staleIds = FALSE
  /\ recipes_dat = [written |-> FALSE, next_id |-> 1, list |-> <<>>]

(* add_new_recipe with create_recipe, add_ingredient and add_step: what    *)
(* the user types, up to the limits, then the end of the list.             *)
create_recipe(n) == [k \in 1 .. n |-> next_id + k - 1]
add_recipe_to_list(list, new) == list \o new
AddRecipes(n) ==
  /\ cooking = "menu" /\ next_id + n <= MaxRecipeId + 1 /\ Len(recipes) + n <= MaxListed
  /\ recipes' = add_recipe_to_list(recipes, create_recipe(n))
  /\ next_id' = next_id + n
  /\ UNCHANGED <<recipes_dat, cooking, staleIds>>
add_new_recipe == AddRecipes(1)
(* Three, less those for which there is no memory. *)
add_sample_recipes == \E n \in 1 .. 3 : AddRecipes(n)

(* The first recipe with this id. *)
WithoutFirst(list, id) ==
  LET at == CHOOSE k \in DOMAIN list : list[k] = id /\ \A j \in 1 .. k - 1 : list[j] # id
  IN [k \in 1 .. Len(list) - 1 |-> IF k < at THEN list[k] ELSE list[k + 1]]
delete_recipe_by_id ==
  /\ cooking = "menu"
  /\ \E k \in DOMAIN recipes : recipes' = WithoutFirst(recipes, recipes[k])
  /\ UNCHANGED <<next_id, recipes_dat, cooking, staleIds>>

SaveCount(list) == [written |-> TRUE, next_id |-> Len(list) + 1, list |-> list]
Saved(list) == [written |-> TRUE, next_id |-> next_id, list |-> list]
save_recipes_to_file ==
  /\ cooking = "menu"
  /\ recipes_dat' = Saved(recipes)
  /\ UNCHANGED <<recipes, next_id, cooking, staleIds>>

(* What a load returns: the recipes of the file up to the first for which  *)
(* there is no memory.                                                     *)
load_recipes_from_file == {SubSeq(recipes_dat.list, 1, k) : k \in 0 .. Len(recipes_dat.list)}

(* Command 7: next_id is the one of the file even if the load returns NULL *)
(* and the list in memory stays.                                           *)
Reload ==
  /\ cooking = "menu" /\ recipes_dat.written
  /\ next_id' = recipes_dat.next_id
  /\ \E new \in load_recipes_from_file :
       /\ recipes' = IF new = <<>> THEN recipes ELSE new
       /\ staleIds' = (staleIds \/ (new = <<>> /\ recipes # <<>>))
  /\ UNCHANGED <<recipes_dat, cooking>>

(* Command 0 saves a list that is not empty, if the user agrees; a killed  *)
(* program saves nothing.                                                  *)
Exit ==
  /\ cooking = "menu" /\ cooking' = "exited"
  /\ \/ UNCHANGED recipes_dat
     \/ recipes # <<>> /\ recipes_dat' = Saved(recipes)
  /\ recipes' = <<>>
  /\ UNCHANGED <<next_id, staleIds>>

Start ==
  /\ cooking = "exited" /\ cooking' = "menu"
  /\ next_id' = IF recipes_dat.written THEN recipes_dat.next_id ELSE 1
  /\ recipes' \in load_recipes_from_file
  /\ UNCHANGED <<recipes_dat, staleIds>>

RecipeNext ==
  \/ add_new_recipe \/ add_sample_recipes \/ delete_recipe_by_id
  \/ save_recipes_to_file \/ Reload \/ Exit \/ Start

RecipeSpec == RecipeInit /\ [][RecipeNext]_recipeVars
-----------------------------------------------------------------------------
RecipeIds == 1 .. MaxRecipeId
RecipeTypeOK ==
  /\ recipes \in Seq(RecipeIds) /\ next_id \in 1 .. MaxRecipeId + 1
  /\ recipes_dat \in [written : BOOLEAN, next_id : 1 .. MaxRecipeId + 1, list : Seq(RecipeIds)]
  /\ cooking \in {"menu", "exited"} /\ staleIds \in BOOLEAN

Distinct(list) == \A j, k \in DOMAIN list : j # k => list[j] # list[k]

(* find_recipe_by_id and delete_recipe_by_id rely on it: through adds,     *)
(* deletions, saves, loads and restarts no two recipes of the list or of   *)
(* the file share an id, and no id of theirs is given again.  This fails   *)
(* only after command 7 met a file without recipes, or no memory, while    *)
(* the list held some: the list stays and next_id goes back.               *)
IdsAreUnique ==
  /\ RecipeTypeOK
  /\ ~staleIds =>
       /\ Distinct(recipes) /\ \A k \in DOMAIN recipes : recipes[k] < next_id
       /\ Distinct(recipes_dat.list) /\ \A k \in DOMAIN recipes_dat.list : recipes_dat.list[k] < recipes_dat.next_id
=============================================================================
