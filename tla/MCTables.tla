------------------------------ MODULE MCTables ------------------------------
(* The favorites and the offline cache's table on small instances.  The two   *)
(* models share no variable: one of them moves, the other stays where it      *)
(* began.                                                                     *)
EXTENDS Favorites, OfflineCache, TLC

CONSTANTS a, b, here, there

VARIABLE part   \* the one that moves

Sizes == a :> 1 @@ b :> 2
Owners == a :> here @@ b :> there

TablesInit == Init /\ CacheInit /\ part \in {"favorites", "cache"}
TablesNext ==
    \/ part = "favorites" /\ Next /\ UNCHANGED <<cacheVars, part>>
    \* With the bounds used up the favorites service rests.
    \/ part = "favorites" /\ UNCHANGED <<vars, cacheVars, part>>
    \/ part = "cache" /\ CacheNext /\ UNCHANGED <<vars, part>>
TablesSpec == TablesInit /\ [][TablesNext]_<<vars, cacheVars, part>>

Symmetry == Permutations(Togglers) \cup Permutations(Callers) \cup Permutations(Tasks)

TablesView == IF part = "favorites" THEN <<part, vars>> ELSE <<part, cacheVars>>
=============================================================================
