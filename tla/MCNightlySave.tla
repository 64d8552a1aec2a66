--------------------------- MODULE MCNightlySave ---------------------------
EXTENDS NightlySave

(* An empty table, or one with a destination in it. *)
NoneOrOne == {<<>>, <<"a">>}
============================================================================
