-------------------------------- MODULE MCQuery --------------------------------
(* Instances of Query for TLC: four nodes, of which the nearest and the third are in
   the routing table; the walk starts from the table, from seeds or from a bootstrap
   address. *)
EXTENDS Query

TableList == <<1, 3>>
SeedLists == {<<>>, <<2>>, <<4, 3, 2>>}
BootLists == {<<>>, <<4>>}
================================================================================
