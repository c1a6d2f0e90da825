----------------------------- MODULE MCEngine -----------------------------
(* Instances of Engine for TLC: a mod over the two disks of a game, a demo   *)
(* of another one, and the directories of a user who has them all.           *)
EXTENDS Engine, TLC

GameNames == {"mod", "psx", "cd1", "cd2", "pc"}

\* The example of gamedefinition.hpp; a cycle and a diamond; a set nobody defines.
Shipped ==
  "mod" :> <<"psx", "pc">> @@ "psx" :> <<"cd1", "cd2", "pc">> @@
  "cd1" :> <<>> @@ "cd2" :> <<>> @@ "pc" :> <<>>
Cyclic ==
  "mod" :> <<"psx", "cd2">> @@ "psx" :> <<"cd1">> @@
  "cd1" :> <<"psx", "pc">> @@ "cd2" :> <<"pc">> @@ "pc" :> <<"cd2">>
Open == [Shipped EXCEPT !["cd1"] = <<"lost">>]

AllGraphs == {Shipped, Cyclic, Open}

IdentifiedSets == <<"cd1", "cd2", "pc", "pcdemo">>
IdRules ==
  "cd1" :> [all |-> {}, any |-> {"sles1"}, none |-> {}] @@
  "cd2" :> [all |-> {}, any |-> {"sles2"}, none |-> {}] @@
  "pc" :> [all |-> {"exe", "sounds"}, any |-> {}, none |-> {}] @@
  "pcdemo" :> [all |-> {}, any |-> {"exe"}, none |-> {"sounds"}]

DirNames == {"root", "d1", "d2", "dpc", "dpc/data", "demo"}
DirFiles ==
  "root" :> {} @@ "d1" :> {"sles1"} @@ "d2" :> {"sles2"} @@
  "dpc" :> {"exe", "sounds"} @@ "dpc/data" :> {"readme"} @@ "demo" :> {"exe"}
DirParent == [d \in DirNames |-> IF d = "dpc/data" THEN "dpc" ELSE "root"]

FirstPaths == {<<>>, <<"dpc/data", "demo", "dpc", "root">>, <<"d2", "d1", "dpc">>}
=============================================================================
