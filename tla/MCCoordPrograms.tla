--------------------------- MODULE MCCoordPrograms ---------------------------
(***************************************************************************)
(* An instance of CoordPrograms for TLC: records on six places of a map    *)
(* that reaches from -1 to 1 both ways, queries on it and beyond it.       *)
(***************************************************************************)
EXTENDS CoordPrograms

MCPlaces == [lon : -1 .. 1, lat : 0 .. 1]
MCLons   == {-2, 0, 1}
MCLats   == {-1, 0, 2}

==============================================================================
