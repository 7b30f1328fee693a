---------------------------- MODULE MCIdPrograms ----------------------------
(***************************************************************************)
(* An instance of IdPrograms for TLC: lines with all columns, up to the id *)
(* and too short for an id or for a name, some with blank columns; ids     *)
(* that occur several times.                                               *)
(***************************************************************************)
EXTENDS IdPrograms

MapLine(t, id, b) == [tabs |-> t, osm_id |-> id, blank |-> b]

MCLineKinds == {MapLine(0, 0, {1}), MapLine(1, 0, {}), MapLine(4, 1, {2, 5}),
                MapLine(23, 2, {7, 8, 20, 24}), MapLine(24, 1, {})}

=============================================================================
