------------------------- MODULE MCHistogramPrograms -------------------------
(***************************************************************************)
(* An instance of HistogramPrograms for TLC: three files over two bit      *)
(* positions, one of them empty, one longer than two thresholds and        *)
(* partial merges; an int of three bits, which the set bits overflow.      *)
(***************************************************************************)
EXTENDS HistogramPrograms, TLC

CONSTANTS short, empty, long

MCContent == short :> << {0, 1}, {0} >> @@ empty :> << >>
             @@ long :> << {0, 1}, {1}, {}, {1}, {0, 1} >>
MCBits    == {0, 1}

Workers == Permutations(Consumers)

=============================================================================
