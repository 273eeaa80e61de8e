------------------------------ MODULE Volumes ------------------------------
(***************************************************************************)
(* Volume arithmetic shared by the container and the item services.        *)
(*                                                                         *)
(* Volumes are integers counted in the finest unit the items table stores  *)
(* (NUMERIC(24,10) after the second migration, roundDecimal scale 10 in    *)
(* items.service.ts).  Scale is the number of those units in one hundredth,*)
(* the unit containers.service.ts rounds to: 10^8 in the deployed schema.  *)
(***************************************************************************)
EXTENDS Integers, FiniteSets

CONSTANT Scale

ASSUME ScaleAssumption == Scale \in Nat \ {0}

(* Mutant: rounding down. *)
Round2Down(v) == v - (v % Scale)

(* roundDecimal of containers.service.ts: Math.round to two decimals, ties
   upwards, on the nonnegative numbers the service passes.                 *)
Round2(v) == LET shifted == v + Scale \div 2 IN shifted - (shifted % Scale)

(* SUM(item.totalVolume) over the rows of S, counted as unit cells: an item
   of volume n occupies the cells <<i, 1>> .. <<i, n>>.                    *)
Cells(volume, S) == UNION {{i} \X (1 .. volume[i]) : i \in S}

SumVolume(volume, S) == Cardinality(Cells(volume, S))
=============================================================================
