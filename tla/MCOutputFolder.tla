---------------------------- MODULE MCOutputFolder ----------------------------
(***************************************************************************)
(* Two programs of the legacy report and one of Allure 2, an output folder *)
(* of two levels, and three UUIDs two of which would have the same digits  *)
(* if their groups were not separated.                                     *)
(***************************************************************************)
EXTENDS OutputFolder

CONSTANTS l1, l2, a1

MCPrograms == {l1, l2, a1}
MCLegacy == {l1, l2}
MCUUIDs == {<<1, 2>>, <<3, 0>>, <<0, 1>>}
=============================================================================
