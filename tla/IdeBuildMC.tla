------------------------------- MODULE IdeBuildMC -------------------------------
(* A two-move blueprint for TLC: one move of two files, one of a single file,      *)
(* and the small ask, which declares none.                                          *)
EXTENDS IdeBuild

CONSTANTS first, second, small, page, sheet

MCBlueprint == <<first, second>>

MCFilesOf == [m \in {first, second, small} |->
                CASE m = first  -> {page, sheet}
                  [] m = second -> {sheet}
                  [] m = small  -> {}]
=============================================================================
