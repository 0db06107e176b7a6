---- MODULE MCClassInit ----
(* Every program of a few classes. *)
EXTENDS ClassInit

MCPrograms == [Class -> SUBSET Class]
====
