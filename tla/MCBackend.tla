------------------------------ MODULE MCBackend ------------------------------
(***************************************************************************)
(* Values of the back end's constants that cannot be written in a .cfg.    *)
(***************************************************************************)
EXTENDS Backend

(* Device "1" can be meant by its name or as the one with id 1.            *)
ReadsOne == [t \in Texts |-> IF t = "1" THEN 1 ELSE -1]

(* "A\n", an empty block, a block of "\n#", and one of "\n" whose length   *)
(* has two digits.                                                         *)
FourReplies == {<<65, 10>>, <<35, 49, 48>>, <<35, 49, 50, 10, 35>>, <<35, 50, 48, 49, 10>>}
=============================================================================
