--------------------------- MODULE MCJobSchedulers ---------------------------
(* Instances of JobSchedulers. *)
EXTENDS JobSchedulers

MCIntervals == {30, 60}
===============================================================================
