-------------------------------- MODULE MCModel --------------------------------
(* A Collection of at most two objects with one field.                       *)
EXTENDS Model

OneName == {[name |-> "x"]}
================================================================================
