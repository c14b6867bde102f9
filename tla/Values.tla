------------------------------- MODULE Values -------------------------------
(* The value of a field that was not given: None in Python, NULL in a row. *)
CONSTANT None
=============================================================================
