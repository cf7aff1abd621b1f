------------------------------- MODULE Catalog -------------------------------
(* The models of the catalog, as the handler of chat completions knows them. *)
CONSTANTS
    Models,
    NoModel    \* no model is preferred

ASSUME NoModelAssumption == NoModel \notin Models
=============================================================================
