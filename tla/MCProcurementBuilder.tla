---------------------- MODULE MCProcurementBuilder ----------------------
(* A small catalog, one purchaser's write under way, one member who orders. *)
EXTENDS ProcurementBuilder, TLC

symmetry == Permutations(Categories) \cup Permutations(Subcategories)
              \cup Permutations(CatalogItems) \cup Permutations(Contents)
              \cup Permutations(Requests)
=========================================================================
