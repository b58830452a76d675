-------------------------- MODULE MCPriceRefresh --------------------------
(***************************************************************************)
(* The lease of one household's refresh alone, on two workers.             *)
(***************************************************************************)
EXTENDS PriceRefresh
===========================================================================
