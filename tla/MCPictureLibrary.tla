--------------------------- MODULE MCPictureLibrary ---------------------------
(***************************************************************************)
(* PictureLibrary for TLC: two galleries of one page each, a request by id *)
(* and a request in natural language.                                      *)
(***************************************************************************)
EXTENDS PictureLibrary, TLC

CONSTANTS a, b, a1, b1

Galleries == (a1 :> a) @@ (b1 :> b)
=============================================================================
