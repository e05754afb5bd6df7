----------------------------- MODULE MCFrontend -----------------------------
(***************************************************************************)
(* Small instances of Frontend.  An identifier is the sequence of its      *)
(* parts between underscores.                                              *)
(***************************************************************************)
EXTENDS Frontend

AllParts == {"", "main", "f", "x"}
Main == {<<"main">>}
MainAndF == {<<"main">>, <<"f">>}
X == {<<"x">>}
FAndX == {<<"f">>, <<"x">>}

\* A negative level, none, the innermost loop, and the one around it.
AnyLevel == -1 .. 2
=============================================================================
