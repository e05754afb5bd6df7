----------------------------- MODULE MCCompiler -----------------------------
(***************************************************************************)
(* A small instance of Compiler: a program, a procedure, a variable and a  *)
(* label of each of them.  Which of the two has which name is all the same *)
(* to the language and to the code, and nothing else is called like them.  *)
(***************************************************************************)
EXTENDS Compiler

CONSTANTS main, f

AllParts == {"", main, f, "x", "l"}
MainAndF == {<<main>>, <<f>>}
EitherName == Permutations({main, f})
X == {<<"x">>}
L == {<<"l">>}
SomeIds == 0 .. 16

=============================================================================
