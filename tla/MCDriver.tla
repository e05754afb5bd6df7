------------------------------ MODULE MCDriver ------------------------------
(***************************************************************************)
(* A small instance of Driver, with the places, the headers and the pages  *)
(* scaled down.                                                            *)
(***************************************************************************)
EXTENDS Driver

Form(tokens, bytes, place, field, builder) ==
    [tokens |-> tokens, bytes |-> bytes, place |-> place, field |-> field, builder |-> builder]

\* A move between registers of 64 bits, and one from an address.
WideForms == {Form(6, 3, NoId, NoField, TRUE)}
AddressForms == {Form(6, 6, NoId, [id |-> 2, at |-> 2], TRUE)}

\* The entry, a jump to it, machine code, and these.
Forms == {
    Form(2, 0, 0, NoField, FALSE),
    Form(4, 5, NoId, [id |-> 0, at |-> 1], TRUE),
    Form(3, 9, NoId, NoField, TRUE)} \union WideForms \union AddressForms

\* Numbers at the ends of types, arrays with and without values, and a literal of one
\* element, which is no array.
Variables == {
    Initialised("U8", Number(FALSE, 8)), Initialised("S8", Number(FALSE, 8)),
    Initialised("S16", Number(TRUE, 15)), Initialised("S32", Number(FALSE, 17)),
    Scalar("U32"), Initialised("U64", Number(FALSE, 64)), Initialised("U64", Number(TRUE, 7)),
    Initialised("S64", Number(FALSE, 32)), Initialised("S64", Number(TRUE, 33)),
    Array("U8", 0), Array("U8", 2),
    Filled("U64", 1, 1), Filled("U64", 1, 2), Filled("S16", 2, 1)}

BlockSizes == {WORD * TokenPlaces, TextPlaces, WORD * HolePlaces}

=============================================================================
