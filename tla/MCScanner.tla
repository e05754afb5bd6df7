----------------------------- MODULE MCScanner -----------------------------
(***************************************************************************)
(* Small instances of Scanner: all files of a few characters in which no   *)
(* two words, and no number behind a word or a number, stand side by side: *)
(* short ones of every character, longer ones of those that open, close    *)
(* and escape.                                                             *)
(***************************************************************************)
EXTENDS Scanner

CONSTANTS Alphabet, MaxLength, CoreAlphabet, MaxCoreLength

Separate(file) ==
    \A i \in 1 .. Len(file) - 1 :
        ~(file[i] \in Words /\ file[i + 1] \in Words \union {"digits"})
        /\ ~(file[i] = "digits" /\ file[i + 1] = "digits")

FilesOf(alphabet, length) ==
    {file \in UNION {[1 .. n -> alphabet] : n \in 0 .. length} : Separate(file)}

Files == FilesOf(Alphabet, MaxLength) \union FilesOf(CoreAlphabet, MaxCoreLength)

=============================================================================
