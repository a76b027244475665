--------------------------- MODULE MCConfigParser ---------------------------
(***************************************************************************)
(* Model checking ConfigParser: all characters in short files, and the     *)
(* characters that files of words and blocks need in longer ones.          *)
(***************************************************************************)
EXTENDS ConfigParser

MCPlainChars == {"{", "}", ";", "sp", "ch"}
=============================================================================
