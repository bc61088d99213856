---------------------------- MODULE MCTokenizer ----------------------------
(***************************************************************************)
(* An instance for model-checking Tokenizer: every string over a word, ':' *)
(* and ';' up to a length that gives more tokens than the array first has. *)
(***************************************************************************)
EXTENDS Tokenizer

CONSTANT word

MCWords == {word}
=============================================================================
