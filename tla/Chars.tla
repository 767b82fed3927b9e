-------------------------------- MODULE Chars --------------------------------
(****************************************************************************)
(* The characters that the tokenizers of rust/src/terms.rs and              *)
(* rust/src/ngram.rs tell apart, as numbers: 0 is white space, the letters  *)
(* are 1 .. Upper, their capitals Upper + 1 .. 2 * Upper, and the numbers   *)
(* above are marks, which neither index keeps.                              *)
(****************************************************************************)
EXTENDS Integers, Sequences, SequencesExt

CONSTANT Upper      \* the number of letters

ASSUME UpperAssumption == Upper \in Nat \ {0}

IsLetter(c) == c \in 1 .. 2 * Upper
Fold(c) == IF c \in Upper + 1 .. 2 * Upper THEN c - Upper ELSE c

\* The maximal runs of characters that Splits does not end.
Runs(text, Splits(_)) ==
    LET close(a) == IF a.cur = << >> THEN a ELSE [out |-> Append(a.out, a.cur), cur |-> << >>]
        read(a, c) == IF Splits(c) THEN close(a) ELSE [a EXCEPT !.cur = Append(@, c)]
    IN close(FoldLeft(read, [out |-> << >>, cur |-> << >>], text)).out

FoldAll(word, caseFold) ==
    IF caseFold THEN << >> \o [i \in DOMAIN word |-> Fold(word[i])] ELSE word
==============================================================================
