----------------------------- MODULE Subsequences ------------------------------
(***************************************************************************)
(* What a list comprehension with a condition keeps of a list, in order.   *)
(*                                                                         *)
(* SelectSeq and the folds would do, but take operators as arguments, of   *)
(* which nothing can be proved here; these are recursive functions.        *)
(***************************************************************************)
EXTENDS Naturals, Sequences, SequencesExt

\* What is kept of each prefix of a sequence, if certain places are.
KeptOf(seq, places) ==
    LET kept[n \in 0 .. Len(seq)] ==
            IF n = 0 THEN <<>>
            ELSE IF n \in places THEN Append(kept[n - 1], seq[n])
            ELSE kept[n - 1]
    IN  kept

\* The elements at certain places.
At(seq, places) == KeptOf(seq, places)[Len(seq)]

\* The elements that are in a set.
Among(seq, set) == At(seq, {i \in DOMAIN seq : seq[i] \in set})

\* Each element once, where it first comes.
Once(seq) == At(seq, {i \in DOMAIN seq : \A j \in 1 .. i - 1 : seq[j] # seq[i]})
================================================================================
