---------------------------------- MODULE Lists ----------------------------------
(***************************************************************************)
(* Operators on sequences that several models share, in the form of folds, *)
(* about which SequenceFacts proves what the proofs need.                  *)
(***************************************************************************)
EXTENDS Integers, Sequences, SequencesExt, FiniteSetsExt

(* The members of a sequence that belong to a set, in their order.         *)
Sifted(s, keep) ==
  FoldLeft(LAMBDA kept, x : IF x \in keep THEN Append(kept, x) ELSE kept, <<>>, s)

(* The sum of a sequence of numbers                                        *)
SumSeq(s) == FoldLeft(LAMBDA n, x : n + x, 0, s)
=============================================================================
