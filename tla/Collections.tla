----------------------------- MODULE Collections -----------------------------
(***************************************************************************)
(* Sums over sets and selections from sequences, in the form the proofs    *)
(* can unfold: SelectSeq is a primitive of the prover, Selected is not.    *)
(***************************************************************************)
EXTENDS Integers, Sequences, FiniteSets, FiniteSetsExt

\* The sum of f over S.
Total(f, S) == MapThenSumSet(LAMBDA x : f[x], S)

\* SelectSeq(s, LAMBDA x : x \in K).
Selected(s, K) ==
  LET kept[i \in 0 .. Len(s)] ==
        IF i = 0 THEN <<>>
        ELSE IF s[i] \in K THEN Append(kept[i - 1], s[i]) ELSE kept[i - 1]
  IN kept[Len(s)]
=============================================================================
