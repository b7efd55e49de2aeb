----------------------------- MODULE MCChunking -----------------------------
(* Texts around every threshold, with up to MaxBlank white-space positions *)
(* and two headers wherever the well-formedness of a text allows them.     *)
EXTENDS Chunking, FiniteSets, FiniteSetsExt

CONSTANTS Lengths, MaxBlank

UpTo(k, S) == UNION {kSubset(i, S) : i \in 0 .. k}

TextsOf(n) ==
  UNION {
    {[len |-> n, blank |-> B, stops |-> S, breaks |-> L, heads |-> H] :
       S \in SUBSET {p \in 0 .. n - 1 : p \notin B /\ p + 1 \in B},
       L \in {{}, {p \in B : p - 1 \in B \/ p + 1 \in B}},
       H \in UpTo(2, {p \in 0 .. n - 1 : p \notin B /\ (p = 0 \/ p - 1 \in B)})}
    : B \in UpTo(MaxBlank, 0 .. n - 1)}

MCTexts == UNION {TextsOf(n) : n \in Lengths}
=============================================================================
