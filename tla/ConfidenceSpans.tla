-------------------------- MODULE ConfidenceSpans --------------------------
(* Word confidence from token probabilities: _finalize of the translation   *)
(* services and build_confidence_spans (app/services/translation.py and     *)
(* quality_estimation.py).  A text is a sequence of marks, Blank or any     *)
(* other; offsets count from 0, as in Python.  A probability is given by its *)
(* logarithm, an integer, and low is a mean below LogThreshold.             *)
EXTENDS Sequences, FiniteSetsExt, Integers

CONSTANTS Mark, Blank, NoLogprob, LogThreshold

\* [start, end, lp] of a chunk appended to text.
Token(text, chunk) ==
    [start |-> Len(text), end |-> Len(text) + Len(chunk.text), lp |-> chunk.lp]

Inked(text) == { i \in DOMAIN text : text[i] # Blank }

\* str.strip, and the length of what it removes in front.
Strip(text) ==
    IF Inked(text) = {} THEN <<>> ELSE SubSeq(text, Min(Inked(text)), Max(Inked(text)))

Lead(text) == IF Inked(text) = {} THEN Len(text) ELSE Min(Inked(text)) - 1

\* An offset once lead marks are gone, never below 0.
Behind(offset, lead) == IF offset < lead THEN 0 ELSE offset - lead

Shifted(tokens, lead) ==
    [i \in DOMAIN tokens |->
        [start |-> Behind(tokens[i].start, lead), end |-> Behind(tokens[i].end, lead),
         lp |-> tokens[i].lp]]

\* The matches of \S+: where a run of marks begins and ends.
Words(text) ==
    { w \in (0..Len(text)) \X (0..Len(text)) :
        /\ w[1] < w[2]
        /\ \A i \in w[1]+1..w[2] : text[i] # Blank
        /\ w[1] > 0 => text[w[1]] = Blank
        /\ w[2] < Len(text) => text[w[2] + 1] = Blank }

\* The tokens with a probability that overlap the word.
Over(tokens, w) ==
    { i \in DOMAIN tokens :
        tokens[i].lp # NoLogprob /\ tokens[i].start < w[2] /\ tokens[i].end > w[1] }

\* The geometric mean is below the threshold.
Low(tokens, used) ==
    SumFunctionOnSet([i \in used |-> tokens[i].lp], used)
        < LogThreshold * Cardinality(used)

Spans(tokens, text) ==
    { [start |-> w[1], end |-> w[2], low |-> Low(tokens, Over(tokens, w))] :
        w \in { v \in Words(text) : Over(tokens, v) # {} } }
=============================================================================
