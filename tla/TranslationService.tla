------------------------- MODULE TranslationService -------------------------
(* POST /api/v1/translations: TranslationService.translate                  *)
(* (app/services/translation.py).  No session and no row: a translation by  *)
(* the quality engine, or by the draft engine when that is missing or fails, *)
(* and on request what verifies it, made by the draft engine one after the  *)
(* other: draft, translation back, alignment, witnesses.                    *)
EXTENDS ConfidenceSpans, Sessions

CONSTANTS
    Request,  \* [src, tgt, witness, verify]: the requests a client may send
    Chunk,    \* [text, lp]: what an engine may stream
    MaxChunks \* bound: chunks of one stream

ASSUME TranslationAssumption ==
    /\ MaxChunks \in Nat
    /\ Request \subseteq [src : Lang, tgt : Lang, witness : Seq(Lang), verify : BOOLEAN]
    /\ \A chunk \in Chunk :
          chunk.text \in Seq(Mark) \ {<<>>} \* VllmEngine passes over empty deltas

VARIABLES
    req,        \* the request
    quality,    \* whether the quality model is registered
    pc,         \* where the handler is
    degraded,   \* the draft engine makes the translation
    acc,        \* [text, tokens]: _Acc
    answer,     \* [translation, confidence], or what it is without one
    parts,      \* what the verification has so far: [draft, back] and witnesses
    status      \* the HTTP status, 0 until there is one

\* History: the chunks the current attempt streamed, and their marks, each with
\* the number of the chunk it came in.
VARIABLES streamed, marks

history == <<streamed, marks>>
vars == <<req, quality, pc, degraded, acc, answer, parts, status, history>>

Empty == [text |-> <<>>, tokens |-> <<>>]

\* What _simple returns: a text or the empty one, which becomes None in a field.
Part == {"text", "empty"}

Init ==
    /\ req \in Request
    /\ quality \in BOOLEAN
    /\ pc = "final"
    /\ degraded = ~quality
    /\ acc = Empty
    /\ answer = [translation |-> <<>>, confidence |-> {}]
    /\ parts = [draft |-> "empty", back |-> "empty", witness |-> <<>>]
    /\ status = 0
    /\ streamed = <<>>
    /\ marks = <<>>

-----------------------------------------------------------------------------

Ends(code) == pc' = "over" /\ status' = code

\* _stream: a chunk of the final translation.
ChunkArrives(chunk) ==
    /\ pc = "final"
    /\ Len(streamed) < MaxChunks
    /\ acc' = [text |-> acc.text \o chunk.text,
               tokens |-> Append(acc.tokens, Token(acc.text, chunk))]
    /\ streamed' = Append(streamed, chunk)
    /\ marks' = marks \o [j \in DOMAIN chunk.text |->
                            [chunk |-> Len(streamed'), mark |-> chunk.text[j]]]
    /\ UNCHANGED <<req, quality, pc, degraded, answer, parts, status>>

\* Mutant: the second attempt goes on in the accumulator of the first.
FinalFailsKeepsTokens ==
    /\ pc = "final"
    /\ IF degraded
       THEN Ends(503) /\ UNCHANGED <<degraded, acc, history>>
       ELSE /\ degraded' = TRUE
            /\ acc' = [acc EXCEPT !.text = <<>>]
            /\ streamed' = <<>> /\ marks' = <<>>
            /\ UNCHANGED <<pc, status>>
    /\ UNCHANGED <<req, quality, answer, parts>>

\* UpstreamEngineError: again with the draft engine, or 503 when that failed.
FinalFails ==
    /\ pc = "final"
    /\ IF degraded
       THEN Ends(503) /\ UNCHANGED <<degraded, acc, history>>
       ELSE /\ degraded' = TRUE
            /\ acc' = Empty
            /\ streamed' = <<>> /\ marks' = <<>>
            /\ UNCHANGED <<pc, status>>
    /\ UNCHANGED <<req, quality, answer, parts>>

\* The stream ends: _finalize, and the answer unless verification is asked for.
FinalEnds ==
    /\ pc = "final"
    /\ LET translation == Strip(acc.text) IN
       answer' = [translation |-> translation,
                  confidence |-> Spans(Shifted(acc.tokens, Lead(acc.text)), translation)]
    /\ IF req.verify THEN pc' = "draft" /\ UNCHANGED status ELSE Ends(201)
    /\ UNCHANGED <<req, quality, degraded, acc, parts, history>>

\* _simple: a text, or none when the engine fails or has nothing to say.
DraftEnds ==
    /\ pc = "draft"
    /\ pc' = "back"
    /\ \E part \in Part : parts' = [parts EXCEPT !.draft = part]
    /\ UNCHANGED <<req, quality, degraded, acc, answer, status, history>>

BackEnds ==
    /\ pc = "back"
    /\ pc' = "align"
    /\ \E part \in Part : parts' = [parts EXCEPT !.back = part]
    /\ UNCHANGED <<req, quality, degraded, acc, answer, status, history>>

\* The aligner answers, or fails and there are no spans.
AlignEnds ==
    /\ pc = "align"
    /\ pc' = "witness"
    /\ UNCHANGED <<req, quality, degraded, acc, answer, parts, status, history>>

\* Mutant: the list as the client sent it, less source and target.
WitnessLangsRepeated ==
    SelectSeq(req.witness, LAMBDA l : l \notin {req.src, req.tgt})

\* The witnesses of the request: each once, and neither source nor target.
WitnessLangs == Firsts(req.witness, {req.src, req.tgt})

WitnessEnds ==
    /\ pc = "witness"
    /\ Len(parts.witness) < Len(WitnessLangs)
    /\ \E part \in Part :
          parts' = [parts EXCEPT !.witness =
              Append(@, [lang |-> WitnessLangs[Len(@) + 1], text |-> part])]
    /\ UNCHANGED <<req, quality, pc, degraded, acc, answer, status, history>>

Verified ==
    /\ pc = "witness"
    /\ Len(parts.witness) = Len(WitnessLangs)
    /\ Ends(201)
    /\ UNCHANGED <<req, quality, degraded, acc, answer, parts, history>>

\* An error of a stream that is no APIError: nobody catches it.
Breaks ==
    /\ pc \in {"final", "draft", "back", "witness"}
    /\ Ends(500)
    /\ UNCHANGED <<req, quality, degraded, acc, answer, parts, history>>

Next ==
    \/ \E chunk \in Chunk : ChunkArrives(chunk)
    \/ FinalFails
    \/ FinalEnds
    \/ DraftEnds
    \/ BackEnds
    \/ AlignEnds
    \/ WitnessEnds
    \/ Verified
    \/ Breaks

Spec == Init /\ [][Next]_vars

-----------------------------------------------------------------------------
(* Properties.                                                             *)

Ink == { j \in DOMAIN marks : marks[j].mark # Blank }

\* What is left of the marks without the blanks around them.
FirstMark == IF Ink = {} THEN 1 ELSE Min(Ink)
FinalMarks == IF Ink = {} THEN <<>> ELSE SubSeq(marks, FirstMark, Max(Ink))

\* The chunks with a probability that the marks of a span came in.
Origins(span) ==
    { i \in { marks[j].chunk : j \in FirstMark + span.start .. FirstMark + span.end - 1 } :
        streamed[i].lp # NoLogprob }

IsLow(origins) ==
    SumFunctionOnSet([i \in origins |-> streamed[i].lp], origins)
        < LogThreshold * Cardinality(origins)

\* The answer is what one engine streamed in its attempt, without the blanks
\* around it, and every word is judged by exactly the chunks its letters came
\* in, whatever was stripped and whatever an earlier attempt streamed.
AnswerIsOneAttempt ==
    status = 201 =>
        /\ answer.translation = [j \in DOMAIN FinalMarks |-> FinalMarks[j].mark]
        /\ \A span \in answer.confidence :
              Origins(span) # {} /\ (span.low <=> IsLow(Origins(span)))
        /\ \A j \in DOMAIN FinalMarks :
              (/\ FinalMarks[j].mark # Blank
               /\ streamed[FinalMarks[j].chunk].lp # NoLogprob) =>
                  Cardinality({ span \in answer.confidence :
                                  span.start < j /\ j <= span.end }) = 1

\* Whatever fails on the way, a verification is whole: the witnesses are those
\* a session with the same languages would show after its target, in the same
\* order, and only an error that is no engine error costs a translation that
\* was made.
VerificationIsWhole ==
    /\ (status = 201 /\ req.verify) =>
          TargetLangs(Session(req.src, req.tgt, req.witness))
              = (IF req.tgt = req.src THEN <<>> ELSE <<req.tgt>>)
                    \o [i \in DOMAIN parts.witness |-> parts.witness[i].lang]
    /\ status = 503 => pc = "over" /\ degraded /\ answer.translation = <<>>
=============================================================================
