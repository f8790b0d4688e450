------------------------------ MODULE Sessions ------------------------------
(* What a session is made of: SessionConfig, SessionService.create and      *)
(* Session.target_langs (app/schemas/session.py, app/services/session.py,   *)
(* app/domain.py).  A session row is inserted once and read as it is.       *)
EXTENDS SequencesExt, Integers

CONSTANTS
    Lang,      \* language codes a client may send
    Supported  \* those of the catalog (LanguageService)

ASSUME SessionsAssumption == Supported \subseteq Lang

\* `dict.fromkeys` and the exclusion: each language where it comes first.
Firsts(langs, exclude) ==
    LET kept[n \in 0..Len(langs)] ==
            IF n = 0 THEN <<>>
            ELSE IF langs[n] \in exclude \cup ToSet(kept[n - 1]) THEN kept[n - 1]
            ELSE Append(kept[n - 1], langs[n])
    IN  kept[Len(langs)]

\* SessionConfig with its validator _dedup_witness.
Session(src, tgt, witness) ==
    [src |-> src, tgt |-> tgt, witness |-> Firsts(witness, {src, tgt})]

\* LanguageService.is_supported: the code is in the catalog.
IsSupported(code) == code \in Supported

\* SessionService.create refuses a language outside the catalog; the same
\* source and target are allowed.
Creatable(s) == \A code \in {s.src, s.tgt} \cup ToSet(s.witness) : IsSupported(code)

TargetLangs(s) == Firsts(<<s.tgt>> \o s.witness, {s.src})
=============================================================================
