----------------------------- MODULE Candidate ------------------------------
(* Between the model's answer and the write: which proposals code keeps     *)
(* (internal/nominate) and what evidence it reads for them out of the       *)
(* trusted source (internal/curate/resolve.go).  A source and a quote are   *)
(* sequences of tokens, NL among them.                                      *)
EXTENDS Anchor, Order

NL == "\n"

MaxStatementRunes == 300

validKinds == {"Convention", "Decision", "Constraint", "RejectedApproach",
               "Failure", "Reference"}

Blank(text) == ToSet(text) \subseteq {NL, " "}

\* Confidence is a percentage here.
Valid(c) ==
    /\ c.kind \in validKinds
    /\ ~Blank(c.statement) /\ c.runes <= MaxStatementRunes
    /\ ~Blank(c.quote)
    /\ 0 <= c.confidence /\ c.confidence <= 100

keep(cands) == Picked(cands, {k \in DOMAIN cands : Valid(cands[k])})

Lines(text) == Cardinality({k \in DOMAIN text : text[k] = NL})

\* strings.Index: where the quote begins in the source.
Occurrences(source, quote) ==
    {k \in 1..(Len(source) - Len(quote) + 1) :
        SubSeq(source, k, k + Len(quote) - 1) = quote}

Locatable(source, quote) == quote # <<>> /\ Occurrences(source, quote) # {}

\* Mutant: the quote is taken to begin on the source's first line.
LocateAtBase(source, quote, baseLine) ==
    LET k == Min(Occurrences(source, quote))
    IN  [lineStart |-> baseLine, lineEnd |-> baseLine + Lines(quote),
         text |-> SubSeq(source, k, k + Len(quote) - 1)]

\* The first occurrence; the text is the source's own.
locate(source, quote, baseLine) ==
    LET k     == Min(Occurrences(source, quote))
        start == Max({baseLine, 1}) + Lines(SubSeq(source, 1, k - 1))
    IN  [lineStart |-> start, lineEnd |-> start + Lines(quote),
         text |-> SubSeq(source, k, k + Len(quote) - 1)]

\* What the executor writes of an answer: the spans of the kept proposals that
\* have one, in order.
Evidence(source, cands, baseLine) ==
    LET kept    == keep(cands)
        written == Picked(kept, {k \in DOMAIN kept : Locatable(source, kept[k].quote)})
    IN  [k \in DOMAIN written |-> locate(source, written[k].quote, baseLine)]

\* The anchor the executor stores with a span.  The span's lines are numbered
\* from the source's base line, the source's own from 1.
CaptureAnchor(src, baseLine, span) ==
    IF Anchors(src.kind)
    THEN Compute(src.lines, Openings(src),
                 [lineStart |-> span.lineStart, lineEnd |-> span.lineEnd,
                  byteHash |-> span.text])
    ELSE [symbolPath |-> <<>>, nodeHash |-> <<>>, windowHash |-> <<>>, byteHash |-> <<>>]
=============================================================================
