----------------------------- MODULE WordPiece ------------------------------
(* The tokenizer of internal/embed/wordpiece and how internal/embed lays    *)
(* its tokens out.  A text is a sequence of characters; a token is an       *)
(* [inner, text], inner for the continuation of a word, and the vocabulary  *)
(* a set of them.  The tables generated from the reference are constants;   *)
(* the name inside a special token's brackets counts as one character.      *)
EXTENDS Integers, FiniteSets, SequencesExt

CONSTANTS controlRanges, whitespaceRanges, nonspacingMarkRanges, punctRanges, cjkRanges,
          lowerMap,              \* character -> what replaces it
          NFD,                   \* character -> its canonical decomposition
          Space,
          vocab,
          maxInputCharsPerWord,  \* 100 in the source
          MaxSequenceLength,     \* 512
          sequenceBuckets        \* 16, 32, ..., MaxSequenceLength

ASSUME WordPieceAssumption ==
    /\ MaxSequenceLength \in Nat /\ MaxSequenceLength >= 2
    /\ maxInputCharsPerWord \in Nat
    /\ sequenceBuckets \subseteq Nat /\ MaxSequenceLength = Max(sequenceBuckets)

\* What the tables are to each other: a decomposition is not decomposed further,
\* a lower case letter is one, and neither yields a control character.  An
\* ideograph stays one character and nothing else becomes one.  Asked of what the
\* stage before leaves: white space is gone, and lower case comes after.
ASSUME TablesAssumption ==
    /\ "[" \in punctRanges
    /\ Space \in whitespaceRanges
    /\ Space \notin controlRanges \cup nonspacingMarkRanges \cup cjkRanges
                     \cup DOMAIN NFD \cup DOMAIN lowerMap
    /\ cjkRanges \cap (nonspacingMarkRanges \cup DOMAIN lowerMap) = {}
    /\ \A r \in DOMAIN NFD \ whitespaceRanges :
          /\ NFD[r] \in Seq(ToSet(NFD[r]))
          /\ ToSet(NFD[r]) \cap (controlRanges \cup DOMAIN NFD) = {}
          /\ IF r \in cjkRanges THEN Len(NFD[r]) = 1 ELSE ToSet(NFD[r]) \cap cjkRanges = {}
    /\ \A r \in DOMAIN lowerMap \ DOMAIN NFD :
          /\ lowerMap[r] \in Seq(ToSet(lowerMap[r]))
          /\ ToSet(lowerMap[r]) \cap (controlRanges \cup nonspacingMarkRanges
                                         \cup cjkRanges \cup DOMAIN lowerMap) = {}

Token(text) == [inner |-> FALSE, text |-> text]

\* In the order they are looked for.
addedTokens ==
    [k \in 1..5 |-> <<"[", <<"PAD", "UNK", "CLS", "SEP", "MASK">>[k], "]">>]

unkToken == Token(addedTokens[2])
clsToken == Token(addedTokens[3])
sepToken == Token(addedTokens[4])

-----------------------------------------------------------------------------
(* Words *)

\* Every character becomes a sequence of characters.
Map(s, f(_)) == FlattenSeq([k \in DOMAIN s |-> f(s[k])])

cleanText(s) ==
    Map(s, LAMBDA r : IF r \in controlRanges THEN <<>>
                      ELSE IF r \in whitespaceRanges THEN <<Space>> ELSE <<r>>)

padCJK(s) == Map(s, LAMBDA r : IF r \in cjkRanges THEN <<Space, r, Space>> ELSE <<r>>)

stripAccents(s) ==
    Map(Map(s, LAMBDA r : IF r \in DOMAIN NFD THEN NFD[r] ELSE <<r>>),
        LAMBDA r : IF r \in nonspacingMarkRanges THEN <<>> ELSE <<r>>)

lowercase(s) == Map(s, LAMBDA r : IF r \in DOMAIN lowerMap THEN lowerMap[r] ELSE <<r>>)

normalize(s) == lowercase(stripAccents(padCJK(cleanText(s))))

\* Split at white space; a punctuation character is a word of its own.
preTokenize(s) ==
    LET flushed(acc) == IF acc.cur = <<>> THEN acc.words ELSE Append(acc.words, acc.cur)
        step(acc, r) ==
            IF r \in whitespaceRanges THEN [words |-> flushed(acc), cur |-> <<>>]
            ELSE IF r \in punctRanges THEN [words |-> Append(flushed(acc), <<r>>), cur |-> <<>>]
            ELSE [acc EXCEPT !.cur = Append(@, r)]
        after[k \in 0..Len(s)] ==
            IF k = 0 THEN [words |-> <<>>, cur |-> <<>>] ELSE step(after[k - 1], s[k])
    IN  flushed(after[Len(s)])

-----------------------------------------------------------------------------
(* Pieces *)

\* The vocabulary's pieces that word continues with at start.
MatchesAt(word, start) ==
    {n \in start..Len(word) : [inner |-> start > 1, text |-> SubSeq(word, start, n)] \in vocab}

\* Mutant: the pieces found before the word failed are kept.
wordPiecesPartial(word) ==
    LET from[start \in 1..(Len(word) + 1)] ==
            IF start > Len(word) THEN <<>>
            ELSE IF MatchesAt(word, start) = {} THEN <<unkToken>>
            ELSE LET end == Max(MatchesAt(word, start))
                 IN  <<[inner |-> start > 1, text |-> SubSeq(word, start, end)]>> \o from[end + 1]
    IN  IF Len(word) > maxInputCharsPerWord THEN <<unkToken>> ELSE from[1]

\* Greedily the longest piece; a word that cannot be finished is one unknown.
appendWordPieces(word) ==
    LET from[start \in 1..(Len(word) + 1)] ==
            IF start > Len(word) THEN <<>>
            ELSE IF MatchesAt(word, start) = {} THEN <<unkToken>>
            ELSE LET end == Max(MatchesAt(word, start))
                 IN  <<[inner |-> start > 1, text |-> SubSeq(word, start, end)]>> \o from[end + 1]
    IN  IF Len(word) > maxInputCharsPerWord \/ unkToken \in ToSet(from[1])
        THEN <<unkToken>> ELSE from[1]

-----------------------------------------------------------------------------
(* Texts *)

PlainText(text) == [special |-> FALSE, text |-> text]
Special(tok) == [special |-> TRUE, text |-> tok]

\* The plain text seg cut around every occurrence of tok, leftmost first.
SplitOn(seg, tok) ==
    LET s == seg.text
        begins(k) == k + Len(tok) - 1 <= Len(s) /\ SubSeq(s, k, k + Len(tok) - 1) = tok
        from[k \in 1..(Len(s) + 1)] ==
            LET hits == {m \in k..Len(s) : begins(m)}
                hit  == Min(hits)
            IN  IF k > Len(s) THEN <<>>
                ELSE IF hits = {} THEN <<PlainText(SubSeq(s, k, Len(s)))>>
                ELSE (IF hit > k THEN <<PlainText(SubSeq(s, k, hit - 1))>> ELSE <<>>)
                     \o <<Special(tok)>> \o from[hit + Len(tok)]
    IN  from[1]

\* On the raw text, before anything is normalized.
splitOnAddedTokens(text) ==
    LET after[k \in 0..Len(addedTokens)] ==
            IF k = 0 THEN <<PlainText(text)>>
            ELSE Map(after[k - 1], LAMBDA seg :
                     IF seg.special THEN <<seg>> ELSE SplitOn(seg, addedTokens[k]))
    IN  after[Len(addedTokens)]

\* What Encode appends one after the other: a special token, or a word's pieces.
Units(text) ==
    Map(splitOnAddedTokens(text), LAMBDA seg :
        IF seg.special THEN <<<<Token(seg.text)>>>>
        ELSE LET words == preTokenize(normalize(seg.text))
             IN  [k \in DOMAIN words |-> appendWordPieces(words[k])])

\* Mutant: [CLS] is counted against the room for the text.
EncodeShort(text) ==
    LET budget == MaxSequenceLength - 2
        units == Units(text)
        after[k \in 0..Len(units)] ==
            IF k = 0 THEN <<clsToken>>
            ELSE IF Len(after[k - 1]) >= budget THEN after[k - 1] ELSE after[k - 1] \o units[k]
        ids == after[Len(units)]
    IN  Append(SubSeq(ids, 1, Min({budget + 1, Len(ids)})), sepToken)

\* Nothing more is appended once the budget is reached; what overran it is cut.
Encode(text) ==
    LET budget == MaxSequenceLength - 2
        units == Units(text)
        after[k \in 0..Len(units)] ==
            IF k = 0 THEN <<clsToken>>
            ELSE IF Len(after[k - 1]) - 1 >= budget THEN after[k - 1] ELSE after[k - 1] \o units[k]
        ids == after[Len(units)]
    IN  Append(SubSeq(ids, 1, Min({budget + 1, Len(ids)})), sepToken)

-----------------------------------------------------------------------------
(* Batches *)

bucketFor(n) ==
    LET fits == {b \in sequenceBuckets : n <= b}
    IN  IF fits = {} THEN MaxSequenceLength ELSE Min(fits)

\* The rows handed to the model: one width for all of a batch, and a mask that
\* says which places hold a token.
Padded(texts) ==
    LET ids   == [k \in DOMAIN texts |-> Encode(texts[k])]
        width == bucketFor(Max({1} \cup {Len(ids[k]) : k \in DOMAIN texts}))
    IN  [k \in DOMAIN texts |->
            [ids |-> ids[k], mask |-> [j \in 1..width |-> IF j <= Len(ids[k]) THEN 1 ELSE 0]]]
=============================================================================
