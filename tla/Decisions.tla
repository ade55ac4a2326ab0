----------------------------- MODULE Decisions ------------------------------
(***************************************************************************)
(* The decisions CRED takes in pure code, each against what it is for.     *)
(* One step draws an input of one kind; the properties say what the        *)
(* decision makes of it.  The inputs are the constants.                    *)
(***************************************************************************)
EXTENDS Chunk, Candidate, Rank, Console, WordPiece

CONSTANTS Spans,        \* pairs [a, b] of intervals
          Incumbents,   \* [claim, t]: a claim to supersede and an instant
          Guarded,      \* [claim, more, now, later]: grants and evidence
          Retrieved,    \* [dense, lexical]: what the two arms found
          Packages,     \* [fused, authorized, tokens, limit, budget]
          Documents,    \* [lines, edit]: a file and another line for it
          Sources,      \* [lang, lines]: a source file
          Answers,      \* [source, cands, baseLine]: what a model proposed
          Slices,       \* [src, baseLine, at]: a captured span and a quoted line
          Ceilings,     \* [live, ceiling, percent]
          Listings,     \* [claims, q, principal, limit]: a table and who lists it
          Texts,        \* sequences of characters
          Spendings,    \* [used, policy, tokens]: what was used, and per call
          Instants,     \* the instants at which intervals are looked at
          Principals    \* who is granted something

Grant == [principal : Principals, expiresAt : Nat]

\* A sequence of tokens, whatever they are.
IsText(text) == text \in Seq(ToSet(text))

Statuses == {"live", "expired", "all"}

\* What a line that opens a definition defines, receiver and all.
Symbol(lang, line) == line.captures[matchDef(lang, line).re]

\* What the proofs need to know of the inputs.
ASSUME DecisionsAssumption ==
    /\ Instants \subseteq Nat
    /\ \A x \in Spans : /\ x.a \in T!Interval /\ x.b \in T!Interval
                        /\ x.a.from \in Instants /\ x.b.from \in Instants
    /\ \A x \in Incumbents :
          /\ x.claim \in [id : {x.claim.id}, valid : T!Interval, recorded : T!Interval,
                          supersededBy : {x.claim.supersededBy}]
          /\ T!WellFormed(x.claim.valid) /\ x.t \in Nat
    /\ \A x \in Guarded :
          /\ x.claim \in [acl : SUBSET Grant, evidence : Seq(SUBSET Grant)]
          /\ x.more \subseteq Grant
          /\ x.now \in Nat /\ x.later \in Nat /\ x.now <= x.later
    /\ \A x \in Retrieved, a \in Arms : x[a] \in Seq(Int)
    /\ \A x \in Packages :
          /\ x.fused \in Seq(Int)
          /\ \A j, k \in DOMAIN x.fused : j < k => x.fused[j] # x.fused[k]
          /\ x.authorized \subseteq DOMAIN x.tokens /\ x.tokens \in [DOMAIN x.tokens -> Nat]
          /\ x.limit \in Nat /\ x.budget \in Nat
    /\ \A x \in Documents :
          /\ IsText(x.lines) /\ x.edit.hashes = 0 /\ ~x.edit.fence
          /\ \A l \in ToSet(x.lines) \cup {x.edit} :
                /\ l.fence \in BOOLEAN /\ l.hashes \in Nat /\ IsText(l.words)
                /\ IsText(l.title)
                /\ l.hashes > 0 => l.words # <<>>
    /\ \A x \in Sources :
          /\ IsText(x.lines)
          /\ \A l \in ToSet(x.lines) :
                /\ l \in [indent : Nat, captures : {l.captures}, words : {l.words}]
                /\ IsText(l.words)
                /\ DOMAIN l.captures # {} => l.words # <<>>
                /\ Applicable(x.lang, l) # {} =>
                      LET m == Symbol(x.lang, l)
                      IN  /\ m \in [name : {m.name}, receiver : {m.receiver}]
                          /\ IsText(m.name) /\ m.name # NoName /\ IsText(m.receiver)
                          /\ ~matchDef(x.lang, l).joinReceiver => m.receiver = NoName
    /\ \A x \in Answers :
          /\ IsText(x.source) /\ x.baseLine \in Int /\ x.cands \in Seq(ToSet(x.cands))
          /\ \A k \in DOMAIN x.cands : IsText(x.cands[k].quote)
    /\ \A x \in Listings :
          /\ IsFiniteSet(x.claims) /\ x.limit \in Int
          /\ \A c \in x.claims : /\ c.id \in Int \ {AnyId}
                                 /\ c.valid \in T!Interval /\ c.recorded \in T!Interval
          /\ \A c, d \in x.claims : c.id = d.id => c = d
          /\ x.q \in [id : {AnyId}, scope : {x.q.scope}, status : Statuses, now : Nat]
    /\ \A x \in Texts : IsText(x)
    /\ Ceilings \subseteq [live : Nat, ceiling : Int, percent : Nat]
    /\ Spendings \subseteq
          [used : [contributions : Nat, calls : Nat, tokens : Nat, recalls : Nat],
           policy : [quota : Int, maxCalls : Int, maxTokens : Int, recallRate : Int],
           tokens : Nat]

VARIABLE input

NoInput == [kind |-> "none"]

Draw(kind, case) == input' = [kind |-> kind, case |-> case]

Init == input = NoInput

DrawInput ==
    /\ input = NoInput
    /\ \/ \E x \in Spans : Draw("spans", x)
       \/ \E x \in Incumbents : Draw("incumbent", x)
       \/ \E x \in Guarded : Draw("guarded", x)
       \/ \E x \in Retrieved : Draw("retrieved", x)
       \/ \E x \in Packages : Draw("package", x)
       \/ \E x \in Documents : Draw("document", x)
       \/ \E x \in Sources : Draw("source", x)
       \/ \E x \in Answers : Draw("answer", x)
       \/ \E x \in Slices : Draw("slice", x)
       \/ \E x \in Ceilings : Draw("ceiling", x)
       \/ \E x \in Listings : Draw("listing", x)
       \/ \E x \in Texts : Draw("text", x)
       \/ \E x \in Spendings : Draw("spending", x)

Drawn == input # NoInput /\ UNCHANGED input

Next == DrawInput \/ Drawn

Spec == Init /\ [][Next]_input

-----------------------------------------------------------------------------
(* Time and access *)

\* Two well-formed intervals overlap exactly when some instant is in both, and
\* intervals that meet do not: the boundary is nobody's twice.
OverlapIsSharing ==
    input.kind = "spans" =>
        LET a == input.case.a
            b == input.case.b
        IN  T!WellFormed(a) /\ T!WellFormed(b) =>
                /\ T!Overlaps(a, b) <=>
                       \E t \in Instants : T!Contains(a, t) /\ T!Contains(b, t)
                /\ T!Meets(a, b) => ~T!Overlaps(a, b)

\* Superseding hands a claim over without a gap and without a moment at which
\* both are known; when the clock is not past the row's own instant it is
\* refused, never clamped to an interval that ends before it starts.
SupersedeHandsOver ==
    input.kind = "incumbent" =>
        LET c == input.case.claim
            t == input.case.t
            old == T!Supersede(c, "next", t)
            new == [id |-> "next", valid |-> T!Forever(t), recorded |-> T!Forever(t)]
        IN  T!Supersedable(c, "next", t) =>
                /\ T!WellFormed(old.recorded) /\ T!WellFormed(old.valid)
                /\ \A tx \in Instants : tx >= c.recorded.from =>
                       T!Contains(old.recorded, tx) # T!Contains(new.recorded, tx)

\* More evidence, and the passing of time, only ever take readers away; the one
\* exception is the first evidence, before which nobody reads.
ReadersOnlyShrink ==
    input.kind = "guarded" =>
        LET g == input.case
            c == g.claim
        IN  /\ c.evidence # <<>> =>
                   Permitted([c EXCEPT !.evidence = Append(@, g.more)], g.now)
                       \subseteq Permitted(c, g.now)
            /\ Permitted(c, g.later) \subseteq Permitted(c, g.now)

-----------------------------------------------------------------------------
(* Recall *)

RankIn(arm, id) == CHOOSE r \in DOMAIN arm : arm[r] = id

\* What both arms found precedes what one arm found, however well that one arm
\* ranked it; among claims found alike, one that no arm ranks lower and some
\* arm ranks higher comes first.
AgreementRanksFirst ==
    input.kind = "retrieved" =>
        LET arms  == input.case
            fused == FuseRRF(arms)
            by(k) == FoundBy(arms, fused[k])
        IN  \A i, j \in DOMAIN fused : i < j =>
                /\ ~(by(i) # Arms /\ by(j) = Arms)
                /\ by(i) = by(j) =>
                       \E a \in by(i) : RankIn(arms[a], fused[i]) <= RankIn(arms[a], fused[j])

\* The package keeps both ceilings and the order, accounts for every readable
\* candidate, and leaves nothing out that would still have fitted.
PackageIsFull ==
    input.kind = "package" =>
        LET p    == input.case
            pkg  == Assemble(p.fused, p.authorized, p.tokens, p.limit, p.budget)
            left == (ToSet(p.fused) \cap p.authorized) \ ToSet(pkg.claims)
        IN  /\ pkg.used <= p.budget /\ Len(pkg.claims) <= p.limit
            /\ pkg.claims = Picked(p.fused, {k \in DOMAIN p.fused : p.fused[k] \in ToSet(pkg.claims)})
            /\ pkg.omitted = Cardinality(left)
            /\ \A id \in left : \/ Len(pkg.claims) = p.limit
                                \/ pkg.used + p.tokens[id] > p.budget

-----------------------------------------------------------------------------
(* Documents and their anchors *)

\* The nodes whose path no other node shares.
Unique(opens) ==
    {n \in DOMAIN opens : \A m \in DOMAIN opens \ {n} : Path(opens, m) # Path(opens, n)}

\* The chunker and the anchorer, two parsers, agree on what a section is: a
\* chunk never reaches over a heading into another section, so its one anchor
\* speaks for all of it, and every written line is in exactly one chunk.
ChunkHasOneSection ==
    input.kind = "document" =>
        LET lines  == input.case.lines
            opens  == TextOpenings(lines)
            chunks == ChunkFile(lines)
            of(n)  == {k \in DOMAIN chunks : chunks[k].lineStart <= n /\ n <= chunks[k].lineEnd}
        IN  \A n \in DOMAIN lines :
                /\ lines[n].words # <<>> => Cardinality(of(n)) = 1
                /\ \A k \in of(n) :
                       Enclosing(lines, opens, n) = Enclosing(lines, opens, chunks[k].lineStart)

\* A file with one more blank line at n.
BlankLine == [fence |-> FALSE, hashes |-> 0, title |-> NoName, words |-> <<>>]
InsertBlank(lines, n) == SubSeq(lines, 1, n) \o <<BlankLine>> \o SubSeq(lines, n + 1, Len(lines))

\* Formatting expires nothing: wherever a blank line is put in, every anchor
\* taken under a path that is unique in the file stays valid.
FormattingKeepsAnchors ==
    input.kind = "document" =>
        LET lines == input.case.lines
            opens == TextOpenings(lines)
        IN  \A n \in 0..Len(lines), k \in DOMAIN ChunkFile(lines) :
                LET chunk == ChunkFile(lines)[k]
                    after == InsertBlank(lines, n)
                IN  Enclosing(lines, opens, chunk.lineStart) \subseteq Unique(opens) =>
                        ~Expires(Resolve(chunk.anchor, after, TextOpenings(after)))

\* An edit expires what rests on the section it touches, and nothing else: not
\* the parent whose child changed, nor the child whose parent's prose did.
EditExpiresItsSection ==
    input.kind = "document" =>
        LET lines == input.case.lines
            opens == TextOpenings(lines)
            plain == {n \in DOMAIN lines : ~lines[n].fence /\ lines[n].hashes = 0}
        IN  \A n \in plain, s \in Unique(opens) :
                LET after  == [lines EXCEPT ![n] = input.case.edit]
                    anchor == Compute(lines, opens, [lineStart |-> s, lineEnd |-> s,
                                                     byteHash |-> <<>>])
                IN  Expires(Resolve(anchor, after, TextOpenings(after))) <=>
                        /\ s \in Enclosing(lines, opens, n)
                        /\ after[n].words # lines[n].words

\* Indenting twice as deep.
Reindent(lines) == [n \in DOMAIN lines |-> [lines[n] EXCEPT !.indent = 2 * @]]

\* The symbol of line n is defined nowhere else, and no definition holds what
\* names and paths are joined with ("package a.b", "ul > li").
DefinedOnce(lang, lines, opens, n) ==
    LET symbol(m) == Symbol(lang, lines[m])
    IN  /\ \A m \in DOMAIN opens \ {n} : symbol(m) # symbol(n)
        /\ \A m \in DOMAIN opens :
               (ToSet(symbol(m).receiver) \cup ToSet(symbol(m).name)) \cap {"dot", "gt"} = {}

\* Reformatting expires no anchor whose path is its own in the file, and such is
\* the path of every symbol that its file defines only once, as long as nobody's
\* name can be mistaken for a path: nesting survives, and methods of different
\* receivers are kept apart.
ReindentKeepsAnchors ==
    input.kind = "source" =>
        LET lines == input.case.lines
            after == Reindent(lines)
            lang  == input.case.lang
            opens == CodeOpenings(lang, lines)
        IN  \A n \in DOMAIN opens :
                LET anchor == Compute(lines, opens, [lineStart |-> n, lineEnd |-> n,
                                                     byteHash |-> <<>>])
                IN  n \in Unique(opens) \/ DefinedOnce(lang, lines, opens, n) =>
                        Resolve(anchor, after, CodeOpenings(lang, after)) = "valid"

-----------------------------------------------------------------------------
(* What a model proposed *)

\* The lines of a text: how many line ends precede position k.
LineOf(source, k) == 1 + Lines(SubSeq(source, 1, k - 1))

\* Whatever the model returns, what is written rests on the source's own words,
\* at the line where they stand, and nothing is written without them.
EvidenceIsTheSource ==
    input.kind = "answer" =>
        LET a    == input.case
            base == Max({a.baseLine, 1})
        IN  \A k \in DOMAIN Evidence(a.source, a.cands, a.baseLine) :
                LET e == Evidence(a.source, a.cands, a.baseLine)[k]
                IN  /\ ~Blank(e.text)
                    /\ \E i \in Occurrences(a.source, e.text) :
                           /\ e.lineStart - base + 1 = LineOf(a.source, i)
                           /\ e.lineEnd - base + 1 =
                                  LineOf(a.source, i + Len(e.text) - 1)
                                  + (IF Last(e.text) = NL THEN 1 ELSE 0)

\* "Span is a 1-based inclusive line range within a Source": the anchor stored
\* with a captured quote names the section of the source the quote stands in.
CaptureAnchorsItsQuote ==
    input.kind = "slice" =>
        LET s == input.case
            line == s.baseLine + s.at - 1
            stored == CaptureAnchor(s.src, s.baseLine,
                          [lineStart |-> line, lineEnd |-> line, text |-> <<>>])
        IN  \A n \in Enclosing(s.src.lines, Openings(s.src), s.at) :
                stored.symbolPath = Path(Openings(s.src), n)

-----------------------------------------------------------------------------
(* Limits *)

\* A pass that prunes leaves the scope at its ceiling, and below it by as much as
\* the aggressiveness asks of the overage, rounded up: never by more, and by less
\* only when nothing is left.  At the ceiling it prunes nothing.
PruneReachesCeiling ==
    input.kind = "ceiling" =>
        LET x == input.case
            cut == L!PruneTarget(x.live, x.ceiling, x.percent)
            below == x.ceiling - (x.live - cut)
            asked == (x.live - x.ceiling) * x.percent
        IN  x.ceiling > 0 =>
                /\ 0 <= cut /\ cut <= x.live
                /\ x.live <= x.ceiling => cut = 0
                /\ x.live > x.ceiling =>
                       /\ 0 <= below /\ 100 * below < asked + 100
                       /\ cut < x.live => asked <= 100 * below

\* "The console can never show a number that disagrees with what a write or a
\* recall was actually allowed to do": the contributions and recalls it says are
\* left are granted one after the other and the next is denied, and of the calls
\* it says are left never one more is made, whatever tokens each of them spends.
HeadroomIsExact ==
    input.kind = "spending" =>
        LET u    == input.case.used
            p    == input.case.policy
            page == usage(u, p)
            after(n) == usage([contributions |-> u.contributions + n, recalls |-> u.recalls + n,
                               calls |-> u.calls + n,
                               tokens |-> u.tokens + n * input.case.tokens], p)
            exact(what) == page[what].remaining # L!Unlimited =>
                \A n \in 0..(page[what].remaining + 1) :
                    after(n)[what].allowed <=> n < page[what].remaining
        IN  /\ exact("contribution") /\ exact("recall")
            /\ page.cost.remaining # L!Unlimited =>
                   ~after(page.cost.remaining).cost.allowed

-----------------------------------------------------------------------------
(* The console *)

\* The pages of a listing, from the first to one that cannot hold anything.
Walk(claims, q, p, limit) ==
    [k \in 0..Cardinality(claims) |-> listClaims(claims, q, p, limit, k * pageLimit(limit))]

\* What stands on the pages, and the order in which they are read.
Entries(walk) == UNION {{k} \X DOMAIN walk[k] : k \in DOMAIN walk}
At(walk, e) == walk[e[1]][e[2]]
ReadBefore(d, e) == d[1] < e[1] \/ (d[1] = e[1] /\ d[2] < e[2])

\* Whoever walks the pages sees each claim of that status they may read once,
\* newest first, and nothing else; a page that is not full is the last one; and
\* a claim is found by its identifier exactly when it is on the page of all.
ListingIsComplete ==
    input.kind = "listing" =>
        LET x     == input.case
            walk  == Walk(x.claims, x.q, x.principal, x.limit)
            all   == Walk(x.claims, [x.q EXCEPT !.status = "all", !.scope = AnyScope],
                          x.principal, x.limit)
            page(offset) == listClaims(x.claims, x.q, x.principal, x.limit, offset)
        IN  /\ {At(walk, e) : e \in Entries(walk)} =
                   {c \in x.claims : /\ CanRead(c, x.principal, x.q.now)
                                    /\ x.q.scope \in {AnyScope, c.scope}
                                    /\ x.q.status \in {"all", statusOf(c, x.q.now)}}
            /\ \A d, e \in Entries(walk) : ReadBefore(d, e) =>
                   /\ At(walk, d) # At(walk, e)
                   /\ At(walk, d).recorded.from >= At(walk, e).recorded.from
            /\ \A offset \in 0..Cardinality(x.claims) :
                   Len(page(offset)) < pageLimit(x.limit) =>
                       page(offset + pageLimit(x.limit)) = <<>>
            /\ \A c \in x.claims : getClaim(x.claims, c.id, x.principal, x.q.now) # {}
                                      <=> c \in {At(all, e) : e \in Entries(all)}

-----------------------------------------------------------------------------
(* The tokenizer *)

\* What reaches the vocabulary has been through every stage of the normalizer,
\* and its tokens spell it, or all of it is unknown: no word is half known, and
\* none turns into a special token.
PiecesSpellTheirWord ==
    input.kind = "text" =>
        \A seg \in ToSet(splitOnAddedTokens(input.case)) : ~seg.special =>
            \A word \in ToSet(preTokenize(normalize(seg.text))) :
                LET pieces == appendWordPieces(word)
                    alone  == punctRanges \cup cjkRanges
                IN  /\ ToSet(word) \cap (controlRanges \cup whitespaceRanges
                           \cup nonspacingMarkRanges \cup DOMAIN lowerMap) = {}
                    /\ word # <<>> /\ (ToSet(word) \cap alone # {} => Len(word) = 1)
                    /\ pieces # <<unkToken>> =>
                           /\ FlattenSeq([k \in DOMAIN pieces |-> pieces[k].text]) = word
                           /\ \A k \in DOMAIN pieces :
                                  /\ pieces[k] \in vocab /\ pieces[k].inner = (k > 1)
                                  /\ pieces[k].text \notin ToSet(addedTokens)
                    /\ (Token(word) \in vocab /\ Len(word) <= maxInputCharsPerWord) =>
                           pieces = <<Token(word)>>

\* What is over the limit is cut off at the end and nowhere else, the closing
\* token survives it, every special token written in the text stands for itself,
\* and in a batch each sequence fits its row and the mask covers exactly it.
TruncationCutsTheTail ==
    input.kind = "text" =>
        LET text == input.case
            all  == FlattenSeq(Units(text))
            kept == Min({Len(all), MaxSequenceLength - 2})
            batch == Padded(<<text, <<>>>>)
        IN  /\ Encode(text) = <<clsToken>> \o SubSeq(all, 1, kept) \o <<sepToken>>
            /\ \A tok \in ToSet(addedTokens) \ {unkToken.text} :
                   Cardinality({k \in DOMAIN all : all[k] = Token(tok)}) = Cardinality(Occurrences(text, tok))
            /\ \A row \in ToSet(batch) :
                   /\ Len(row.mask) = Len(batch[1].mask) /\ Len(row.ids) <= Len(row.mask)
                   /\ \A j \in DOMAIN row.mask : row.mask[j] = 1 <=> j <= Len(row.ids)
=============================================================================
