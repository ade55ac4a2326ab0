------------------------------- MODULE Anchor -------------------------------
(***************************************************************************)
(* The anchor ladder of internal/anchor.  A file is a sequence of lines.   *)
(* What matters of a line is the words it holds, and                       *)
(*   text: fence (it opens or closes a fenced block), hashes (how many "#" *)
(*         it starts with) and the title after them, NoName when blank;    *)
(*   code: indent, and captures: what the definition patterns of a         *)
(*         language find in it, from pattern to [name, receiver].          *)
(* A hash of normalized text is the sequence of its words.  Names, titles  *)
(* and paths are texts: sequences of words and of the characters between   *)
(* them, "blank", "gt" and "dot".  Both anchorers give every line that     *)
(* opens a node a level and a name ("openings"); the rest is the same for  *)
(* both.                                                                   *)
(***************************************************************************)
EXTENDS Integers, FiniteSets, SequencesExt, Order

windowRadius == 3

NoName == <<>>

-----------------------------------------------------------------------------
(* Nodes: the headings of a text, the definitions of a source file *)

\* The stack of enclosing nodes at n, n included: earlier nodes shallower than
\* everything opened since.
Chain(opens, n) ==
    {m \in DOMAIN opens : m <= n /\
        \A k \in DOMAIN opens : (m < k /\ k <= n) => opens[m].level < opens[k].level}

\* Mutant: the path says where in the file the node is.
PathWithLine(opens, n) == <<ToString(n)>> \o opens[n].name

\* One text of several: what is between them may be in one of them too, so
\* different names can make the same text.
Separator == <<"blank", "gt", "blank">>
Joined(names) ==
    FlattenSeq([k \in DOMAIN names |-> IF k = 1 THEN names[k] ELSE Separator \o names[k]])

\* Their names, from the outermost in.
Path(opens, n) == Joined(Picked([m \in DOMAIN opens |-> opens[m].name], Chain(opens, n)))

\* Mutant: a section takes in its child sections.
NestedEnd(lines, opens, n) ==
    Min({m - 1 : m \in {m \in DOMAIN opens : m > n /\ opens[m].level <= opens[n].level}}
        \cup {Len(lines)})

\* The immediate section ends above the next node of any level.
End(lines, opens, n) ==
    Min({m - 1 : m \in {m \in DOMAIN opens : m > n}} \cup {Len(lines)})

\* The words of the lines [from, to], clamped to the file: hashNormalized of
\* sectionText.
Words(lines, from, to) ==
    FlattenSeq([k \in 1..Len(lines) |->
                   IF from <= k /\ k <= to THEN lines[k].words ELSE <<>>])

\* The deepest node whose section contains the line: none or one.
Enclosing(lines, opens, line) ==
    LET covering == {n \in DOMAIN opens : n <= line /\ line <= End(lines, opens, n)}
    IN  {n \in covering : \A m \in covering : opens[m].level <= opens[n].level}

-----------------------------------------------------------------------------
(* The ladder *)

Compute(lines, opens, span) ==
    LET at == Enclosing(lines, opens, span.lineStart)
    IN  [symbolPath |-> IF at = {} THEN <<>> ELSE Path(opens, CHOOSE n \in at : TRUE),
         nodeHash   |-> IF at = {} THEN <<>>
                        ELSE LET n == CHOOSE n \in at : TRUE
                             IN  Words(lines, n, End(lines, opens, n)),
         windowHash |-> Words(lines, span.lineStart - windowRadius,
                              span.lineEnd + windowRadius),
         byteHash   |-> span.byteHash]

Anchored(a) == a.symbolPath # <<>> /\ a.nodeHash # <<>>

\* Tier 1: where the stored path leads in the current file.
Matches(stored, opens) == {n \in DOMAIN opens : Path(opens, n) = stored.symbolPath}

Locate(stored, lines, opens) ==
    LET at == Matches(stored, opens)
    IN  CASE at = {}             -> [status |-> "notFound", nodeHash |-> <<>>]
          [] Cardinality(at) > 1 -> [status |-> "ambiguous", nodeHash |-> <<>>]
          [] OTHER -> LET n == CHOOSE n \in at : TRUE
                      IN  [status |-> "found",
                           nodeHash |-> Words(lines, n, End(lines, opens, n))]

\* The law, for every anchorer: valid iff tiers 1 and 2 agree.
Classify(stored, located) ==
    IF ~Anchored(stored) THEN "unanchored"
    ELSE IF located.status = "ambiguous" THEN "ambiguous"
    ELSE IF located.status = "notFound" \/ located.nodeHash # stored.nodeHash
         THEN "semantic-change"
    ELSE "valid"

Resolve(stored, lines, opens) == Classify(stored, Locate(stored, lines, opens))

Expires(verdict) == verdict \in {"semantic-change", "ambiguous"}

-----------------------------------------------------------------------------
(* Text *)

InFence(lines, n) == Cardinality({k \in 1..n : lines[k].fence}) % 2 = 1

\* parseHeadings: a titled run of "#" outside a fence.
TextOpenings(lines) ==
    [n \in {n \in DOMAIN lines : /\ lines[n].hashes > 0 /\ lines[n].title # NoName
                                 /\ ~InFence(lines, n)}
        |-> [level |-> lines[n].hashes, name |-> lines[n].title]]

-----------------------------------------------------------------------------
(* Code *)

jsControl == {<<w>> : w \in {"if", "for", "while", "switch", "catch", "return", "function",
                             "do", "else", "with"}}
cControl  == {<<w>> : w \in {"if", "for", "while", "switch", "return", "sizeof", "do",
                             "else", "catch"}}

Rule(re) == [re |-> re, joinReceiver |-> FALSE, needsIndent |-> FALSE, reject |-> {}]
Plain(res) == [k \in DOMAIN res |-> Rule(res[k])]
Joining(re) == [Rule(re) EXCEPT !.joinReceiver = TRUE]
Rejecting(re, words) == [Rule(re) EXCEPT !.reject = words]

\* The ordered rules of each language; the first that applies wins.
registry ==
    [go     |-> <<Joining("goMethod")>> \o Plain(<<"goFunc", "goType", "goVarFunc">>),
     jsts   |-> Plain(<<"jsFunc", "jsClass", "jsDecl", "jsConstFn", "jsType">>)
                \o <<[Rejecting("jsMethod", jsControl) EXCEPT !.needsIndent = TRUE]>>,
     py     |-> Plain(<<"pyDef", "pyClass">>),
     rust   |-> Plain(<<"rustMacro", "rustMod", "rustFn", "rustTrait", "rustImpl",
                        "rustStruct", "rustEnum", "rustType", "rustConst">>),
     c      |-> Plain(<<"cMacro", "cRecord", "cTypedef">>) \o <<Rejecting("cFunc", cControl)>>,
     cpp    |-> Plain(<<"cMacro", "cppNamespace", "cppClass", "cppStruct", "cppEnum",
                        "cppUsing", "cRecord">>) \o <<Rejecting("cppFunc", cControl)>>,
     java   |-> Plain(<<"javaPkg", "javaClass", "javaIface", "javaEnum", "javaRecord",
                        "javaMethod">>),
     csharp |-> Plain(<<"csNamespace", "csClass", "csIface", "csStruct", "csEnum",
                        "csRecord", "csProp", "csMethod">>),
     ruby   |-> Plain(<<"rbClass", "rbModule", "rbDef">>),
     php    |-> Plain(<<"phpNamespace", "phpClass", "phpFunc", "phpConst">>),
     swift  |-> Plain(<<"swiftFunc", "swiftType", "swiftTypealias">>),
     kotlin |-> Plain(<<"ktPackage", "ktClass">>) \o <<Joining("ktFun")>>,
     scala  |-> Plain(<<"scalaPackage", "scalaObject", "scalaClass", "scalaDef", "scalaVal">>),
     css    |-> Plain(<<"cssAtRule", "cssSelector">>),
     html   |-> <<>>]

extensions ==
    [go |-> {"go"}, jsts |-> {"ts", "tsx", "mts", "cts", "js", "jsx", "mjs", "cjs"},
     py |-> {"py", "pyi"}, rust |-> {"rs"}, c |-> {"c", "h"},
     cpp |-> {"cc", "cpp", "cxx", "hpp", "hh", "hxx"}, java |-> {"java"}, csharp |-> {"cs"},
     ruby |-> {"rb"}, php |-> {"php"}, swift |-> {"swift"}, kotlin |-> {"kt", "kts"},
     scala |-> {"scala", "sc"}, css |-> {"css", "scss", "less", "sass"},
     html |-> {"html", "htm"}]

\* The languages an extension stands for: one or none.
LangOf(extension) == {l \in DOMAIN extensions : extension \in extensions[l]}

\* A captured file of unknown language is a document.
KindForPath(extension) == IF LangOf(extension) # {} THEN "code" ELSE "document"

\* Mutant: a method is known without its receiver.
BareName(rule, line) == line.captures[rule.re].name

DefName(rule, line) ==
    LET m == line.captures[rule.re]
    IN  IF rule.joinReceiver /\ m.receiver # NoName THEN (m.receiver \o <<"dot">>) \o m.name
        ELSE m.name

Applies(rule, line) ==
    /\ rule.re \in DOMAIN line.captures
    /\ rule.needsIndent => line.indent > 0
    /\ line.captures[rule.re].name \notin rule.reject \cup {NoName}

\* The rules of a language that open a definition on a line.
Applicable(lang, line) ==
    {k \in DOMAIN registry[lang] : Applies(registry[lang][k], line)}

matchDef(lang, line) == registry[lang][Min(Applicable(lang, line))]

\* parseDefs: indentation stands for the heading level.
CodeOpenings(lang, lines) ==
    [n \in {n \in DOMAIN lines : Applicable(lang, lines[n]) # {}} |->
        [level |-> lines[n].indent,
         name  |-> DefName(matchDef(lang, lines[n]), lines[n])]]

-----------------------------------------------------------------------------
\* For: an attestation has no file to resolve against.
Anchors(kind) == kind \in {"document", "code"}

\* What an anchorer sees in a source; an unknown language has no node.
Openings(src) ==
    IF src.kind = "document" THEN TextOpenings(src.lines)
    ELSE IF LangOf(src.extension) = {} THEN [n \in {} |-> NoName]
    ELSE CodeOpenings(CHOOSE l \in LangOf(src.extension) : TRUE, src.lines)
=============================================================================
