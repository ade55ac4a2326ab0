---------------------------- MODULE MCDecisions ----------------------------
(* Inputs for Decisions: every combination of a few intervals, grants, hits, *)
(* lines and proposals.                                                      *)
EXTENDS Decisions

CONSTANT BaseLines  \* where captured spans may begin in their file

Intervals == [from : 0..3, until : 0..3]
AllInstants == 0..4
AllSpans == [a : Intervals, b : Intervals]

AllIncumbents ==
    [claim : [id : {"old"}, valid : {i \in Intervals : T!WellFormed(i)},
              recorded : {i \in Intervals : T!WellFormed(i)}, supersededBy : {"none"}],
     t : 0..3]

GrantSets == {g \in SUBSET [principal : {"p", "q"}, expiresAt : 0..2] : Cardinality(g) <= 2}
AllGuarded ==
    {[claim |-> [acl |-> a, evidence |-> e], more |-> m, now |-> 0, later |-> l] :
        a \in GrantSets, e \in {<<>>} \cup {<<g>> : g \in GrantSets}, m \in GrantSets, l \in 1..2}

Found(ids, n) == {s \in SeqOf(ids, n) : \A i, j \in DOMAIN s : s[i] = s[j] => i = j}
AllRetrieved == [Arms -> Found(1..4, 3)]

AllPackages ==
    [fused : Found(1..3, 3), authorized : SUBSET (1..3), tokens : [1..3 -> 1..3],
     limit : 1..3, budget : 1..4]

Heading(marks, title, word) ==
    [fence |-> FALSE, hashes |-> marks, title |-> title, words |-> <<word>>]
Text(words) == [fence |-> FALSE, hashes |-> 0, title |-> NoName, words |-> words]
Fence == [fence |-> TRUE, hashes |-> 0, title |-> NoName, words |-> <<"fence">>]

\* The title of one section reads like the path of another.
TextLines == {Heading(1, <<"A">>, "# A"), Heading(1, <<"A", "blank", "gt", "blank", "A">>, "# A > A"),
              Heading(2, <<"A">>, "## A"), Heading(1, NoName, "#"), Fence, BlankLine,
              Text(<<"x">>), Text(<<"y">>)}
AllDocuments == [lines : SeqOf(TextLines, 4) \ {<<>>}, edit : {Text(<<"x">>), Text(<<"z">>)}]

Code(indent, captures, word) == [indent |-> indent, captures |-> captures, words |-> <<word>>]
None == [r \in {} |-> NoName]
Def(re, name) == [r \in {re} |-> [name |-> name, receiver |-> NoName]]
Method(name, receiver) == [r \in {"goMethod"} |-> [name |-> name, receiver |-> receiver]]

GoLines == {Code(0, Def("goType", <<"T">>), "type T"), Code(0, Method(<<"m">>, <<"T">>), "T.m"),
            Code(0, Method(<<"m">>, <<"U">>), "U.m"), Code(1, None, "x = 1")}
JsLines == {Code(0, Def("jsClass", <<"C">>), "class C"), Code(2, Def("jsMethod", <<"m">>), "m"),
            Code(4, Def("jsMethod", <<"if">>), "if"), Code(0, Def("jsMethod", <<"go">>), "go"),
            Code(4, None, "end")}
\* Two symbols of one path, and two of one name.
CssLines == {Code(0, Def("cssSelector", <<"ul">>), "ul"), Code(2, Def("cssSelector", <<"li">>), "li"),
             Code(0, Def("cssSelector", <<"ul", "blank", "gt", "blank", "li">>), "ul > li")}
KtLines == {Code(0, Def("ktPackage", <<"a", "dot", "b">>), "package a.b"),
            Code(0, [r \in {"ktFun"} |-> [name |-> <<"b">>, receiver |-> <<"a">>]], "fun a.b()"),
            Code(4, Def("ktFun", <<"b">>), "fun b()")}
AllSources ==
    [lang : {"go"}, lines : SeqOf(GoLines, 4)] \cup [lang : {"jsts"}, lines : SeqOf(JsLines, 4)]
    \cup [lang : {"css"}, lines : SeqOf(CssLines, 4)] \cup [lang : {"kotlin"}, lines : SeqOf(KtLines, 3)]

Proposal ==
    [kind : {"Decision", "Wish"}, statement : {<<"s">>, <<" ">>}, runes : {5, 301},
     quote : SeqOf({"a", NL}, 2), confidence : {50, 170}]
AllAnswers ==
    [source : SeqOf({"a", "b", NL}, 4), cands : {<<c>> : c \in Proposal}, baseLine : {0, 3}]

AllSlices ==
    {x \in [src : [kind : {"document"}, lines : SeqOf({Heading(1, <<"A">>, "# A"),
                    Heading(1, <<"B">>, "# B"), Text(<<"x">>)}, 3)],
            baseLine : BaseLines, at : 1..3] : x.at <= Len(x.src.lines)}

AllCeilings == [live : 0..6, ceiling : 0..4, percent : {0, 50, 150}]

Grants(ps) == {[principal |-> p, expiresAt |-> 0] : p \in ps}
Kept(n, evidence) ==
    [id : {n}, scope : {1 + (n % 2)}, valid : {[from |-> 1, until |-> u] : u \in {0, 2}},
     recorded : {[from |-> f, until |-> u] : f \in 1..2, u \in {0, 3}},
     acl : {Grants({"p"}), Grants({"p", "q"})}, evidence : evidence]
Attested == {<<Grants({"p", "q"})>>}
Tables ==
    {{}} \cup {{a, b, c} : a \in Kept(1, Attested), b \in Kept(2, Attested),
                         c \in {k \in Kept(3, Attested \cup {<<>>}) :
                                   k.recorded.from = 2 /\ k.valid.until = 0}}
AllListings ==
    [claims : Tables, principal : {"q"}, limit : {0, 1, 9},
     q : [id : {AnyId}, scope : {AnyScope, 1}, status : {"live", "expired"}, now : {2}]]
    \cup [claims : Tables, principal : {"p"}, limit : {1},
          q : [id : {AnyId}, scope : {AnyScope}, status : {"all"}, now : {1}]]

Policies == [quota : {0, 2}, maxCalls : {0, 2}, maxTokens : {0, 3}, recallRate : {0, 1}]
AllSpendings ==
    [used : [contributions : 0..3, calls : 0..3, tokens : {0, 3}, recalls : 0..2],
     policy : Policies, tokens : 0..2]

Controls == {"ctl"}
Whites == {" ", "tab"}
Marks == {"acute"}
Puncts == {".", "[", "]"}
Ideographs == {"cjk"}
Lowered == [r \in {"A", "Aacute", "CLS"} |->
               CASE r = "A" -> <<"a">> [] r = "Aacute" -> <<"aacute">> [] OTHER -> <<"cls">>]
Decomposed == [r \in {"Aacute", "aacute"} |-> <<IF r = "Aacute" THEN "A" ELSE "a", "acute">>]
Vocabulary ==
    {Token(t) : t \in {<<"a">>, <<"a", "b">>, <<".">>, <<"[">>, <<"]">>} \cup ToSet(addedTokens)}
    \cup {[inner |-> TRUE, text |-> t] : t \in {<<"b">>, <<"b", "a">>}}
AllTexts ==
    SeqOf({"a", "b", "A", "Aacute", " ", "tab", "ctl", "acute", ".", "cjk", "[", "CLS", "]"}, 3)
    \cup SeqOf({"a", "b", " ", "[", "CLS", "]"}, 4)
=============================================================================
