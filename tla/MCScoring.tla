------------------------------- MODULE MCScoring -------------------------------
EXTENDS Scoring, TLC
CONSTANTS e1, e2, e3, e4, e5, d1, d2

Event(source, trigger, told, at, corroborates, score) ==
  [source |-> source, trigger |-> trigger, symptom |-> ~trigger, summary |-> told,
   at |-> at, corroborates |-> corroborates, score |-> score]

MCEvents ==
  e1 :> Event("deployment", TRUE, 1, 1, FALSE, 5) @@ e2 :> Event("alert", FALSE, 2, 2, TRUE, 3)
  @@ e3 :> Event("log", FALSE, 3, 2, FALSE, 5) @@ e4 :> Event("log", FALSE, 3, 3, FALSE, 2)
  @@ e5 :> Event("manual", TRUE, 4, 3, FALSE, None)

MCActionKinds ==
  {Step("manual", "none", FALSE), Step("rollback", "none", TRUE),
   Step("firewall_rule", "destructive", FALSE),
   [Step("config_change", "none", FALSE) EXCEPT !.reversible = FALSE]}

W(text, shape, roles) == [text |-> text, shape |-> shape, roles |-> roles]

MCVocabulary ==
  {W("how", "plain", {"question"}), W("that", "plain", {"pronoun", "context"}),
   W("fix", "upper", {"verb"}), W("issue", "plain", {"noun", "topic"}),
   W("replicas", "plain", {"long"}), W("max_age", "snake", {}),
   W("2.1", "version", {})}

\* The letters of the k-th block, by their place.
Lettered(k, shape) == [i \in DOMAIN shape |-> IF shape[i] = 1 THEN 20 * k + i ELSE shape[i]]
Plain(k, shape)    == [symbols |-> Lettered(k, shape), heading |-> FALSE, readable |-> TRUE]

MCShapes == UNION {[1 .. n -> {1, Space, Newline, Period}] : n \in 1 .. 5}

\* Four words with any separators between.
Words == {<<1>>, <<1, 1>>}
Between == {<<Space>>, <<Newline>>, <<Newline, Newline>>, <<Period, Space>>}
MCSentences ==
  {a \o p \o b \o q \o c \o r \o a : a, b, c \in Words, p, q, r \in Between}

MCBlocks(k) ==
  {Plain(k, <<1, 1>>), Plain(k, <<Space>>), [Plain(k, <<1>>) EXCEPT !.heading = TRUE],
   [Plain(k, <<1, Space, 1>>) EXCEPT !.readable = FALSE], Plain(k, <<Control>>)}

MCFiles ==
  {[format |-> "txt", blocks |-> <<Plain(1, s)>>] : s \in MCShapes \cup MCSentences}
  \cup {[format |-> f, blocks |-> <<a, b, c>>] :
          f \in {"txt", "md", "docx", "pdf"}, a \in MCBlocks(1), b \in MCBlocks(2), c \in MCBlocks(3)}
  \cup {[format |-> "docx", blocks |-> <<a, [Plain(2, <<Space>>) EXCEPT !.heading = TRUE], b>>] :
          a \in MCBlocks(1), b \in MCBlocks(3)}
  \cup {[format |-> "other", blocks |-> <<Plain(1, <<1>>)>>]}

Sizing(size, overlap, maxText, maxPassages) ==
  [size |-> size, overlap |-> overlap, maxText |-> maxText, maxPassages |-> maxPassages]

MCSizings == {Sizing(5, 2, 99, 99), Sizing(4, 3, 13, 99), Sizing(6, 0, 99, 2)}

P(origin, place, length) == [origin |-> origin, place |-> place, length |-> length]
MCFound(origin) == {<<>>, <<P(origin, 1, 70)>>} \cup
  {[n \in 1 .. 4 |-> P(origin, n, lengths[n])] : lengths \in [1 .. 4 -> {7, 10, 24}]}

\* Whatever hybrid search finds, and the cases where it is not asked or raises.
MCRequests ==
  {[adaptive |-> a, hybridRaises |-> r, arxiv |-> x, grounded |-> g,
    finds |-> [o \in {"adaptive", "hybrid", "arxiv"} |->
       CASE o = "hybrid" -> h [] o = "adaptive" -> IF h = <<>> THEN <<>> ELSE <<P("adaptive", 1, 24)>>
         [] OTHER -> <<P("arxiv", 1, 10), P("arxiv", 3, 24)>>]] :
    a \in {"answers", "raises"}, r \in {FALSE}, x \in {"answers", "late"},
    g \in {"verified", "raises"}, h \in MCFound("hybrid")}
  \cup {[adaptive |-> "off", hybridRaises |-> r, arxiv |-> "off", grounded |-> "off",
         finds |-> [o \in {"adaptive", "hybrid", "arxiv"} |-> <<>>]] : r \in BOOLEAN}

MCAnswers == [numbers : {{}, {1}, {1, 2}, {2, 4}, {9}}, refuses : BOOLEAN]

Scored(a, b, c, d) == (e1 :> a) @@ (e2 :> b) @@ (e3 :> c) @@ (e4 :> d) @@ (e5 :> 0)

MCSearches ==
  [events : {<<>>, <<e1, e2, e3, e4>>}, terms : {Scored(0, 2, 1, 2), Scored(0, 0, 0, 0)},
   similar : {Scored(80, 5, None, 40)}, semantic : {"on", "off", "fails"}, grounding : BOOLEAN]

D(s, c) == [supports |-> s, contradicts |-> c, claims |-> FALSE]
MCDrafts ==
  {D({e1, e2, e4}, {}), D({e1}, {e2}), D({Foreign}, {e2, e4}), D({e3, Foreign}, {}),
   D({}, {Foreign}), D({e1, e2, e3, e4}, {e3})}

NS(risky) == [risky |-> risky, approval |-> FALSE]

MCOutputs ==
  [reads : {"valid"}, notes : BOOLEAN, steps : {<<NS(TRUE), NS(FALSE)>>},
   drafts : UNION {[1 .. n -> MCDrafts] : n \in 0 .. 2} \cup {[n \in 1 .. 3 |-> D({e1}, {})]}]
  \cup [reads : {"no JSON", "no object", "off schema"}, notes : {FALSE}, steps : {<<>>},
        drafts : {<<>>}]

Named(d) == [name |-> d, slug |-> NoDocument, snippet |-> FALSE]
Slug(d)  == [name |-> NoDocument, slug |-> d, snippet |-> FALSE]
C(id, expected, route0) ==
  [id |-> id, blank |-> FALSE, expected |-> expected, route |-> route0,
   category |-> IF id = 1 THEN "factual" ELSE "semantic"]

MCDatasets ==
  {<<C(1, {Named(d1)}, "VECTOR"), C(2, x, r)>> :
     x \in {{Named(d1), Named(d2)}, {Slug(d2)}}, r \in {"KEYWORD", "HYBRID", "HYBRID_WIDE"}}
  \cup {<<>>, <<C(1, {}, "HYBRID")>>, <<C(1, {Named(d1)}, "HYBRID"), C(1, {Named(d2)}, "HYBRID")>>}

MCRankings == {<<>>, <<d1>>, <<d2, d2, d1>>, <<d2, d1, d1>>, <<d2, d2>>}
=============================================================================
