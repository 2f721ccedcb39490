---------------------------- MODULE MCGrounding ----------------------------
(* Requests, bundles and model results for BundleGrounding: two items that *)
(* speak for, against or both ways, with one to three rows of evidence;    *)
(* and single items that need a label, a forecast or a review.             *)
EXTENDS BundleGrounding

Request == [contract |-> "v1", snapshot |-> "s1", query |-> "q", symbol |-> "A",
            policy |-> "PUBLIC_STRICT", maxItems |-> 20, asOf |-> 5]

Second == [Request EXCEPT !.contract = "v2"]

BundleRequestsDef ==
    {Request, Second, [Second EXCEPT !.symbol = "UNSPECIFIED"], [Request EXCEPT !.snapshot = "latest"]}

Words(words, facts) == [NoText EXCEPT !.words = words, !.facts = facts]

Row(i, ownership, modality) ==
    [id |-> i, ownership |-> ownership, modality |-> modality, located |-> TRUE, text |-> NoText]

RowsFrom(base, n) ==
    {Row(base + 1, "PRIMARY", "transcript")} \cup {Row(base + k, "SECONDARY", "ocr") : k \in 2 .. n}

Knowledge(id, words, n) ==
    [id |-> id, statement |-> Words(words, {}), details |-> {Words({}, {"x"})}, nature |-> "FACT",
     grade |-> "PRIMARY", verified |-> TRUE, label |-> Nothing, time |-> "EVENT", unknown |-> FALSE,
     at |-> 3, review |-> FALSE, disputed |-> FALSE, support |-> "SOURCE_SUPPORTED",
     lifecycle |-> "ACTIVE", grounded |-> TRUE, evidence |-> RowsFrom(10 * id, n)]

FirstItems ==
    {<<Knowledge(1, {w}, n), Knowledge(2, {v}, m)>> : w, v \in {"rise", "fall"}, n, m \in 1 .. 3}
    \cup {<<Knowledge(1, {"rise", "fall"}, 1)>>}

Variants ==
    LET i == Knowledge(1, {"rise"}, 2)
    IN  {i,
         [i EXCEPT !.nature = "OPINION", !.label = "L"],
         [i EXCEPT !.nature = "OPINION"],
         [i EXCEPT !.grade = "SECONDARY", !.verified = FALSE, !.label = "L"],
         [i EXCEPT !.nature = "OPINION", !.label = "L", !.statement.action = TRUE],
         [i EXCEPT !.grade = "SOURCE_ASSERTION", !.verified = FALSE],
         [i EXCEPT !.nature = "SOURCE_FORECAST", !.label = "L"],
         [i EXCEPT !.at = 9],
         [i EXCEPT !.at = 9, !.time = "FORECAST_TARGET"],
         [i EXCEPT !.time = "UNKNOWN", !.unknown = TRUE],
         [i EXCEPT !.time = "UNKNOWN"],
         [i EXCEPT !.review = TRUE],
         [i EXCEPT !.details = {i.statement}],
         [i EXCEPT !.statement.action = TRUE, !.details = {[Words({}, {"x"}) EXCEPT !.action = TRUE]}]}

SecondItems == {<<i>> : i \in Variants} \cup {<<i, Knowledge(2, {"fall"}, 1)>> : i \in Variants} \cup {<<>>}

QualityOf(items) ==
    LET primary == {i \in DOMAIN items : items[i].grade = "PRIMARY" /\ items[i].verified}
    IN  [knowledge |-> Len(items), candidates |-> Len(items) + 1, eligible |-> Len(items),
         excluded |-> 1, truncated |-> 0, grounded |-> Cardinality(primary), numeric |-> 0,
         numericGrounded |-> 0, reviews |-> 1, conflicts |-> 0]

BundleFor(r, items) ==
    [contract |-> r.contract, producer |-> "stock_content", material |-> "m", hash |-> "m",
     request |-> RequestPayload(r), requestHash |-> RequestPayload(r), snapshot |-> r.snapshot,
     query |-> r.query, asOf |-> r.asOf,
     subject |-> IF r.symbol = "UNSPECIFIED" THEN Nothing ELSE r.symbol,
     secret |-> FALSE, items |-> items, quality |-> QualityOf(items)]

PayloadsDef ==
    {BundleFor(Request, items) : items \in FirstItems}
    \cup {BundleFor(Second, items) : items \in SecondItems}
    \cup {[BundleFor(Second, <<Knowledge(1, {"rise"}, 1)>>) EXCEPT !.hash = "x"],
          BundleFor([Second EXCEPT !.symbol = "UNSPECIFIED"], <<Knowledge(1, {"rise"}, 1)>>)}

Finding(words, knowledge, rows, labels, forecast) ==
    [text |-> [Words(words, {}) EXCEPT !.labels = labels, !.forecast = forecast],
     knowledge |-> knowledge, evidence |-> rows]

Findings ==
    {Finding(w, k, e, l, f) : w \in {{}, {"rise"}, {"fall"}}, k \in {{1}, {1, 2}},
                              e \in {{11}, {21}, {11, 21}}, l \in {{}, {"L"}}, f \in BOOLEAN}

BothWays == {Finding({"rise"}, {1}, {11}, {}, FALSE), Finding({"fall"}, {2}, {21}, {}, FALSE)}

ProposalsDef ==
    [verdict : {"SUPPORTED", "CONTRADICTED", "MIXED", "INSUFFICIENT_EVIDENCE"},
     stance : {"BULLISH", "UNCERTAIN"}, findings : {{f} : f \in Findings} \cup {BothWays},
     indicesOk : {TRUE}]

=============================================================================
