--------------------------- MODULE CatalogSearch ---------------------------
(* One search of a store's catalog (products/search): a function of the       *)
(* planner's plan, the vector hits and one snapshot of the catalog.           *)
(*                                                                            *)
(* A text is the set of its words; `Inside` says which words are found inside *)
(* others ("cap" in "helmet-cap": the database compares substrings).  An      *)
(* optional value is the set of it: {} for null.  A snapshot c is             *)
(*   [product: [Products -> [status, name, aliases, category, prose]],        *)
(*    variant: [Variants -> [of, sku, active, price, compareAt, trackStock,   *)
(*                           meta, balance]], business, categories].          *)
EXTENDS Naturals, FiniteSets, SequencesExt

CONSTANTS Products, Variants,
          Order,          \* [Products \union Variants -> Nat]: order of ids, SKUs
          Inside,         \* pairs <<a, b>>: the text a is found in the word b
          Canon,          \* [word -> word]: the stored value an alias stands for
          Presets,        \* [business -> set of field definitions]
          QuestionWords,  \* QUESTION_TERMS, FUNCTION_WORDS and numbers
          MaxTerms,       \* 12 subject words of a question
          MaxEvidence,    \* 12 rows of evidence
          MaxCandidates,  \* 60 products of the lexical search
          MaxSelected,    \* 5 products of a RECOMMEND or COMPARE, 5 choices
          RankConstant    \* 60, of the rank fusion

None == "none"

\* The ids of a table are ordered, as are the SKUs; a fused score divides by a
\* positive number.
ASSUME SearchAssumption ==
  /\ IsFiniteSet(Products) /\ IsFiniteSet(Variants)
  /\ Order \in [Products \union Variants -> Nat]
  /\ \A a, b \in Products : Order[a] = Order[b] => a = b
  /\ \A a, b \in Variants : Order[a] = Order[b] => a = b
  /\ {MaxTerms, MaxEvidence, MaxCandidates, MaxSelected} \subseteq Nat \ {0}
  /\ RankConstant \in Nat

FoundIn(text, word) == \E w \in text : w = word \/ <<word, w>> \in Inside
ItemsOf(s) == {s[i] : i \in DOMAIN s}
FirstOf(s, n) == SubSeq(s, 1, IF Len(s) < n THEN Len(s) ELSE n)

\* The elements of S in the order `before`: as many come before each as are put
\* before it.
InOrder(S, before(_, _)) ==
  LET placed == {<<x, 1 + Cardinality({y \in S : before(y, x)})>> : x \in S}
  IN  [i \in 1 .. Cardinality(S) |-> (CHOOSE e \in placed : e[2] = i)[1]]

Sorted(ids) == InOrder(ids, LAMBDA a, b : Order[a] < Order[b])
ByScore(ids, score) ==
  InOrder(ids, LAMBDA a, b : \/ score[a] > score[b]
                             \/ score[a] = score[b] /\ Order[a] < Order[b])

\* The elements of a list that are in S, as they were ordered.
Among(list, S) ==
  LET at == InOrder({i \in DOMAIN list : list[i] \in S}, LAMBDA i, j : i < j)
  IN  [i \in DOMAIN at |-> list[at[i]]]

----------------------------------------------------------------------------
(* The store's fields.                                                        *)

LoadCatalogFields(c) == Presets[c.business]

\* A preset's fields apply to the categories the store gave it, or to all.
AppliesToCategory(c, category) ==
  c.categories = {} \/ category \intersect c.categories # {}

SearchableProductKeys(c) ==
  {d.key : d \in {f \in LoadCatalogFields(c) : ~f.option /\ f.searchable}}

\* A value is [words, number]; one without either is not shown.
Said(words) == [words |-> words, number |-> {}]
Amount(numbers) == [words |-> {}, number |-> numbers]
Nothing == Said({})
ValueOf(v, key) == IF key \in DOMAIN v.meta THEN v.meta[key] ELSE Nothing
LabelledAttributes(fields, v) ==
  {<<d.key, ValueOf(v, d.key)>> : d \in {f \in fields : ValueOf(v, f.key) # Nothing}}

FieldOperators(field) ==
  CASE field.type = "NUMBER" -> {"EQ", "GTE", "LTE"}
    [] field.type = "TAGS"   -> {"CONTAINS", "NOT_CONTAINS"}
    [] OTHER                 -> {"EQ", "CONTAINS"}

\* Every filter names a searchable field, with an operator and a value of its type.
ValidateBusinessFilters(plan, fields) ==
  \A f \in plan.filters :
    \E d \in fields :
      /\ d.key = f.key /\ d.searchable
      /\ f.operator \in FieldOperators(d)
      /\ (d.type = "NUMBER") = (f.value.number # {})

\* Two words for one value: prefixes, units and the aliases of the field aside.
OptionMatches(stored, asked) ==
  \E s \in stored, a \in asked : Canon[s] = Canon[a]

MatchesNumber(operator, stored, asked) ==
  \E s \in stored, a \in asked : CASE operator = "GTE" -> s >= a
                                   [] operator = "LTE" -> s <= a
                                   [] OTHER            -> s = a

MatchesFilter(field, stored, filter) ==
  /\ stored # Nothing
  /\ CASE field.type = "NUMBER" ->
            MatchesNumber(filter.operator, stored.number, filter.value.number)
       [] field.type = "TAGS" ->
            OptionMatches(stored.words, filter.value.words)
              = (filter.operator = "CONTAINS")
       [] filter.operator = "CONTAINS" ->
            \A w \in filter.value.words : FoundIn(stored.words, w)
       [] OTHER -> OptionMatches(stored.words, filter.value.words)

\* Every option and every filter holds on this one variant.
MatchesBusinessFields(c, v, category, plan) ==
  /\ \A o \in plan.options :
       \E d \in LoadCatalogFields(c) :
         /\ d.key = o.key /\ AppliesToCategory(c, category) /\ d.option
         /\ OptionMatches(ValueOf(v, o.key).words, {o.value})
  /\ \A f \in plan.filters :
       \E d \in LoadCatalogFields(c) :
         /\ d.key = f.key /\ AppliesToCategory(c, category) /\ d.searchable
         /\ MatchesFilter(d, ValueOf(v, f.key), f)

----------------------------------------------------------------------------
(* The words of a product and of a question.                                  *)

VariantsOf(c, p) == {v \in Variants : c.variant[v].of = p}
ActiveVariants(c, p) == {v \in VariantsOf(c, p) : c.variant[v].active}
Listed(c) == {p \in Products : c.product[p].status = "ACTIVE"}

\* The values of the searchable fields that are not options, such as a brand.
SearchableValues(c, p) ==
  UNION {ValueOf(c.variant[v], k).words :
           v \in ActiveVariants(c, p), k \in SearchableProductKeys(c)}

IdentityHits(c, p, terms) ==
  LET r == c.product[p]
      text == r.name \union r.aliases \union r.category \union SearchableValues(c, p)
  IN  Cardinality({t \in terms : FoundIn(text, t)})

\* The words of a plan that describe a variant, never which product.
NonSubjectWords(c, plan) ==
  {o.value : o \in plan.options}
    \union (UNION {f.value.words : f \in plan.filters})
    \union {d.label : d \in LoadCatalogFields(c)}

\* The words that may name what a question is about: the first MaxTerms of them,
\* in whichever order a longer question says them.
ProductContentTerms(query, exclude) ==
  LET terms == query \ (QuestionWords \union exclude)
  IN  IF Cardinality(terms) <= MaxTerms THEN terms
      ELSE CHOOSE first \in SUBSET terms : Cardinality(first) = MaxTerms

MentionsSku(query, sku) == sku \in query

\* Products whose whole name, one alias or one SKU is in the question.  (The code
\* reads 21 of them, passing over aliases of one letter.)
Probe(c, query) ==
  {p \in Listed(c) :
     /\ ActiveVariants(c, p) # {}
     /\ \/ \E v \in ActiveVariants(c, p) : MentionsSku(query, c.variant[v].sku)
        \/ \A w \in c.product[p].name : FoundIn(query, w)
        \/ \E a \in c.product[p].aliases : FoundIn(query, a)}

MentionsCatalog(c, message) ==
  LET terms == ProductContentTerms(message,
                                   {d.label : d \in LoadCatalogFields(c)})
  IN  terms # {} /\ \E p \in Listed(c) : IdentityHits(c, p, terms) > 0

\* The fields whose values the planner may ask for, and the categories in use.
PlannerCatalog(c) ==
  LET fields == {d \in LoadCatalogFields(c) : d.searchable /\ d.visible}
  IN  [business |-> c.business,
       fields |-> {<<d.key, FieldOperators(d)>> : d \in fields},
       options |-> {d.key : d \in {f \in fields : f.option}},
       categories |-> UNION {c.product[p].category : p \in Listed(c)}]

----------------------------------------------------------------------------
(* The plan's policy and the evidence of one product.                         *)

HasCatalogConstraints(plan) ==
  \/ plan.options # {} \/ plan.filters # {} \/ plan.category # {}
  \/ plan.minPrice # {} \/ plan.maxPrice # {} \/ plan.inStockOnly

\* Stock-only filtering follows the customer's own words, and never a DETAIL.
GroundStockFilter(plan, asksStock) ==
  [plan EXCEPT !.inStockOnly = @ /\ asksStock /\ plan.operation # "DETAIL",
               !.onHand = "warehouse" \in plan.query]

Stock(v) ==
  CASE ~v.trackStock   -> "NOT_TRACKED"
    [] v.balance = {}  -> "UNKNOWN"
    [] OTHER -> IF \E b \in v.balance : b.onHand > b.reserved
                THEN "IN_STOCK" ELSE "OUT_OF_STOCK"

PriceFits(v, plan) ==
  /\ plan.operation = "CHEAPEST" \/ plan.minPrice # {} \/ plan.maxPrice # {}
       => v.price # {}
  /\ \A p \in v.price : /\ \A a \in plan.minPrice : p >= a
                        /\ \A b \in plan.maxPrice : p <= b

\* A compare-at price counts only above the selling price.
ProductDiscount(v) ==
  {[original |-> x[1], discount |-> x[1] - x[2]] :
     x \in {y \in v.compareAt \X v.price : y[1] > y[2]}}

Fact(c, p, id) ==
  LET v == c.variant[id]
      fields == IF AppliesToCategory(c, c.product[p].category)
                THEN {d \in LoadCatalogFields(c) : d.visible} ELSE {}
  IN  [product |-> p, variant |-> id, price |-> v.price,
       text |-> c.product[p].name \union c.product[p].aliases
                  \union c.product[p].category,
       discount |-> ProductDiscount(v), stock |-> Stock(v),
       onHand |-> IF v.trackStock THEN {b.onHand : b \in v.balance} ELSE {},
       available |-> IF v.trackStock
                     THEN {b.onHand - b.reserved : b \in v.balance} ELSE {},
       details |-> LabelledAttributes({d \in fields : ~d.option}, v),
       options |-> LabelledAttributes({d \in fields : d.option}, v)]

\* The variants of one product that satisfy the whole plan, in SKU order.
Evidence(c, p, plan) ==
  LET named == {v \in ActiveVariants(c, p) : MentionsSku(plan.query, c.variant[v].sku)}
      fits == {v \in ActiveVariants(c, p) :
                 /\ plan.variantIds # {} => v \in plan.variantIds
                 /\ MatchesBusinessFields(c, c.variant[v], c.product[p].category, plan)
                 /\ named # {} => v \in named
                 /\ PriceFits(c.variant[v], plan)
                 /\ plan.inStockOnly => Stock(c.variant[v]) = "IN_STOCK"}
      order == Sorted(fits)
  IN  [i \in DOMAIN order |-> Fact(c, p, order[i])]

----------------------------------------------------------------------------
(* The search.                                                                *)

Outcome(status, choices) ==
  [status |-> status, evidence |-> <<>>, choices |-> FirstOf(choices, MaxSelected),
   identified |-> FALSE, total |-> {}, truncated |-> FALSE, options |-> {}]

\* A cheapest-first search orders by price, and equal prices by SKU.
Ordered(evidence, plan) ==
  IF plan.operation # "CHEAPEST" THEN evidence
  ELSE LET rows == {i \in DOMAIN evidence : evidence[i].price # {}}
           amount(i) == CHOOSE n \in evidence[i].price : TRUE
           sku(i) == Order[evidence[i].variant]
           order == InOrder(rows, LAMBDA i, j : \/ amount(i) < amount(j)
                                                \/ amount(i) = amount(j) /\ sku(i) < sku(j))
       IN  [i \in DOMAIN order |-> evidence[order[i]]]

\* A category some product carries is matched as it is; other words loosely.
InCategory(c, p, category) ==
  IF \E q \in Products : category \subseteq c.product[q].category
  THEN category \subseteq c.product[p].category
  ELSE \A w \in category :
         \/ FoundIn(c.product[p].category, w)
         \/ FoundIn(c.product[p].name, w)
         \/ w \in c.product[p].aliases

\* Every subject word must be found: a count of a broader set would be wrong.
\* A plausible bug: one word found is enough.
SubjectLoosely(c, terms) == {p \in Listed(c) : IdentityHits(c, p, terms) > 0}

Subject(c, terms) ==
  {p \in Listed(c) : IdentityHits(c, p, terms) = Cardinality(terms)}

Filtered(c, plan) ==
  {p \in Listed(c) : plan.category # {} => InCategory(c, p, plan.category)}

CountsProducts(plan) == plan.operation = "COUNT" /\ plan.countUnit = "PRODUCTS"

\* One product more: its rows are counted, and the first of all are kept.
Added(c, plan, acc, p) ==
  LET facts == Evidence(c, p, plan)
  IN  IF facts = <<>> THEN acc
      ELSE [total |-> acc.total + (IF CountsProducts(plan) THEN 1 ELSE Len(facts)),
            evidence |-> FirstOf(Ordered(acc.evidence \o facts, plan), MaxEvidence)]

\* The products of a list, one after the other.
Scan(c, plan, list) ==
  LET after[n \in 0 .. Len(list)] ==
        IF n = 0 THEN [total |-> 0, evidence |-> <<>>]
        ELSE Added(c, plan, after[n - 1], list[n])
  IN  after[Len(list)]

\* An aggregate reads every product of the filters, page after page.
Aggregate(c, plan, ids, terms) ==
  LET subject == IF ids # {} THEN ids
                 ELSE IF terms # {} THEN Subject(c, terms) ELSE Listed(c)
      all == Scan(c, plan, Sorted(Filtered(c, plan) \intersect subject))
  IN  IF all.total = 0 THEN Outcome("NO_MATCH", <<>>)
      ELSE [Outcome("FOUND", <<>>) EXCEPT
              !.evidence = all.evidence, !.total = {all.total},
              !.truncated = all.total > Len(all.evidence)]

\* What the database finds: one subject word anywhere in the product's text.
LexicalMatches(c, terms) ==
  {p \in Listed(c) :
     \E t \in terms : FoundIn(c.product[p].name \union c.product[p].aliases
                                 \union c.product[p].prose \union c.product[p].category
                                 \union SearchableValues(c, p), t)}

Relevance(c, p, terms) ==
  LET r == c.product[p]
      named == {t \in terms : FoundIn(r.name \union r.aliases, t)}
      described == {t \in terms \ named :
                      FoundIn(r.prose \union r.category \union SearchableValues(c, p), t)}
  IN  4 * Cardinality(named) + Cardinality(described)

\* The candidates are the most relevant of them.
LexicalRows(c, terms) ==
  LET matches == LexicalMatches(c, terms)
      relevance == [p \in matches |-> Relevance(c, p, terms)]
  IN  ItemsOf(FirstOf(ByScore(matches, relevance), MaxCandidates))

\* The BM25 score, as the weight of the shared words (SKUs and aliases 4, the
\* name 2, the rest 1).
LexicalScore(c, p, terms) ==
  LET r == c.product[p]
      keywords == r.aliases \union {c.variant[v].sku : v \in ActiveVariants(c, p)}
      rest == r.category \union r.prose
                \union UNION {ValueOf(c.variant[v], d.key).words :
                                v \in ActiveVariants(c, p),
                                d \in {f \in LoadCatalogFields(c) : f.searchable}}
      shared(text) == Cardinality(terms \intersect text)
  IN  4 * shared(keywords) + 2 * shared(r.name) + shared(rest)

\* Reciprocal rank fusion of the two lists, in millionths.
FusedScore(p, lists) ==
  LET part(i) == IF p \in ItemsOf(lists[i])
                 THEN 1000000 \div (RankConstant
                                    + CHOOSE k \in DOMAIN lists[i] : lists[i][k] = p)
                 ELSE 0
  IN  part(1) + part(2)

RankedProducts(c, records, terms, vectors, hits, reliable) ==
  LET score == [p \in records |-> LexicalScore(c, p, terms)]
      lexical == ByScore({p \in records : score[p] > 0}, score)
      close == Among(vectors, {r \in ItemsOf(vectors) : r.close})
      lists == <<lexical, [i \in DOMAIN close |-> close[i].product]>>
      fused == [p \in records |-> FusedScore(p, lists)]
      kept == {p \in records : reliable \/ fused[p] > 0 \/ hits[p] > 0}
  IN  ByScore(kept, fused)

\* Of several products, those that cover most of the subject.
Covering(left, hits) ==
  LET best == CHOOSE n \in {hits[p] : p \in ItemsOf(left)} :
                \A p \in ItemsOf(left) : hits[p] <= n
  IN  IF best > 0 THEN Among(left, {p \in ItemsOf(left) : hits[p] = best}) ELSE left

\* Which products of a DETAIL answer it: constraints settle ambiguity first,
\* then the product that covers strictly more of the subject; a tie stays one.
\* A plausible bug: the first of the ranking is picked.
FirstLeader(c, ranked, hits, plan) == FirstOf(ranked, 1)

Leaders(c, ranked, hits, plan) ==
  LET satisfying == Among(ranked, {p \in ItemsOf(ranked) : Evidence(c, p, plan) # <<>>})
  IN  Covering(IF satisfying # <<>> THEN satisfying ELSE ranked, hits)

\* The product is known and only the option is not sold: its real options.
VariantUnavailable(c, p) ==
  [Outcome("VARIANT_UNAVAILABLE", <<p>>) EXCEPT
     !.options = UNION {LabelledAttributes({d \in LoadCatalogFields(c) :
                                              d.option /\ d.visible}, c.variant[v]) :
                          v \in ActiveVariants(c, p)}]

\* The evidence of the selected products, or the question back.
FromEvidence(c, plan, ranked, selected, evidence, reliable) ==
  CASE plan.operation = "COMPARE" /\ Len(evidence) < 2 -> Outcome("MISSING_INPUT", selected)
    [] evidence = <<>> ->
         IF /\ Len(selected) = 1 /\ plan.options # {}
            /\ Evidence(c, Head(selected), [plan EXCEPT !.options = {}]) # <<>>
         THEN VariantUnavailable(c, Head(selected))
         ELSE Outcome("MISSING_INPUT", selected)
    [] OTHER ->
         [Outcome("FOUND", <<>>) EXCEPT
            !.evidence = FirstOf(evidence, MaxEvidence),
            !.identified = reliable,
            !.truncated = Len(evidence) > MaxEvidence \/ Len(ranked) > Len(selected)]

Answerable(c, plan, ranked, reliable) ==
  LET selected == FirstOf(ranked, IF plan.operation = "DETAIL" THEN 1 ELSE MaxSelected)
  IN  FromEvidence(c, plan, ranked, selected,
                   FlattenSeq([i \in DOMAIN selected |-> Evidence(c, selected[i], plan)]),
                   reliable)

\* A tie of a DETAIL, or of an ambiguous question, goes back to the customer.
Settled(c, plan, leaders, vectors, reliable) ==
  CASE leaders = <<>> ->
         Outcome(IF vectors # <<>> THEN "NO_RELIABLE_CANDIDATE" ELSE "NO_MATCH", <<>>)
    [] /\ Len(leaders) > 1
       /\ plan.ambiguous \/ (~reliable /\ plan.operation = "DETAIL") ->
         Outcome("MISSING_INPUT", leaders)
    [] OTHER -> Answerable(c, plan, leaders, reliable)

Narrowed(c, plan, ranked, hits, reliable) ==
  IF ~reliable /\ plan.operation = "DETAIL" /\ Len(ranked) > 1
  THEN Leaders(c, ranked, hits, plan) ELSE ranked

Candidates(c, plan, ids, terms, vectors) ==
  LET reliable == ids # {}
      lexical == IF reliable THEN {} ELSE LexicalRows(c, terms)
      records == Filtered(c, plan) \intersect
                   (IF reliable THEN ids
                    ELSE lexical \union {r.product : r \in ItemsOf(vectors)})
      hits == [p \in Products |-> IF p \in lexical THEN IdentityHits(c, p, terms)
                                  ELSE 0]
  IN  Settled(c, plan,
              Narrowed(c, plan, RankedProducts(c, records, terms, vectors, hits, reliable),
                       hits, reliable),
              vectors, reliable)

\* ids: the products the plan names, or the one the question names in full.
Read(c, plan, vectors) ==
  LET exact == IF plan.productIds = {} /\ plan.operation = "DETAIL"
               THEN Probe(c, plan.query) ELSE {}
      ids == IF plan.productIds # {} THEN plan.productIds ELSE exact
      found == IF ids # {} THEN <<>> ELSE vectors
      terms == ProductContentTerms(plan.query, NonSubjectWords(c, plan))
      noSubject == ids = {} /\ terms = {} /\ found = <<>>
      allCatalog == \/ plan.operation \in {"LIST", "COUNT", "CHEAPEST"}
                    \/ terms = {} /\ plan.filters # {}
                    \/ noSubject
  IN  CASE Cardinality(exact) > 1 -> Outcome("MISSING_INPUT", Sorted(exact))
        [] noSubject /\ ~HasCatalogConstraints(plan) ->
             Outcome("MISSING_INPUT", <<>>)
        [] allCatalog -> Aggregate(c, plan, ids, terms)
        [] OTHER -> Candidates(c, plan, ids, terms, found)
=============================================================================
