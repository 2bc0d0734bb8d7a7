--------------------------- MODULE ProductAnswer ---------------------------
(* What a customer may be shown of one search (chatbot/knowledge/product):    *)
(* the checks a template of the AI model passes before it is filled from the  *)
(* evidence, and the answer composed without the model.                       *)
(*                                                                            *)
(* A workflow w is [plan, result, business, policies]; `policies` is the set  *)
(* of the store's policy texts.  A template is [decision, cites, used, claims,*)
(* words]: its verdict, the evidence it cites, the tokens [row, field, key]   *)
(* it uses, and what its prose outside the tokens says: `claims`, a figure or *)
(* a price or stock phrase, and its words.  A fact shown is                   *)
(* [product, variant, field, value].                                          *)
EXTENDS CatalogSearch

When(condition, set) == IF condition THEN set ELSE {}

Asks(w, ask) == ask \in w.plan.asks

\* Which facts the question needs; names, SKUs and options are always allowed.
ProductFieldPolicy(plan) ==
  LET asks == plan.asks \ {"POLICY"}
      overview == asks = {} /\ plan.mode = "PRODUCT"
      weighs == plan.operation \in {"COMPARE", "RECOMMEND"}
      detail == overview /\ plan.operation = "DETAIL"
  IN  [price |-> \/ overview \/ weighs \/ "PRICE" \in asks
                 \/ plan.operation \in {"CHEAPEST", "LIST"}
                 \/ plan.minPrice # {} \/ plan.maxPrice # {},
       stock |-> overview \/ weighs \/ "STOCK" \in asks \/ plan.inStockOnly,
       description |-> detail \/ weighs \/ "DESCRIPTION" \in asks,
       attributes |-> detail \/ weighs \/ asks \intersect {"ATTRIBUTES", "DESCRIPTION"} # {}]

PriceFields == {"price", "priceRange", "originalPrice", "discountAmount"}
StockFields == {"stockStatus", "stockQuantity"}

AllowedField(field, policy) ==
  \/ field \in {"name", "sku", "opt", "opts"}
  \/ field \in PriceFields /\ policy.price
  \/ field \in StockFields /\ policy.stock
  \/ field = "description" /\ policy.description
  \/ field \in {"attributes", "attr"} /\ policy.attributes

\* One quantity is chosen before the model sees any: the warehouse's or the
\* one left to sell.
SelectedStockQuantity(plan, e) == IF plan.onHand THEN e.onHand ELSE e.available

ProductPriceRange(evidence, p) ==
  LET prices == UNION {e.price : e \in {x \in ItemsOf(evidence) : x.product = p}}
  IN  {n \in prices : (\A m \in prices : n <= m) \/ (\A m \in prices : n >= m)}

OptionValues(w, p, key) ==
  LET options == UNION {e.options : e \in {y \in ItemsOf(w.result.evidence) :
                                              y.product = p}}
  IN  Said(UNION {o[2].words : o \in {x \in options : x[1] = key}})

\* The values one row of evidence has under the tokens' names.
RowTokens(w, i) ==
  LET e == w.result.evidence[i]
      token(field, value) == <<[row |-> i, field |-> field, key |-> ""], value>>
      keyed(field, key, value) == <<[row |-> i, field |-> field, key |-> key], value>>
  IN  {token("name", Nothing), token("sku", Nothing),
       token("description", Nothing), token("attributes", Nothing),
       token("price", Amount(e.price)),
       token("priceRange", Amount(ProductPriceRange(w.result.evidence, e.product))),
       token("stockStatus", Said({e.stock}))}
      \union {token("originalPrice", Amount({d.original})) : d \in e.discount}
      \union {token("discountAmount", Amount({d.discount})) : d \in e.discount}
      \union {token("stockQuantity", Amount({q})) :
                q \in SelectedStockQuantity(w.plan, e)}
      \union {keyed("attr", o[1], o[2]) : o \in e.details}
      \union {keyed("opt", o[1], o[2]) : o \in e.options}
      \union {keyed("opts", o[1], OptionValues(w, e.product, o[1])) : o \in e.options}

\* Every token a template may use, with its value.
ProductFactTokens(w) ==
  LET policy == ProductFieldPolicy(w.plan)
      count == [row |-> 0, field |-> "count", key |-> ""]
      answer == [row |-> 0, field |-> "policy", key |-> ""]
  IN  {t \in UNION {RowTokens(w, i) : i \in DOMAIN w.result.evidence} :
         AllowedField(t[1].field, policy)}
      \union {<<answer, Said({p})>> : p \in w.policies}
      \union {<<count, Amount({n})>> : n \in w.result.total}

RefOf(w, token) == IF token.row = 0 THEN token.field
                   ELSE w.result.evidence[token.row].variant

\* What the model is given: every row, and the tokens the question allows.
ProductPromptEvidence(w) ==
  [matchedBy |-> IF w.result.identified THEN "CUSTOMER_NAMED" ELSE "CANDIDATE",
   products |-> {[product |-> e.product, variant |-> e.variant] :
                   e \in ItemsOf(w.result.evidence)},
   fields |-> {t[1].field : t \in ProductFactTokens(w)},
   count |-> w.result.total, partialList |-> w.result.truncated]

\* The model's own verdict: the evidence does not answer the question.
Rejected(t) == t.decision = "INSUFFICIENT_CONTEXT"

----------------------------------------------------------------------------
(* The checks of a template.                                                  *)

Named(w, t) == {k.row : k \in {x \in t.used : x.row > 0 /\ x.field = "name"}}

\* Only known tokens, and only of evidence the template cites.
UsesCitedTokens(w, t) ==
  /\ t.cites # {}
  /\ t.cites \subseteq {e.variant : e \in ItemsOf(w.result.evidence)}
                         \union (IF w.policies # {} THEN {"policy"} ELSE {})
                         \union (IF w.result.total # {} THEN {"count"} ELSE {})
  /\ t.used \subseteq {f[1] : f \in ProductFactTokens(w)}
  /\ \A k \in t.used : RefOf(w, k) \in t.cites

NamesAProduct(w, t) ==
  w.plan.mode \in {"PRODUCT", "BOTH"} /\ w.plan.operation # "COUNT"
    => Named(w, t) # {}

ShowsWhatWasAsked(w, t) ==
  w.result.evidence # <<>> =>
    /\ Asks(w, "PRICE") => \E k \in t.used : k.field \in {"price", "priceRange"}
    /\ Asks(w, "STOCK") => \E k \in t.used : k.field \in StockFields

\* A row that is named shows its own price and stock.
EveryNamedRowShowsThem(w, t) ==
  \A i \in Named(w, t) :
    /\ Asks(w, "PRICE") => \E k \in t.used : k.row = i
                                               /\ k.field \in {"price", "priceRange"}
    /\ Asks(w, "STOCK") => \E k \in t.used : k.row = i /\ k.field \in StockFields

\* A product that is named shows each of its prices, or their range, and a
\* detail when one is asked.
\* A plausible bug: a price of the product is enough.
CoversAskedFactsOnce(w, t) ==
  LET rows(p) == {k \in t.used : k.row > 0 /\ w.result.evidence[k.row].product = p}
  IN  \A p \in {w.result.evidence[i].product : i \in Named(w, t)} :
        Asks(w, "PRICE") =>
          \E k \in rows(p) : k.field \in {"price", "priceRange"}

CoversAskedFacts(w, t) ==
  LET evidence == w.result.evidence
      used(p) == {k \in t.used : k.row > 0 /\ evidence[k.row].product = p}
      shown(p) == UNION {evidence[k.row].price :
                           k \in {x \in used(p) : x.field = "price"}}
      detail(k) == \/ k.field \in {"attributes", "description", "attr"}
                   \/ k.field = "opts" /\ k.key \in w.plan.listOptions
  IN  \A p \in {evidence[i].product : i \in Named(w, t)} :
        /\ Asks(w, "PRICE") /\ w.plan.operation # "CHEAPEST"
             /\ ~(\E k \in used(p) : k.field = "priceRange")
             => \A e \in ItemsOf(evidence) :
                  e.product = p => e.price \subseteq shown(p)
        /\ Asks(w, "ATTRIBUTES") \/ Asks(w, "DESCRIPTION")
             => \E k \in used(p) : detail(k)

\* Prose says an option's value (a colour, a size) that no token fills in: only
\* the values the customer chose, and words of the product's own name, may be.
ProseStatesOptionValue(w, t) ==
  LET value(x) == {y \in DOMAIN Canon : Canon[y] = Canon[x]}
      options == UNION {e.options : e \in ItemsOf(w.result.evidence)}
      groups == {{x} : x \in UNION {o[2].words : o \in options}}
                \union {value(x) : x \in UNION {d.values : d \in
                                                {f \in Presets[w.business] : f.option}}}
      chosen == {o.value : o \in w.plan.options}
      identity == UNION {e.text : e \in ItemsOf(w.result.evidence)}
  IN  \E g \in groups : /\ g \intersect t.words # {}
                        /\ g \intersect chosen = {}
                        /\ g \intersect identity = {}

\* "Which colours?" lists every value, never one variant's.
ListsEveryOption(w, t) ==
  \A key \in w.plan.listOptions :
    (\E e \in ItemsOf(w.result.evidence) : \E o \in e.options : o[1] = key)
      => \E k \in t.used : k.field = "opts" /\ k.key = key

ComparesTwo(w, t) ==
  w.plan.operation = "COMPARE" => Cardinality(Named(w, t)) >= 2

Rendered(w, t) ==
  /\ t.decision = "ANSWER"
  /\ UsesCitedTokens(w, t)
  /\ ~t.claims
  /\ NamesAProduct(w, t)
  /\ ShowsWhatWasAsked(w, t)
  /\ EveryNamedRowShowsThem(w, t)
  /\ CoversAskedFacts(w, t)
  /\ ~ProseStatesOptionValue(w, t)
  /\ w.plan.operation = "COUNT" => \E k \in t.used : k.field = "count"
  /\ ListsEveryOption(w, t)
  /\ w.plan.mode \in {"BOTH", "KNOWLEDGE"} => \E k \in t.used : k.field = "policy"
  /\ ComparesTwo(w, t)

----------------------------------------------------------------------------
(* The answers.                                                               *)

Shown(kind, facts, partial, refs) ==
  [kind |-> kind, facts |-> facts, partial |-> partial, refs |-> refs]

FactOf(w, token, value) ==
  IF token.row = 0
  THEN [product |-> None, variant |-> None, field |-> token.field, value |-> value]
  ELSE [product |-> w.result.evidence[token.row].product,
        variant |-> w.result.evidence[token.row].variant,
        field |-> token.field, value |-> value]

\* A summary of a product presents each of its variants.
PresentedProductRefs(w, t) ==
  LET evidence == w.result.evidence
      rows == {k \in t.used : k.row > 0}
      direct == {evidence[k.row].variant : k \in rows}
      summed == {evidence[k.row].product :
                   k \in {x \in rows : x.field \in {"opts", "priceRange"}}}
  IN  direct \union {e.variant : e \in {x \in ItemsOf(evidence) : x.product \in summed}}

RenderProductAnswer(w, t) ==
  Shown("RENDERED",
        {FactOf(w, f[1], f[2]) : f \in {x \in ProductFactTokens(w) : x[1] \in t.used}},
        w.result.truncated, PresentedProductRefs(w, t))

\* Candidates the model rejected are offered by name.
UnmatchedProductAnswer(w) ==
  LET names == {e.product : e \in ItemsOf(FirstOf(w.result.evidence, MaxSelected))}
  IN  Shown("UNMATCHED", {[product |-> p, variant |-> None, field |-> "choice",
                           value |-> Nothing] : p \in names}, FALSE, names)

\* The price and the stock of one row, when the question needs them.
MutableFacts(w, i) ==
  LET policy == ProductFieldPolicy(w.plan)
      e == w.result.evidence[i]
      fact(field, value) == FactOf(w, [row |-> i, field |-> field], value)
  IN  When(policy.price, {fact("price", Amount(e.price))})
      \union When(policy.stock, {fact("stockStatus", Said({e.stock}))}
                                 \union {fact("stockQuantity", Amount({q})) :
                                           q \in SelectedStockQuantity(w.plan, e)})

\* Each product once with the details its variants share, then each variant
\* with its own.
DetailedProductLines(w, i) ==
  LET policy == ProductFieldPolicy(w.plan)
      e == w.result.evidence[i]
  IN  When(policy.attributes, {FactOf(w, [row |-> i, field |-> "attr"], d[2]) :
                                 d \in e.details})
      \union When(policy.description,
                  {FactOf(w, [row |-> i, field |-> "description"], Nothing)})

\* The answer without the model: the first rows, and the lists asked for.
SafeProductAnswer(w) ==
  LET result == w.result
      shown == 1 .. Len(FirstOf(result.evidence, MaxSelected))
      choices == ItemsOf(result.choices)
      asked(kind) == Shown(kind, {[product |-> p, variant |-> None, field |-> "choice",
                                   value |-> Nothing] : p \in choices}, FALSE, choices)
      listed == {FactOf(w, [row |-> i, field |-> "opts"],
                        OptionValues(w, result.evidence[i].product, key)) :
                   i \in shown, key \in w.plan.listOptions}
      rows == UNION {{FactOf(w, [row |-> i, field |-> "name"], Nothing)}
                       \union MutableFacts(w, i) \union DetailedProductLines(w, i) :
                       i \in shown}
  IN  CASE result.status = "VARIANT_UNAVAILABLE" ->
             asked("NO_SUCH_OPTION")
        [] result.status = "MISSING_INPUT" -> asked("WHICH")
        [] result.status # "FOUND" -> Shown(result.status, {}, FALSE, {})
        [] w.plan.operation = "COUNT" ->
             Shown("SAFE", {[product |-> None, variant |-> None, field |-> "count",
                             value |-> Amount(result.total)]}, FALSE, {})
        [] OTHER ->
             Shown("SAFE", rows \union listed,
                   result.truncated \/ Len(result.evidence) > MaxSelected,
                   {result.evidence[i].variant : i \in shown})
=============================================================================
