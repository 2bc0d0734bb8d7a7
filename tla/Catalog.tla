------------------------------ MODULE Catalog ------------------------------
(* A store's catalog between two administrators who edit it and a customer    *)
(* who asks about it (products/, chatbot/knowledge/product/).                 *)
(*                                                                            *)
(* An administrator reads a product, sends a command with the versions read   *)
(* and may never see its answer: the command is sent again under the same     *)
(* request id, or with another form.  One transaction runs a command under    *)
(* the lock of its id and of its product, so a command is one step.  A        *)
(* question is planned from the store's fields, searched later in one         *)
(* snapshot, perhaps again with vectors, and answered from that snapshot.     *)
EXTENDS ProductAnswer

CONSTANTS Requests, Forms,   \* what the administrators send
          InitialCatalog,
          CategoryLimits,    \* the categories a preset may be limited to
          Plans,             \* what the planner may return
          Layouts,           \* the templates the model may write
          Presented,         \* the products and variants an earlier answer presented
          SemanticEnabled,   \* vectors may be searched
          MaxMishaps         \* lost answers and changed forms

\* A price is a number or null.
IsPrice(price) == \A a, b \in price : a \in Nat /\ a = b

\* The forms of the API: a patch names no version, owner, revision or balance.
WellFormed(form) ==
  /\ form.product \in Products /\ form.variant \in Variants
  /\ form.action \in {"CREATE_PRODUCT", "UPDATE_PRODUCT", "CREATE_VARIANT",
                      "UPDATE_VARIANT", "ADJUST_STOCK"}
  /\ form.action = "CREATE_PRODUCT" =>
       /\ {"status", "revision"} \subseteq DOMAIN form.product_fields
       /\ form.product_fields.status # "NONE" /\ form.product_fields.revision \in Nat
  /\ form.action = "UPDATE_PRODUCT" =>
       /\ "revision" \notin DOMAIN form.fields
       /\ "status" \in DOMAIN form.fields => form.fields.status # "NONE"
  /\ form.action = "UPDATE_VARIANT" =>
       {"of", "version", "balance"} \intersect DOMAIN form.fields = {}
  /\ form.action = "ADJUST_STOCK" => form.fields.delta \in Int
  /\ form.action \in {"CREATE_PRODUCT", "CREATE_VARIANT"} => "price" \in DOMAIN form.fields
  /\ "price" \in DOMAIN form.fields => IsPrice(form.fields.price)

ASSUME FormsAssumption == \A form \in Forms : WellFormed(form)

\* A product that exists has a revision; one on sale has something to sell.
\* A variant has at most one balance, and none before it exists.
ASSUME CatalogAssumption ==
  LET product == InitialCatalog.product
      variant == InitialCatalog.variant
  IN  /\ {"product", "variant", "business"} \subseteq DOMAIN InitialCatalog
      /\ DOMAIN product = Products /\ DOMAIN variant = Variants /\ None \notin Products
      /\ \A p \in Products :
           /\ {"status", "revision"} \subseteq DOMAIN product[p] /\ product[p].revision \in Nat
           /\ product[p].status = "ACTIVE" => ActiveVariants(InitialCatalog, p) # {}
      /\ \A v \in Variants :
           /\ {"of", "active", "version", "trackStock", "meta", "balance"} \subseteq
                DOMAIN variant[v]
           /\ variant[v].of = None => variant[v].balance = {}
           /\ variant[v].of # None => /\ variant[v].of \in Products
                                      /\ product[variant[v].of].status # "NONE"
           /\ variant[v].balance \subseteq [onHand : Int, reserved : Int, version : Nat]
           /\ \A a, b \in variant[v].balance : a = b /\ a.onHand >= a.reserved

ASSUME PricesAssumption ==
  \A v \in Variants : /\ "price" \in DOMAIN InitialCatalog.variant[v]
                      /\ IsPrice(InitialCatalog.variant[v].price)

\* What the schema of a plan lets through.
ASSUME PlansAssumption ==
  \A plan \in Plans :
    /\ {"operation", "query", "productIds", "variantIds", "options", "filters",
        "category", "minPrice", "maxPrice", "inStockOnly", "onHand", "ambiguous"}
         \subseteq DOMAIN plan
    /\ IsFiniteSet(plan.query)
    /\ plan.minPrice \subseteq Nat /\ plan.maxPrice \subseteq Nat

VARIABLES store,    \* the catalog
          moved,    \* [Variants -> Nat]: the sum of the inventory movements
          sent,     \* [Requests -> {} or the command as it was sent last]
          command,  \* [Requests -> {} or the row of the command that ran]
          told,     \* [Requests -> what the administrator was told last]
          faults,
          turn,     \* the question: its phase, plan, result and answer
          seen      \* the snapshot the turn's result was read from

adminVars == <<store, moved, sent, command, told, faults>>
turnVars == <<turn, seen>>
catalogVars == <<adminVars, turnVars>>

Pending(r) == sent[r] # {} /\ told[r] = "nothing"
Request(r) == CHOOSE q \in sent[r] : TRUE

CatalogInit ==
  /\ store = InitialCatalog
  /\ moved = [v \in Variants |-> LET b == InitialCatalog.variant[v].balance
                                 IN  IF b = {} THEN 0
                                     ELSE (CHOOSE x \in b : TRUE).onHand]
  /\ sent = [r \in Requests |-> {}]
  /\ command = [r \in Requests |-> {}]
  /\ told = [r \in Requests |-> "nothing"]
  /\ faults = 0
  /\ turn = [phase |-> "idle"]
  /\ seen = InitialCatalog

----------------------------------------------------------------------------
(* The rules of an edit.                                                      *)

\* A compare-at price needs a lower selling price.
PricingIsSound(v) ==
  v.compareAt # {} => \E a \in v.compareAt, p \in v.price : a > p

\* The values of a variant are fields of the store that the category uses.
Checked(meta, category) ==
  \A key \in DOMAIN meta :
    meta[key] # Nothing =>
      /\ \E d \in LoadCatalogFields(store) : d.key = key
      /\ AppliesToCategory(store, category)

\* A patch keeps every stored value it does not name.
MergedMeta(stored, patch) ==
  [key \in DOMAIN stored \union DOMAIN patch |->
     IF key \in DOMAIN patch THEN patch[key] ELSE stored[key]]

\* What an administrator reads before an edit.
CatalogView(p) ==
  [revision |-> store.product[p].revision,
   versions |-> [v \in VariantsOf(store, p) |-> store.variant[v].version],
   balances |-> [v \in Variants |-> IF v \in VariantsOf(store, p) /\ store.variant[v].trackStock
                                    THEN store.variant[v].balance ELSE {}]]

SkuFree(sku) == \A v \in Variants : store.variant[v].of # None => store.variant[v].sku # sku

NewBalance == {[onHand |-> 0, reserved |-> 0, version |-> 1]}

NewVariant(p, fields) ==
  [of |-> p, sku |-> fields.sku, active |-> fields.active, version |-> 1,
   price |-> fields.price, compareAt |-> fields.compareAt,
   trackStock |-> fields.trackStock, meta |-> fields.meta,
   balance |-> IF fields.trackStock THEN NewBalance ELSE {}]

Patched(old, fields) == [k \in DOMAIN old |-> IF k \in DOMAIN fields THEN fields[k]
                                              ELSE old[k]]

Revised(catalog, p) ==
  [catalog EXCEPT !.product[p].revision = @ + 1]

\* The commands: which may run on the catalog of now, and what they leave.
CanCreateProduct(q) ==
  /\ store.product[q.product].status = "NONE" /\ store.variant[q.variant].of = None
  /\ PricingIsSound(q.fields) /\ SkuFree(q.fields.sku)
  /\ Checked(q.fields.meta, q.product_fields.category)
  /\ q.product_fields.status = "ACTIVE" => q.fields.active

CreateProduct(q) ==
  [store EXCEPT !.product[q.product] = q.product_fields,
            !.variant[q.variant] = NewVariant(q.product, q.fields)]

CanUpdateProduct(q) ==
  LET new == Patched(store.product[q.product], q.fields) IN
  /\ store.product[q.product].status # "NONE"
  /\ store.product[q.product].revision = q.view.revision
  /\ new.status = "ACTIVE" => ActiveVariants(store, q.product) # {}
  /\ \A v \in VariantsOf(store, q.product) :
       /\ PricingIsSound(store.variant[v])
       /\ new.category # store.product[q.product].category
            => Checked(store.variant[v].meta, new.category)

UpdateProduct(q) ==
  Revised([store EXCEPT !.product[q.product] = Patched(@, q.fields)], q.product)

CanCreateVariant(q) ==
  /\ store.product[q.product].status # "NONE"
  /\ store.product[q.product].revision = q.view.revision
  /\ store.variant[q.variant].of = None
  /\ PricingIsSound(q.fields) /\ SkuFree(q.fields.sku)
  /\ Checked(q.fields.meta, store.product[q.product].category)

CreateVariant(q) ==
  Revised([store EXCEPT !.variant[q.variant] = NewVariant(q.product, q.fields)],
          q.product)

\* The last variant of a product on sale stays active; stock tracking does not
\* change under a reservation.
\* A plausible bug: only the variant's own version is compared.
VariantAllows(q) ==
  LET old == store.variant[q.variant]
      new == Patched(old, q.fields)
  IN  /\ old.of = q.product
      /\ old.version = q.view.versions[q.variant]
      /\ old.active /\ ~new.active /\ store.product[q.product].status = "ACTIVE"
           => ActiveVariants(store, q.product) # {q.variant}
      /\ new.trackStock # old.trackStock
           => \A b \in old.balance : b.reserved = 0
      /\ PricingIsSound(new)
      /\ "meta" \in DOMAIN q.fields
           => Checked(MergedMeta(old.meta, q.fields.meta),
                      store.product[q.product].category)

CanUpdateVariant(q) ==
  store.product[q.product].revision = q.view.revision /\ VariantAllows(q)

UpdateVariant(q) ==
  LET old == store.variant[q.variant]
      new == Patched(old, q.fields)
      meta == IF "meta" \in DOMAIN q.fields THEN MergedMeta(old.meta, q.fields.meta)
              ELSE old.meta
      balance == IF new.trackStock /\ ~old.trackStock /\ old.balance = {}
                 THEN NewBalance ELSE old.balance
  IN  Revised([store EXCEPT !.variant[q.variant] =
                 [new EXCEPT !.version = @ + 1, !.meta = meta, !.balance = balance]],
              q.product)

CanAdjust(q) ==
  LET v == store.variant[q.variant] IN
  /\ v.of = q.product /\ v.trackStock
  /\ \E b \in v.balance, read \in q.view.balances[q.variant] :
       /\ b.version = read.version
       /\ b.onHand + q.fields.delta >= b.reserved

Adjust(q) ==
  [store EXCEPT !.variant[q.variant].balance =
     {[b EXCEPT !.onHand = @ + q.fields.delta, !.version = @ + 1] : b \in @}]

Allowed(q) ==
  CASE q.action = "CREATE_PRODUCT" -> CanCreateProduct(q)
    [] q.action = "UPDATE_PRODUCT" -> CanUpdateProduct(q)
    [] q.action = "CREATE_VARIANT" -> CanCreateVariant(q)
    [] q.action = "UPDATE_VARIANT" -> CanUpdateVariant(q)
    [] q.action = "ADJUST_STOCK"   -> CanAdjust(q)

Done(q) ==
  CASE q.action = "CREATE_PRODUCT" -> CreateProduct(q)
    [] q.action = "UPDATE_PRODUCT" -> UpdateProduct(q)
    [] q.action = "CREATE_VARIANT" -> CreateVariant(q)
    [] q.action = "UPDATE_VARIANT" -> UpdateVariant(q)
    [] q.action = "ADJUST_STOCK"   -> Adjust(q)

----------------------------------------------------------------------------
(* The administrators.                                                        *)

Filled(form) ==
  [action |-> form.action, product |-> form.product, variant |-> form.variant,
   fields |-> form.fields, product_fields |-> form.product_fields,
   view |-> CatalogView(form.product)]

Send(r, form) ==
  /\ sent[r] = {}
  /\ sent' = [sent EXCEPT ![r] = {Filled(form)}]
  /\ UNCHANGED <<store, moved, command, told, faults, turnVars>>

\* The form is filled in again after an answer that never came.
SendAnother(r, form) ==
  /\ Pending(r) /\ faults < MaxMishaps
  /\ faults' = faults + 1
  /\ sent' = [sent EXCEPT ![r] = {Filled(form)}]
  /\ UNCHANGED <<store, moved, command, told, turnVars>>

\* The first run of a request id; what it does not allow leaves no row.
\* A plausible bug: a second run does not look for the row of the first.
FreshEvenReplayed(r) == TRUE

Fresh(r) == command[r] = {}

\* The answer of one run of the command: a row that is there answers for it.
Answer(r) ==
  CASE ~Fresh(r) -> IF command[r] = sent[r] THEN "done" ELSE "reused"
    [] OTHER     -> IF Allowed(Request(r)) THEN "done" ELSE "refused"

Execute(r) ==
  /\ Pending(r)
  /\ LET runs == Fresh(r) /\ Allowed(Request(r))
         q == Request(r)
     IN  /\ store' = IF runs THEN Done(q) ELSE store
         /\ command' = IF runs THEN [command EXCEPT ![r] = sent[r]] ELSE command
         /\ moved' = IF runs /\ q.action = "ADJUST_STOCK"
                     THEN [moved EXCEPT ![q.variant] = @ + q.fields.delta]
                     ELSE moved
  /\ \/ told' = [told EXCEPT ![r] = Answer(r)] /\ UNCHANGED faults
     \/ faults < MaxMishaps /\ faults' = faults + 1 /\ UNCHANGED told
  /\ UNCHANGED <<sent, turnVars>>

\* The store chooses another business, and with it other fields, or limits
\* them to other categories.
ApplyPreset(business, categories) ==
  /\ <<business, categories>> # <<store.business, store.categories>>
  /\ faults < MaxMishaps /\ faults' = faults + 1
  /\ store' = [store EXCEPT !.business = business, !.categories = categories]
  /\ UNCHANGED <<moved, sent, command, told, turnVars>>

----------------------------------------------------------------------------
(* The customer's question.                                                   *)

\* The planner names only products the question finds or an earlier answer
\* presented, and only known fields.
Plannable(plan) ==
  LET catalog == PlannerCatalog(store)
      named == Probe(store, plan.query)
  IN
  /\ plan.productIds \subseteq named \union Presented
  /\ plan.variantIds \subseteq Presented \union UNION {ActiveVariants(store, p) : p \in named}
  /\ {o.key : o \in plan.options} \union plan.listOptions \subseteq catalog.options
  /\ \A f \in plan.filters :
       \E d \in catalog.fields : d[1] = f.key /\ f.operator \in d[2]

\* A chosen value of an option is an option and no filter: filtered out it reads
\* as "which product?" instead of "not in that colour".
WithChoices(plan, keys) ==
  LET chosen == {f \in plan.filters : /\ f.operator = "EQ" /\ f.key \in keys
                                      /\ f.value.words # {}}
      fresh == {f \in chosen : \A o \in plan.options : o.key # f.key}
  IN  [plan EXCEPT !.filters = @ \ chosen,
         !.options = @ \union UNION {{[key |-> f.key, value |-> w] : w \in f.value.words} :
                                       f \in fresh}]

Plan ==
  /\ turn.phase = "idle"
  /\ \E plan \in {x \in Plans : Plannable(x)}, asksStock \in BOOLEAN :
       turn' = [phase |-> "planned", business |-> PlannerCatalog(store).business,
                plan |-> GroundStockFilter(WithChoices(plan, PlannerCatalog(store).options),
                                           asksStock)]
  /\ UNCHANGED <<adminVars, seen>>

\* A question about the products in general, or one whose planner failed or named
\* what it was not given, is not searched.  (Its words are the query of the plan, which
\* nothing reads any more.)
WithoutSearch ==
  /\ turn.phase = "idle"
  /\ \E status \in {"MISSING_INPUT", "FAILED"} :
       turn' = [phase |-> "searched", business |-> store.business,
                plan |-> [mode |-> "PRODUCT", operation |-> "DETAIL", query |-> {},
                          asks |-> {}, productIds |-> {}, variantIds |-> {}, options |-> {},
                          filters |-> {}, listOptions |-> {}, category |-> {},
                          minPrice |-> {}, maxPrice |-> {}, inStockOnly |-> FALSE,
                          onHand |-> FALSE, countUnit |-> "PRODUCTS", ambiguous |-> TRUE],
                result |-> Outcome(status, <<>>)]
  /\ UNCHANGED <<adminVars, seen>>

\* A question without a word of the catalog may be left to the knowledge route.
RouteToKnowledge ==
  /\ turn.phase = "idle"
  /\ \E message \in {plan.query : plan \in Plans} :
       /\ Probe(store, message) = {} /\ ~MentionsCatalog(store, message)
       /\ message \intersect QuestionWords = {}
  /\ turn' = [phase |-> "knowledge"]
  /\ UNCHANGED <<adminVars, seen>>

\* A search of a business other than the planned one, or of a filter its
\* fields do not have, fails.
Searchable == /\ store.business = turn.business
              /\ ValidateBusinessFilters(turn.plan, LoadCatalogFields(store))

\* A recommendation, or a question that found nothing, is searched with vectors too.
WantsVectors(result) ==
  /\ SemanticEnabled /\ Searchable /\ turn.plan.productIds = {}
  /\ \/ result.status \in {"NO_MATCH", "NO_RELIABLE_CANDIDATE"}
     \/ turn.plan.operation = "RECOMMEND"

Found(result, again) ==
  /\ turn' = [phase |-> IF again /\ WantsVectors(result) THEN "embedding" ELSE "searched",
              business |-> turn.business, plan |-> turn.plan, result |-> result]
  /\ seen' = store
  /\ UNCHANGED adminVars

Search ==
  /\ turn.phase = "planned"
  /\ Found(IF Searchable THEN Read(store, turn.plan, <<>>) ELSE Outcome("UNAVAILABLE", <<>>), TRUE)

\* Products the vectors may bring: on sale, with an active variant.
VectorRows == LET near == {p \in Listed(store) : ActiveVariants(store, p) # {}}
              IN  {<<>>} \union {<<[product |-> p, close |-> b]>> :
                                   p \in near, b \in BOOLEAN}

SearchWithVectors ==
  /\ turn.phase = "embedding"
  /\ \/ /\ Searchable
        /\ \E rows \in VectorRows : Found(Read(store, turn.plan, rows), FALSE)
     \/ \* The embedding or the search failed: what was found before stands.
        /\ turn' = [turn EXCEPT !.phase = "searched",
                                !.result = IF @.status = "FOUND" THEN @
                                           ELSE Outcome("UNAVAILABLE", <<>>)]
        /\ UNCHANGED <<adminVars, seen>>

Workflow == [plan |-> turn.plan, result |-> turn.result, business |-> turn.business,
             policies |-> {}]

\* A template shows any of the tokens the model was offered.
Template(layout) ==
  LET vocabulary == {f[1] : f \in ProductFactTokens(Workflow)}
  IN  [decision |-> layout.decision, claims |-> layout.claims,
       words |-> layout.words, used |-> vocabulary \intersect layout.shows,
       cites |-> {e.variant : e \in ItemsOf(turn.result.evidence)}
                   \union (IF turn.result.total # {} THEN {"count"} ELSE {})]

\* A failed plan, or a rejected reply of a named product, is the fallback; a reply
\* that fails the checks, or never comes, is composed without the model.
Reply(layout) ==
  LET w == Workflow
      t == Template(layout)
  IN  CASE turn.result.status = "FAILED" -> Shown("FALLBACK", {}, FALSE, {})
        [] turn.result.status \notin {"FOUND", "FAILED"} -> SafeProductAnswer(w)
        [] Rendered(w, t)               -> RenderProductAnswer(w, t)
        [] Rejected(t) ->
             IF turn.result.identified THEN Shown("FALLBACK", {}, FALSE, {})
             ELSE UnmatchedProductAnswer(w)
        [] OTHER -> SafeProductAnswer(w)

AnswerQuestion ==
  /\ turn.phase = "searched"
  /\ \E layout \in Layouts :
       turn' = [phase |-> "answered", business |-> turn.business, plan |-> turn.plan,
                result |-> turn.result, answer |-> Reply(layout)]
  /\ UNCHANGED <<adminVars, seen>>

CatalogNext ==
  \/ \E r \in Requests : \/ \E form \in Forms : Send(r, form) \/ SendAnother(r, form)
                         \/ Execute(r)
  \/ \E business \in DOMAIN Presets, categories \in CategoryLimits :
       ApplyPreset(business, categories)
  \/ Plan
  \/ WithoutSearch
  \/ RouteToKnowledge
  \/ Search
  \/ SearchWithVectors
  \/ AnswerQuestion

CatalogSpec == CatalogInit /\ [][CatalogNext]_catalogVars

----------------------------------------------------------------------------
(* Properties.                                                                *)

Ran(r) == CHOOSE q \in command[r] : TRUE
Edits == {"UPDATE_PRODUCT", "CREATE_VARIANT", "UPDATE_VARIANT"}

\* An administrator is never told of a command that did not run, nor refused
\* one that did, however often it was sent; and the stock on hand is what the
\* movements of the commands that ran account for, never under the reserved.
CommandsAreAccounted ==
  /\ \A r \in Requests :
       /\ told[r] = "done" => command[r] = sent[r]
       /\ told[r] = "refused" => command[r] = {}
       /\ told[r] = "reused" => command[r] \notin {{}, sent[r]}
  /\ \A v \in Variants : \A b \in store.variant[v].balance :
       b.onHand = moved[v] /\ b.onHand >= b.reserved

\* No two edits of a product build on the same version of it, and no two
\* adjustments of a stock on the same version of its balance, so none silently
\* undoes the other; and a product on sale always has something to sell.
EditsBuildOnEachOther ==
  /\ \A r, s \in Requests :
       /\ r # s /\ command[r] # {} /\ command[s] # {}
       /\ Ran(r).action \in Edits /\ Ran(s).action \in Edits
       /\ Ran(r).product = Ran(s).product
       => Ran(r).view.revision # Ran(s).view.revision
  /\ \A r, s \in Requests :
       /\ r # s /\ command[r] # {} /\ command[s] # {}
       /\ Ran(r).action = "ADJUST_STOCK" /\ Ran(s).action = "ADJUST_STOCK"
       /\ Ran(r).variant = Ran(s).variant
       => \A a \in Ran(r).view.balances[Ran(r).variant],
             b \in Ran(s).view.balances[Ran(s).variant] : a.version # b.version
  /\ \A p \in Listed(store) : ActiveVariants(store, p) # {}

Answered == turn.phase = "answered"
Sold(p) == {v \in Variants : seen.variant[v].of = p /\ seen.variant[v].active}

\* The words of the question that name what it is about.
SubjectWords(plan) == plan.query \ (QuestionWords \union {o.value : o \in plan.options}
                                  \union {d.label : d \in Presets[seen.business]})

\* What a reader calls "on the subject": every word of it is in the product's
\* name, aliases, category, or a searchable value of a variant on sale.
About(p, plan) ==
  \A w \in SubjectWords(plan) :
    \E x \in seen.product[p].name \union seen.product[p].aliases
               \union seen.product[p].category
               \union UNION {UNION {seen.variant[v].meta[k].words :
                               k \in DOMAIN seen.variant[v].meta \intersect
                                 {d.key : d \in {f \in Presets[seen.business] :
                                                   ~f.option /\ f.searchable}}} :
                               v \in Sold(p)} :
      x = w \/ <<w, x>> \in Inside

\* Whether a variant is what the plan's choices and bounds ask for.
Fits(v, plan) ==
  LET r == seen.variant[v] IN
  /\ \A o \in plan.options :
       /\ AppliesToCategory(seen, seen.product[r.of].category)
       /\ o.key \in DOMAIN r.meta
       /\ \E x \in r.meta[o.key].words : Canon[x] = Canon[o.value]
  /\ \A n \in plan.minPrice : \E p \in r.price : p >= n
  /\ \A n \in plan.maxPrice : \E p \in r.price : p <= n
  /\ plan.inStockOnly => r.trackStock /\ \E b \in r.balance : b.onHand > b.reserved

\* The variants on sale that the question asks for.
AskedFor(plan) ==
  {v \in Variants : \E p \in Products :
     seen.product[p].status = "ACTIVE" /\ About(p, plan) /\ v \in Sold(p) /\ Fits(v, plan)}

\* The question says the SKU of no variant of a product, and the plan picks none.
NamesNoVariant(p, plan) ==
  /\ plan.variantIds = {}
  /\ plan.query \intersect {seen.variant[v].sku : v \in Sold(p)} = {}

\* The search looks for every word of the subject.
Short(plan) == Cardinality(SubjectWords(plan)) <= MaxTerms

\* A count that is shown is the number of what the question is about, in the one
\* snapshot that was read: of the products when a count of them is asked for, and
\* else of their variants.  When a question has more words than the search looks
\* for, it may be more, and never less.  Nothing the question is about is cheaper
\* than the first row of a cheapest, whose price an answer composed without the
\* model always shows.
AggregatesAreExact ==
  Answered /\ turn.plan.productIds = {} /\ turn.plan.category = {}
    /\ turn.plan.filters = {} /\ (\A p \in Products : NamesNoVariant(p, turn.plan)) =>
    LET plan == turn.plan
        chosen == AskedFor(plan)
        units == IF CountsProducts(plan) THEN {seen.variant[v].of : v \in chosen} ELSE chosen
        cheapest(f) == f.field = "price" /\ f.variant = turn.result.evidence[1].variant
    IN  /\ plan.operation # "CHEAPEST" =>
             \A f \in turn.answer.facts : f.field = "count" =>
               \A n \in f.value.number : /\ n >= Cardinality(units)
                                         /\ Short(plan) => n = Cardinality(units)
        /\ plan.operation = "CHEAPEST" =>
             /\ \A f \in turn.answer.facts : cheapest(f) =>
                  /\ Short(plan) => f.variant \in chosen
                  /\ \A v \in chosen : \A n \in f.value.number, m \in seen.variant[v].price :
                       n <= m
             /\ turn.answer.kind = "SAFE" => \E f \in turn.answer.facts : cheapest(f)

\* A question about one product, of which no id was picked for the search, is
\* answered with one only if no other product on sale fits as well: the tie goes
\* back to the customer, unless the question has more words than the search looks
\* for, or more products share one of them than it takes for candidates.
NothingIsPickedSilently ==
  Answered /\ turn.result.status = "FOUND" /\ turn.plan.operation = "DETAIL"
    /\ turn.plan.productIds = {} /\ turn.plan.variantIds = {} /\ turn.plan.filters = {}
    /\ turn.plan.category = {} /\ SubjectWords(turn.plan) # {} /\ Short(turn.plan)
    /\ Cardinality(LexicalMatches(seen, SubjectWords(turn.plan))) <= MaxCandidates =>
    \A f, g \in {x \in turn.answer.facts : x.field = "name"} :
      /\ f.product = g.product
      /\ \A p \in Products \ {f.product} :
           ~turn.result.identified =>
             ~(/\ seen.product[p].status = "ACTIVE" /\ About(p, turn.plan)
               /\ \E v \in Sold(p) : Fits(v, turn.plan))

\* An answer that names a product to a question about prices shows every price
\* the customer's choices leave, or says that it is partial; a count of products
\* apart, which compares that count with the rows it kept.
EveryPriceIsShown ==
  Answered /\ "PRICE" \in turn.plan.asks
    /\ turn.plan.operation # "CHEAPEST" /\ ~CountsProducts(turn.plan)
    /\ turn.plan.filters = {} /\ ~turn.answer.partial =>
    \A f \in {x \in turn.answer.facts : x.field = "name"} :
      NamesNoVariant(f.product, turn.plan) =>
      \A v \in {x \in Sold(f.product) : Fits(x, turn.plan)} :
        \A n \in seen.variant[v].price :
          \E g \in turn.answer.facts :
            /\ g.product = f.product
            /\ \/ g.field = "price" /\ n \in g.value.number
               \/ g.field = "priceRange" /\ \E x, y \in g.value.number : x <= n /\ n <= y

=============================================================================
