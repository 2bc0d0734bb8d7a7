----------------------------- MODULE MCCatalog -----------------------------
(* Two products on sale and a third that may be created; two administrators'  *)
(* commands and one question.                                                 *)
EXTENDS Catalog

MCSymmetry == Permutations(Requests)

MCProducts == {"sunCap", "helmet", "snapCap"}
MCVariants == {"sunS", "sunL", "hel", "sunNew", "snap"}
MCOrder == [x \in MCProducts \union MCVariants |->
              CASE x \in {"sunCap", "sunS"}  -> 1
                [] x \in {"helmet", "sunL"}  -> 2
                [] x \in {"snapCap", "hel"}  -> 3
                [] x = "sunNew"              -> 4
                [] OTHER                     -> 5]

\* The word for a helmet begins with the word for a cap.
MCInside == {<<"cap", "helmet">>}
MCWords == {"sun", "cap", "helmet", "snap", "hats", "linen", "steel", "S", "L", "XL",
            "large", "red", "size", "material", "weight", "color", "price", "price?", "warehouse",
            "SUN-S", "SUN-L", "HEL", "SUN-N", "SNAP"}
MCCategoryLimits == {{}, {"shoes"}}
MCCanon == [w \in MCWords |-> IF w = "large" THEN "L" ELSE w]
MCQuestionWords == {"price?", "warehouse"}

Field(key, type, option, values) ==
  [key |-> key, label |-> key, type |-> type, option |-> option,
   searchable |-> TRUE, visible |-> TRUE, values |-> values]
MCPresets ==
  [shop |-> {Field("size", "TEXT", TRUE, {"L"}), Field("material", "TEXT", FALSE, {}),
             Field("weight", "NUMBER", FALSE, {})},
   custom |-> {Field("color", "TEXT", TRUE, {"red"}),
               Field("material", "TEXT", FALSE, {})}]

Meta(size, material) == [size |-> Said({size}), material |-> Said({material})]
Balance(n) == {[onHand |-> n, reserved |-> 0, version |-> 1]}
Product(status, name) ==
  [status |-> status, revision |-> 1, name |-> name, aliases |-> {},
   category |-> {"hats"}, prose |-> {}]
Variant(p, sku, price, meta, balance) ==
  [of |-> p, sku |-> sku, active |-> TRUE, version |-> 1, price |-> price,
   compareAt |-> {}, trackStock |-> TRUE, meta |-> meta, balance |-> balance]

MCInitialCatalog ==
  [product |-> [sunCap |-> Product("ACTIVE", {"sun", "cap"}),
                helmet |-> Product("ACTIVE", {"helmet"}),
                snapCap |-> Product("NONE", {"snap", "cap"})],
   variant |-> [sunS |-> Variant("sunCap", "SUN-S", {2}, Meta("S", "linen"), Balance(2)),
                sunL |-> Variant("sunCap", "SUN-L", {3}, Meta("L", "linen"), Balance(0)),
                hel |-> Variant("helmet", "HEL", {5},
                                [weight |-> Amount({2}), material |-> Said({"steel"})],
                                Balance(1)),
                sunNew |-> Variant(None, "SUN-N", {}, <<>>, {}),
                snap |-> Variant(None, "SNAP", {}, <<>>, {})],
   business |-> "shop", categories |-> {}]

Form(action, product, variant, fields) ==
  [action |-> action, product |-> product, variant |-> variant, fields |-> fields,
   product_fields |-> MCInitialCatalog.product[product]]
MCForms ==
  {Form("ADJUST_STOCK", "sunCap", "sunS", [delta |-> -1]),
   Form("UPDATE_VARIANT", "sunCap", "sunL", [price |-> {4}, compareAt |-> {5}]),
   Form("UPDATE_VARIANT", "sunCap", "sunS", [active |-> FALSE]),
   Form("UPDATE_VARIANT", "helmet", "hel", [active |-> FALSE]),
   Form("UPDATE_PRODUCT", "helmet", "hel", [status |-> "ARCHIVED"]),
   Form("CREATE_VARIANT", "sunCap", "sunNew",
        [sku |-> "SUN-N", active |-> TRUE, price |-> {1}, compareAt |-> {},
         trackStock |-> FALSE, meta |-> Meta("L", "steel")]),
   [Form("CREATE_PRODUCT", "snapCap", "snap",
         [sku |-> "SNAP", active |-> TRUE, price |-> {3}, compareAt |-> {},
          trackStock |-> TRUE, meta |-> Meta("L", "linen")])
    EXCEPT !.product_fields.status = "ACTIVE"]}

Question(operation, query, asks) ==
  [mode |-> "PRODUCT", operation |-> operation, query |-> query, asks |-> asks,
   productIds |-> {}, variantIds |-> {}, options |-> {}, filters |-> {},
   listOptions |-> {}, category |-> {}, minPrice |-> {}, maxPrice |-> {},
   inStockOnly |-> FALSE, onHand |-> FALSE, countUnit |-> "PRODUCTS",
   ambiguous |-> FALSE]
Large == {[key |-> "size", operator |-> "EQ", value |-> Said({"large"})]}
MCPresented == {"helmet"}
MCPlans ==
  {Question("DETAIL", {"cap", "price?"}, {"PRICE"}),
   Question("DETAIL", {"sun", "cap", "warehouse"}, {"PRICE", "STOCK"}),
   [Question("DETAIL", {"sun", "cap"}, {}) EXCEPT
      !.options = {[key |-> "size", value |-> "XL"]}],
   [Question("DETAIL", {"sun", "cap"}, {}) EXCEPT !.listOptions = {"size"}],
   Question("DETAIL", {"SUN-L"}, {"PRICE"}),
   [Question("LIST", {}, {"PRICE", "STOCK"}) EXCEPT !.maxPrice = {3}, !.inStockOnly = TRUE],
   [Question("LIST", {}, {"ATTRIBUTES"}) EXCEPT
      !.filters = {[key |-> "weight", operator |-> "LTE", value |-> Amount({2})]}],
   Question("CHEAPEST", {"cap"}, {"PRICE"}),
   [Question("COMPARE", {"cap"}, {"PRICE"}) EXCEPT !.filters = Large],
   Question("RECOMMEND", {"hats"}, {}),
   [Question("DETAIL", {}, {}) EXCEPT !.ambiguous = TRUE],
   Question("LIST", {"cap"}, {}),
   Question("COUNT", {"cap"}, {"PRICE"}),
   [Question("COUNT", {"linen", "cap"}, {"PRICE"}) EXCEPT !.countUnit = "VARIANTS"],
   Question("COUNT", {"sun", "cap", "linen"}, {}),
   [Question("DETAIL", {}, {"PRICE"}) EXCEPT !.productIds = MCPresented]}

Layout(shows, decision, claims, words) ==
  [shows |-> shows, decision |-> decision, claims |-> claims, words |-> words]
Tokens(rows, fields) ==
  [row : rows, field : fields, key : {"", "size", "material", "weight", "color"}]
Priced(rows) == Tokens(rows, {"name", "price"})
Count == Tokens({0}, {"count"})
MCLayouts ==
  {Layout(Priced(1 .. 3), "ANSWER", FALSE, {}),
   Layout(Priced({1}), "ANSWER", FALSE, {}),
   Layout(Priced({2}), "ANSWER", FALSE, {}),
   Layout(Tokens({1}, {"name", "priceRange", "stockStatus"}), "ANSWER", FALSE, {"L"}),
   Layout(Count \union Tokens(1 .. 3, {"name", "opts", "attr"}), "ANSWER", FALSE, {}),
   Layout(Count \union Priced({1}) \union Tokens({2, 3}, {"price"}), "ANSWER", FALSE, {}),
   Layout(Tokens(1 .. 3, {"name", "stockQuantity"}), "ANSWER", FALSE, {}),
   Layout(Priced(1 .. 3), "ANSWER", TRUE, {}),
   Layout({}, "INSUFFICIENT_CONTEXT", FALSE, {})}
=============================================================================
