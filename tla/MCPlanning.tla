----------------------------- MODULE MCPlanning -----------------------------
(***************************************************************************)
(* A small Spring repository with names that are easy to confuse, and what *)
(* the repository says of comprehension.                                   *)
(***************************************************************************)
EXTENDS Planning, TLC

MCSlugify ==
  "Order"        :> <<Text("order")>>    @@ "order"       :> <<Text("order")>> @@
  "ORDER"        :> <<Text("o"), Text("r"), Text("d"), Text("e"), Text("r")>> @@
  "Order_2"      :> <<Text("order"), Numeral(2)>> @@
  "OrderItem"    :> <<Text("order"), Text("item")>> @@
  "Orderitem"    :> <<Text("orderitem")>> @@
  "OrderService" :> <<Text("order"), Text("service")>> @@
  "create"       :> <<Text("create")>>   @@ "Money"       :> <<Text("money")>> @@
  "2"            :> <<Numeral(2)>>       @@ "$"           :> <<Text("")>> @@
  ""             :> <<Text("")>>

MCLower ==
  "Order"        :> "order"      @@ "order"     :> "order"     @@ "ORDER" :> "order" @@
  "Order_2"      :> "order_2"    @@ "OrderItem" :> "orderitem" @@
  "Orderitem"    :> "orderitem"  @@ "OrderService" :> "orderservice" @@
  "create"       :> "create"     @@ "Money"     :> "money"     @@ "2" :> "2" @@ "$" :> "$" @@ "" :> ""

MCName == DOMAIN MCSlugify

MCTexts == STRING

\* An underscore ends no word for the regular expression: Order_2 is not found.
MCCapitalized == MCName \ {"order", "create", "Order_2", "2", "$", ""}

File(path, dir, inName, inPath, stem, walked, readable) ==
  [path |-> path, dir |-> dir, inName |-> inName, inPath |-> inPath, stem |-> stem,
   walked |-> walked, readable |-> readable]

\* Every path has src/main/java in front; the legacy package has a file that is
\* not UTF-8, and a directory named target hides generated code.
MCTree == <<
  File("OrderController", "orders", {"order"}, {"order", "java"}, <<Text("order")>>, TRUE, TRUE),
  File("OrderService",    "orders", {"order"}, {"order", "java"}, <<Text("order"), Text("service")>>, TRUE, TRUE),
  File("Types",           "orders", {},        {"order", "java"}, <<Text("types")>>, TRUE, TRUE),
  File("Controller",      "legacy", {},        {"java"},          <<Text("")>>, TRUE, TRUE),
  File("Latin1",          "legacy", {},        {"java"},          <<Text("latin1")>>, TRUE, FALSE),
  File("Generated",       "target", {"order"}, {"order", "java"}, <<Text("generated")>>, FALSE, TRUE)>>

Raw(kind, name, class, refs) ==
  [kind |-> kind, name |-> name, payload |-> [class |-> class, name |-> name, refs |-> refs]]

MCAnswers ==
  "OrderController" :> {<<>>, <<Raw("endpoint", "create", "EndpointUnit", {"OrderService", "ORDER"}),
                                Raw("endpoint", "create", "EndpointUnit", {"Order", "Money"})>>} @@
  "OrderService"    :> {<<Raw("service", "OrderService", "ServiceUnit", {"OrderItem", "OrderService"})>>,
                        <<Raw("service", "Order", "ServiceUnit", {"Order_2"})>>} @@
  "Types"           :> {<<Raw("data_model", "Order_2", "DataModelUnit", {"Order", "order"}),
                          Raw("data_model", "Order", "DataModelUnit", {"OrderItem"}),
                          Raw("data_model", "order", "DataModelUnit", {"Orderitem"})>>,
                        <<Raw("data_model", "Order", "DataModelUnit", {"OrderItem"}),
                          Raw("data_model", "Order", "DataModelUnit", {}),
                          Raw("data_model", "Order", "DataModelUnit", {}),
                          Raw("data_model", "OrderItem", "DataModelUnit", {"Order"}),
                          Raw("data_model", "Orderitem", "DataModelUnit", {"Order_2"})>>} @@
  "Controller"      :> {<<Raw("endpoint", "Order", "EndpointUnit", {"order"}),
                          Raw("endpoint", "create", "EndpointUnit", {"Order"}),
                          Raw("config", "", "MiddlewareUnit", {"Order"}),
                          Raw("config", "", "MiddlewareUnit", {}),
                          Raw("config", "2", "MiddlewareUnit", {})>>,
                        <<Raw("utility", "Order_2", "ServiceUnit", {"Order", "$"}),
                          Raw("utility", "$", "ServiceUnit", {"2"}),
                          Raw("data_model", "Order_2", "DataModelUnit", {"Order_2"})>>} @@
  "Latin1" :> {<<>>} @@ "Generated" :> {<<>>}

MCScopes == {{}, {"order"}, {"java"}, {"invoice"}}

\* comprehension.py:15-17: "we can check `budget.is_exhausted()` before every
\* single call and stop precisely mid-run".
CallCeilingStopsTheLoop == calls <= RemainingCalls

\* comprehension.py:157-158: when a name maps to several ids "we keep the first
\* match and note ambiguity rather than guess".
SharedNamesAreNoted ==
  step \in {"synthesis", "planned"} =>
    \A i \in DOMAIN pending : \A n \in ReferencedNames(pending[i].raw.payload) :
      Cardinality(Bearers(pending, n)) > 1
        => [about |-> "reference", unit |-> pending[i].id, name |-> n] \in ambiguities

\* source_adapter.py:65-66: anchors are "files whose own name directly matches a
\* scope term": with a scope, a package without such a file stays out.
AnchorsMatchByTheirOwnName ==
  scope # {} => \A f \in files :
                  \E g \in DOMAIN Tree : /\ Tree[g].dir = Tree[f].dir
                                         /\ Tree[g].inName \cap scope # {}
=============================================================================
