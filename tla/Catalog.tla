------------------------------ MODULE Catalog -------------------------------
(***************************************************************************)
(* What is sold, at which price and from which button: the handlers of     *)
(* services/catalog.py, as handlers of module Desk.                        *)
(*                                                                         *)
(* The tables: departments [code, active, sort], categories [department,   *)
(* active, sort], tiers [code, active], products [sku, category, tax,      *)
(* price, active, sort], prices (the history) [product, price, to],        *)
(* barcodes [product, code], tierPrices [product, tier, price], taxes      *)
(* [code, from, to], panels [active, sort], subpanels [panel, active,      *)
(* sort] and items (buttons) [panel, sub, cell, product].  Names, kitchen  *)
(* stations and images are left out.  The end of a price is the row that   *)
(* took over from it; dates are numbers.                                   *)
(***************************************************************************)
EXTENDS Desk, SequencesExt

\* The table of the row a request names with its id.
CatalogTable ==
  [update_department |-> "departments", delete_department |-> "departments",
   update_category |-> "categories", delete_category |-> "categories",
   update_product |-> "products", delete_product |-> "products",
   update_price_tier |-> "tiers",
   update_panel |-> "panels", delete_panel |-> "panels", replace_panel_items |-> "panels",
   update_subpanel |-> "subpanels", delete_subpanel |-> "subpanels",
   delete_panel_item |-> "items"]

CatalogOp == DOMAIN CatalogTable \union
  {"create_department", "create_category", "create_product", "create_price_tier",
   "create_tax_rate_version", "create_panel", "create_subpanel", "reorder"}

\* What the schemas and the routes let through: the price is a field of its
\* own, and a new product has one.
WellFormed(r) ==
  /\ r.op = "create_product" => r.price \in Nat
  /\ r.op = "update_product" => r.price \in Nat \union {None}
  /\ r.op \in {"create_product", "update_product"} => "price" \notin DOMAIN r.fields
  /\ r.op = "create_tax_rate_version" => r.code \in STRING /\ r.from \in Int
  /\ r.op = "reorder" => r.table \in {"departments", "categories", "products", "panels", "subpanels"}

PriceRow == [product : Nat, price : Nat, to : Nat \union {None}]
TaxRow   == [code : STRING, from : Int, to : Int \union {None}]

\* Each product has one price in the history it starts with, and each tax one
\* version.
ASSUME CatalogAssumption ==
  /\ {"departments", "categories", "tiers", "products", "prices", "barcodes", "tierPrices",
      "taxes", "panels", "subpanels", "items"} \subseteq Table
  /\ None \notin PriceRow /\ None \notin TaxRow
  /\ \A r \in Request : WellFormed(r)
  /\ First.prices \in Seq(PriceRow)
  /\ First.taxes \in Seq([code : STRING, from : Int, to : {None}])
  /\ \A i \in DOMAIN First.prices : First.prices[i].product \in DOMAIN First.products
  /\ \A p \in DOMAIN First.products :
       /\ "price" \in DOMAIN First.products[p]
       /\ \E i \in DOMAIN First.prices :
            /\ First.prices[i].price = First.products[p].price
            /\ \A j \in DOMAIN First.prices :
                 First.prices[j].product = p /\ First.prices[j].to = None <=> j = i

-----------------------------------------------------------------------------
(* What each handler checks before it writes. *)

Named(r, k)   == k \in DOMAIN r.fields
Refers(r, k, t) == Named(r, k) => r.fields[k] = None \/ Exists(t, r.fields[k])

HierarchyChecks(r) ==
  /\ r.op \in {"create_department", "update_department"} /\ Named(r, "code") =>
       \/ Where("departments", "code", r.fields.code) = {}
       \/ r.op = "update_department" /\ rows.departments[r.id].code = r.fields.code
  /\ r.op \in {"create_category", "update_category"} => Refers(r, "department", "departments")
  /\ r.op \in {"create_price_tier", "update_price_tier"} /\ Named(r, "code") =>
       \/ Where("tiers", "code", r.fields.code) = {}
       \/ r.op = "update_price_tier" /\ rows.tiers[r.id].code = r.fields.code
  /\ r.op = "reorder" => DOMAIN r.order \subseteq Ids(r.table)

\* _check_barcodes_free: on no other product.
CheckBarcodesFree(codes, p) ==
  \A c \in codes, b \in Ids("barcodes") :
    rows.barcodes[b].code = c => rows.barcodes[b].product = p

ProductChecks(r) ==
  r.op \in {"create_product", "update_product"} =>
    /\ Refers(r, "category", "categories") /\ Refers(r, "tax", "taxes")
    /\ Named(r, "sku") /\ r.fields.sku # None =>
         \/ Where("products", "sku", r.fields.sku) = {}
         \/ r.op = "update_product" /\ rows.products[r.id].sku = r.fields.sku
    /\ r.barcodes # None =>
         CheckBarcodesFree(r.barcodes, IF r.op = "update_product" THEN r.id ELSE None)
    /\ r.tiers # None => DOMAIN r.tiers \subseteq Ids("tiers")

\* A design: buttons of the panel and of its subpanels, one in a cell.
PanelChecks(r) ==
  /\ r.op = "create_subpanel" => Exists("panels", r.fields.panel)
  /\ r.op = "replace_panel_items" =>
       /\ \A x \in r.items : Exists("products", x.product)
       /\ \A x \in r.items : x.sub # None =>
            Exists("subpanels", x.sub) /\ rows.subpanels[x.sub].panel = r.id
       /\ \A x, y \in r.items : x.sub = y.sub /\ x.cell = y.cell => x = y

BeginCatalog(h, r) ==
  /\ r.op \in DOMAIN CatalogTable => Exists(CatalogTable[r.op], r.id)
  /\ HierarchyChecks(r) /\ ProductChecks(r) /\ PanelChecks(r)
  /\ Begin(h, r, IF r.op \in DOMAIN CatalogTable THEN rows[CatalogTable[r.op]][r.id] ELSE None)

-----------------------------------------------------------------------------
(* The rows a handler finds to replace. *)

CurrentPrice(p) == {i \in Where("prices", "product", p) : rows.prices[i].to = None}
CurrentTax(c)   == {i \in Where("taxes", "code", c) : rows.taxes[i].to = None}
RowsOf(t, ids)  == {<<t, i>> : i \in ids}

PriceChanged(h) == req[h].price # None /\ req[h].price # seen[h].row.price

\* The price row it closes, the barcodes and the tier prices it deletes.
Replaced(h) ==
  LET p == req[h].id
  IN  (IF PriceChanged(h) THEN RowsOf("prices", CurrentPrice(p)) ELSE {})
      \union (IF req[h].barcodes # None THEN RowsOf("barcodes", Where("barcodes", "product", p)) ELSE {})
      \union (IF req[h].tiers # None THEN RowsOf("tierPrices", Where("tierPrices", "product", p)) ELSE {})

\* The buttons of a panel and of all its subpanels.
ButtonsOf(panel) ==
  Where("items", "panel", panel)
    \union {i \in Ids("items") : rows.items[i].sub \in Where("subpanels", "panel", panel)}

GatherCatalog(h) ==
  \/ Running(h, "update_product") /\ Gather(h, Replaced(h))
  \/ Running(h, "replace_panel_items") /\ Gather(h, RowsOf("items", ButtonsOf(req[h].id)))
  \/ /\ Running(h, "create_tax_rate_version")
     /\ \A i \in Where("taxes", "code", req[h].code) : rows.taxes[i].from # req[h].from
     /\ \/ CurrentTax(req[h].code) = {} /\ Gather(h, {})
        \/ \E i \in CurrentTax(req[h].code) :
             rows.taxes[i].from < req[h].from /\ Gather(h, {<<"taxes", i>>})

-----------------------------------------------------------------------------
(* Departments, categories and price tiers. *)

CreateDepartment(h) ==
  Running(h, "create_department") /\ Insert(h, "departments", req[h].fields @@ [active |-> TRUE])
UpdateDepartment(h) == Running(h, "update_department") /\ Update(h, "departments", req[h].fields)
DeleteDepartment(h) == Running(h, "delete_department") /\ Update(h, "departments", [active |-> FALSE])

CreateCategory(h) ==
  Running(h, "create_category") /\ Insert(h, "categories", req[h].fields @@ [active |-> TRUE])
UpdateCategory(h) == Running(h, "update_category") /\ Update(h, "categories", req[h].fields)
DeleteCategory(h) == Running(h, "delete_category") /\ Update(h, "categories", [active |-> FALSE])

CreatePriceTier(h) ==
  Running(h, "create_price_tier") /\ Insert(h, "tiers", req[h].fields @@ [active |-> TRUE])
UpdatePriceTier(h) == Running(h, "update_price_tier") /\ Update(h, "tiers", req[h].fields)

\* One UPDATE for each row of the list.  Two lists that share rows take their
\* locks one after the other, or the database aborts one of them.
Reorder(h) ==
  /\ Running(h, "reorder")
  /\ Commit(h, [rows EXCEPT ![req[h].table] = [i \in DOMAIN @ |->
       IF i \in DOMAIN req[h].order THEN [@[i] EXCEPT !.sort = req[h].order[i]] ELSE @[i]]])

-----------------------------------------------------------------------------
(* Products and taxes. *)

BarcodeRows(p, codes) ==
  IF codes = None THEN <<>> ELSE SetToSeq({[product |-> p, code |-> c] : c \in codes})
TierRows(p, tiers) ==
  IF tiers = None THEN <<>>
  ELSE SetToSeq({[product |-> p, tier |-> t, price |-> tiers[t]] : t \in DOMAIN tiers})
OpenPrice(p, price) == [product |-> p, price |-> price, to |-> None]

Priced(fields, price) ==
  [k \in DOMAIN fields \union {"price"} |-> IF k = "price" THEN price ELSE fields[k]]

\* The product, the first row of its history, its barcodes and tier prices.
CreateProduct(h) ==
  /\ Running(h, "create_product")
  /\ LET r == req[h]
         p == Len(rows.products) + 1
     IN  Commit(h, [rows EXCEPT
           !.products   = Append(@, Priced(r.fields, r.price)),
           !.prices     = Append(@, OpenPrice(p, r.price)),
           !.barcodes   = @ \o BarcodeRows(p, r.barcodes),
           !.tierPrices = @ \o TierRows(p, r.tiers)])

\* Mutant: the new price is left to the history.
NewFields_HistoryOnly(h) == req[h].fields

NewFields(h) == IF PriceChanged(h) THEN Priced(req[h].fields, req[h].price) ELSE req[h].fields

\* close_price and open_price.
History(h) ==
  IF ~PriceChanged(h) THEN rows.prices
  ELSE Append([i \in DOMAIN rows.prices |->
                IF <<"prices", i>> \in seen[h].old
                  THEN [rows.prices[i] EXCEPT !.to = Len(rows.prices) + 1] ELSE rows.prices[i]],
              OpenPrice(req[h].id, req[h].price))

UpdateProduct(h) ==
  /\ Running(h, "update_product") /\ seen[h].old # None
  /\ LET r == req[h]
     IN  Commit(h, [rows EXCEPT
           !.products[r.id] = Patched(@, seen[h].row, NewFields(h)),
           !.prices     = History(h),
           !.barcodes   = Kept(h, "barcodes") \o BarcodeRows(r.id, r.barcodes),
           !.tierPrices = Kept(h, "tierPrices") \o TierRows(r.id, r.tiers)])

DeleteProduct(h) == Running(h, "delete_product") /\ Update(h, "products", [active |-> FALSE])

\* Mutant: it ends the day before.
ClosedTaxes_DayBefore(h) ==
  [i \in DOMAIN rows.taxes |->
    IF <<"taxes", i>> \in seen[h].old THEN [rows.taxes[i] EXCEPT !.to = req[h].from - 1] ELSE rows.taxes[i]]

\* The version it found in force ends where the new one starts.
ClosedTaxes(h) ==
  [i \in DOMAIN rows.taxes |->
    IF <<"taxes", i>> \in seen[h].old THEN [rows.taxes[i] EXCEPT !.to = req[h].from] ELSE rows.taxes[i]]

CreateTaxRateVersion(h) ==
  /\ Running(h, "create_tax_rate_version") /\ seen[h].old # None
  /\ Commit(h, [rows EXCEPT !.taxes =
       Append(ClosedTaxes(h), [code |-> req[h].code, from |-> req[h].from, to |-> None])])

-----------------------------------------------------------------------------
(* Panels. *)

CreatePanel(h) == Running(h, "create_panel") /\ Insert(h, "panels", req[h].fields @@ [active |-> TRUE])
UpdatePanel(h) == Running(h, "update_panel") /\ Update(h, "panels", req[h].fields)
DeletePanel(h) == Running(h, "delete_panel") /\ Update(h, "panels", [active |-> FALSE])

CreateSubpanel(h) ==
  Running(h, "create_subpanel") /\ Insert(h, "subpanels", req[h].fields @@ [active |-> TRUE])
UpdateSubpanel(h) == Running(h, "update_subpanel") /\ Update(h, "subpanels", req[h].fields)
DeleteSubpanel(h) == Running(h, "delete_subpanel") /\ Update(h, "subpanels", [active |-> FALSE])

\* A button of a subpanel has no panel of its own.
ItemRows(panel, items) ==
  SetToSeq({[panel |-> IF x.sub = None THEN panel ELSE None, sub |-> x.sub,
             cell |-> x.cell, product |-> x.product] : x \in items})

ReplacePanelItems(h) ==
  /\ Running(h, "replace_panel_items") /\ seen[h].old # None
  /\ Commit(h, [rows EXCEPT !.items = Kept(h, "items") \o ItemRows(req[h].id, req[h].items)])

DeletePanelItem(h) ==
  Running(h, "delete_panel_item") /\ Commit(h, [rows EXCEPT !.items[req[h].id] = None])

CatalogWrite(h) ==
  \/ CreateDepartment(h) \/ UpdateDepartment(h) \/ DeleteDepartment(h)
  \/ CreateCategory(h) \/ UpdateCategory(h) \/ DeleteCategory(h)
  \/ CreatePriceTier(h) \/ UpdatePriceTier(h) \/ Reorder(h)
  \/ CreateProduct(h) \/ UpdateProduct(h) \/ DeleteProduct(h) \/ CreateTaxRateVersion(h)
  \/ CreatePanel(h) \/ UpdatePanel(h) \/ DeletePanel(h)
  \/ CreateSubpanel(h) \/ UpdateSubpanel(h) \/ DeleteSubpanel(h)
  \/ ReplacePanelItems(h) \/ DeletePanelItem(h)

-----------------------------------------------------------------------------
(* Properties. *)

\* The price the till charges (products.price) is that of the one row of the
\* history that is in force, whoever changed prices at once.
PriceInForce ==
  \A p \in Ids("products") :
    \E i \in DOMAIN rows.prices :
      CurrentPrice(p) = {i} /\ rows.prices[i].price = rows.products[p].price

\* "The price history is immutable": a row keeps its product and amount, and
\* once it ended, its end.
PricesAppendOnly ==
  [][\A i \in DOMAIN rows.prices :
       LET a == rows.prices[i]
           b == rows'.prices[i]
       IN  b.product = a.product /\ b.price = a.price /\ (a.to # None => b.to = a.to)]_deskVars

\* From the first version of a tax on, every day has one in force (a version
\* lasts from its start to the day before its end).
NoTaxGap ==
  \A i, j \in Ids("taxes") :
    LET c == rows.taxes[i].code
        d == rows.taxes[j].from
    IN  rows.taxes[j].code = c /\ d >= rows.taxes[i].from =>
          \A e \in {d - 1, d} : e >= rows.taxes[i].from =>
            \E k \in Where("taxes", "code", c) :
              rows.taxes[k].from <= e /\ (rows.taxes[k].to = None \/ e < rows.taxes[k].to)

\* "Two buttons cannot tread on each other": a cell of a panel or of a
\* subpanel has one.  Two designs saved at once break it: each deletes only the
\* buttons it found, and no index covers the cells.
OneButtonPerCell ==
  \A i, j \in Ids("items") :
    LET a == rows.items[i]
        b == rows.items[j]
    IN  <<a.panel, a.sub, a.cell>> = <<b.panel, b.sub, b.cell>> => i = j

\* "Closed when a new version of the same code comes": a tax has one version
\* with no end.  Two versions created at once break it.
OneTaxInForce == \A i \in Ids("taxes") : Cardinality(CurrentTax(rows.taxes[i].code)) <= 1
=============================================================================
