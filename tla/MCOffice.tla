------------------------------ MODULE MCOffice ------------------------------
(* A bar with two administrators and a waiter's role.                       *)
EXTENDS Office

MCPermission == AdminPermission \union {"products.edit"}
MCGrants == SetToSeq({[role |-> 1, perm |-> p] : p \in MCPermission})

User(n)  == [name |-> n, role |-> 1, active |-> TRUE, password |-> "old", pin |-> None]
Product(c) == [sku |-> None, category |-> c, tax |-> 1, price |-> 10, active |-> TRUE, sort |-> 0]

MCFirst ==
  [users |-> <<User("ana"), User("luis")>>,
   roles |-> <<[code |-> "admin", name |-> "a"], [code |-> "waiter", name |-> "a"]>>,
   grants |-> MCGrants,
   logins |-> <<NewLogin(1, None), NewLogin(2, None)>>,
   terminals |-> <<[code |-> "t1", name |-> "a", active |-> TRUE]>>,
   devices |-> <<[terminal |-> None, name |-> "a", active |-> TRUE, token |-> 1]>>,
   methods |-> <<[code |-> "cash", name |-> "a", kind |-> "cash", active |-> TRUE]>>,
   departments |-> <<[code |-> "bar", active |-> TRUE, sort |-> 0]>>,
   categories |-> <<[department |-> 1, active |-> TRUE, sort |-> 0]>>,
   tiers |-> <<[code |-> "terrace", active |-> TRUE]>>,
   taxes |-> <<[code |-> "general", from |-> 1, to |-> None]>>,
   products |-> <<Product(1), Product(None)>>,
   prices |-> <<OpenPrice(1, 10), OpenPrice(2, 10)>>,
   barcodes |-> <<[product |-> 1, code |-> "b1"]>>,
   tierPrices |-> <<>>,
   panels |-> <<[active |-> TRUE, sort |-> 0]>>,
   subpanels |-> <<[panel |-> 1, active |-> TRUE, sort |-> 0]>>,
   items |-> <<[panel |-> 1, sub |-> None, cell |-> 1, product |-> 1]>>]

MCMaxRows ==
  [t \in DOMAIN MCFirst |->
    Len(MCFirst[t]) + CASE t \in {"items", "grants"} -> 4
                        [] t \in {"logins", "taxes", "barcodes", "prices"} -> 2
                        [] OTHER -> 1]

\* Requests; ana acts unless another session is given.
Signed(r) == r @@ [sid |-> 1, scope |-> "full"]
Form0(op, fields) == Signed([op |-> op, fields |-> fields])
Edit(op, id, fields) == Signed([op |-> op, id |-> id, fields |-> fields])
Drop(op, id) == Signed([op |-> op, id |-> id])
ByLuis(r) == [sid |-> 2] @@ r
WithPin(r) == [scope |-> "pos"] @@ r

Login(op, name, secret) == [op |-> op, name |-> name, secret |-> secret]
Refreshes(s) == [op |-> "refresh", id |-> s]
LogsOut(s)   == [op |-> "logout", id |-> s]
Matrix(role, codes) == Signed([op |-> "set_role_permissions", id |-> role, codes |-> codes])
Sort(t, order) == Signed([op |-> "reorder", table |-> t, order |-> order])
Sells(id, fields, price, codes, tiers) ==
  Edit("update_product", id, fields) @@ [price |-> price, barcodes |-> codes, tiers |-> tiers]
NewProduct(sku, price, codes) ==
  Form0("create_product", [sku |-> sku, category |-> 1, tax |-> 1, active |-> TRUE, sort |-> 0])
    @@ [price |-> price, barcodes |-> codes, tiers |-> None]
NewTax(from) == Signed([op |-> "create_tax_rate_version", code |-> "general", from |-> from])
Button(sub, cell, p) == [sub |-> sub, cell |-> cell, product |-> p]
Design(items) == Signed([op |-> "replace_panel_items", id |-> 1, items |-> items])

Staff ==
  { Edit("update_user", 1, [role |-> 2]), Edit("update_user", 2, [active |-> FALSE]),
    ByLuis(Edit("update_user", 1, [active |-> FALSE])), ByLuis(Edit("update_user", 1, [role |-> 1])),
    Form0("create_user", [name |-> "eva", role |-> 2, password |-> "old", pin |-> "pin"]) }
Sessions ==
  { Login("login_password", "ana", "old"), Refreshes(1), Refreshes(3), LogsOut(1),
    Edit("set_password", 1, [password |-> "new"]), ByLuis(Edit("update_user", 1, [active |-> FALSE])) }
Pins ==
  { Edit("set_pin", 2, [pin |-> "pin"]), Edit("set_pin", 2, [pin |-> None]),
    Login("login_pin", "luis", "pin"), LogsOut(3) }
Roles ==
  { Form0("create_role", [code |-> "cook", name |-> "a"]), Edit("update_role", 2, [name |-> "b"]),
    Matrix(2, {"products.edit"}), Matrix(2, {"admin.users", "products.edit"}), Matrix(2, {}) }
Terminals ==
  { Form0("create_terminal", [code |-> "t2", name |-> "a"]),
    Edit("update_terminal", 1, [name |-> "b", active |-> TRUE]),
    Edit("update_terminal", 1, [name |-> "a"]), Drop("deactivate_terminal", 1),
    Form0("enroll_device", [terminal |-> 1, name |-> "a"]) }
Devices ==
  { Edit("update_device", 1, [terminal |-> 1]), Edit("update_device", 1, [name |-> "b", active |-> TRUE]),
    Drop("rotate_device_token", 1), Drop("deactivate_device", 1), Drop("deactivate_terminal", 1) }
Methods ==
  { Form0("create_payment_method", [code |-> "card", name |-> "a", kind |-> "card"]),
    WithPin(Edit("update_payment_method", 1, [active |-> TRUE])),
    Edit("update_payment_method", 1, [code |-> "card"]),
    Edit("update_payment_method", 1, [kind |-> "card", name |-> "b"]), Drop("deactivate_payment_method", 1) }
Departments ==
  { Form0("create_department", [code |-> "food", sort |-> 1]), Edit("update_department", 1, [code |-> "food"]),
    WithPin(Edit("update_department", 1, [active |-> TRUE])), Drop("delete_department", 1),
    Sort("departments", [i \in 1..2 |-> 3 - i]) }
Categories ==
  { Form0("create_category", [department |-> 1, sort |-> 1]), Edit("update_category", 1, [department |-> None]),
    Drop("delete_category", 1), Form0("create_price_tier", [code |-> "hotel"]),
    Edit("update_price_tier", 1, [code |-> "hotel"]), Edit("update_price_tier", 1, [active |-> FALSE]) }
Prices ==
  { Sells(1, [x \in {} |-> None], 11, None, None), Sells(1, [active |-> TRUE], 12, {"b2"}, None),
    Sells(1, [category |-> None], 10, None, [t \in {1} |-> 9]) }
Barcodes ==
  { NewProduct("s1", 5, {"b2"}), Sells(1, [sku |-> "s1"], None, {"b1", "b2"}, None),
    Sells(2, [sku |-> "s1"], 11, {"b2"}, [t \in {1} |-> 9]), Drop("delete_product", 1) }
Taxes ==
  { NewTax(2), NewTax(3), NewTax(4) }
Panels ==
  { Form0("create_panel", [sort |-> 1]), Edit("update_panel", 1, [sort |-> 2]), Drop("delete_panel", 1),
    Form0("create_subpanel", [panel |-> 1, sort |-> 1]), Edit("update_subpanel", 1, [active |-> TRUE]),
    Drop("delete_subpanel", 1) }
Grid ==
  { Design({Button(None, 1, 1), Button(1, 1, 2)}), Design({Button(None, 1, 2)}),
    Drop("delete_panel_item", 1), Drop("delete_panel_item", 2) }

MCScene ==
  {Staff, Sessions, Pins, Roles, Terminals, Devices, Methods,
   Departments, Categories, Prices, Barcodes, Taxes, Panels, Grid}
=============================================================================
