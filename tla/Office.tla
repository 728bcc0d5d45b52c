------------------------------- MODULE Office -------------------------------
(***************************************************************************)
(* The back office: the handlers of Access and of Catalog over the same    *)
(* rows.  Each admin request is let in by the session, the user and the    *)
(* grants that the handlers of Access change.                              *)
(***************************************************************************)
EXTENDS Access, Catalog

\* The routes of the catalog write with products.edit.
BeginEdit(h, r) == r.op \in CatalogOp /\ MayDo(r, "products.edit") /\ BeginCatalog(h, r)

OfficeNext ==
  \/ \E h \in Handler :
       \/ \E r \in Request : BeginAuth(h, r) \/ BeginAdmin(h, r) \/ BeginEdit(h, r)
       \/ GatherAccess(h) \/ GatherCatalog(h)
       \/ AccessWrite(h) \/ CatalogWrite(h)
       \/ Rollback(h)
  \/ \E s \in Ids("logins") : Expire(s)

OfficeSpec == DeskInit /\ [][OfficeNext]_deskVars

\* What a request may change of the row it names.
Deactivates == {"deactivate_terminal", "deactivate_device", "deactivate_payment_method",
                "delete_department", "delete_category", "delete_product", "delete_panel",
                "delete_subpanel"}
AskedFields(r) ==
  CASE r.op \in Deactivates -> {"active"}
    [] r.op = "rotate_device_token" -> {"token"}
    [] r.op = "update_product" ->
         DOMAIN r.fields \union {k \in {"price"} : r.price # None}
    [] r.op \in {"set_role_permissions", "replace_panel_items"} -> {}
    [] OTHER -> DOMAIN r.fields

\* Tables whose rows the forms edit.
Form == {"users", "roles", "terminals", "devices", "methods", "departments", "categories",
         "tiers", "products", "panels", "subpanels"}
FormTable(op) ==
  IF op \in DOMAIN AccessTable THEN AccessTable[op]
  ELSE IF op \in DOMAIN CatalogTable THEN CatalogTable[op] ELSE None

Asked(h, t, i, k) ==
  \/ FormTable(req[h].op) = t /\ req[h].id = i /\ k \in AskedFields(req[h])
  \/ req[h].op = "reorder" /\ req[h].table = t /\ i \in DOMAIN req[h].order /\ k = "sort"

\* No lost update: a form changes a field of a row only when it asks for it, so
\* what another form saved after this one was opened stays (a name saved while
\* the row is deactivated does not activate it again).
OnlyAskedFields ==
  [][\A t \in Form : \A i \in DOMAIN rows[t] : \A k \in DOMAIN rows[t][i] :
       rows'[t][i][k] # rows[t][i][k] => \E h \in Handler : req[h] # None /\ Asked(h, t, i, k)]_deskVars
=============================================================================
