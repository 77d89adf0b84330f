------------------------------ MODULE WebPages ------------------------------
(* The two pages that change something, each on the same way of loading its  *)
(* list.  They share no state: the router shows one, and a dialog belongs to *)
(* its page.  So a behaviour exercises one of them while the other is closed.*)
EXTENDS InvoicesPage

CONSTANTS TypedCodes,   \* product codes a user may type
          NoCode

VARIABLES route,        \* the page this behaviour exercises
          reachable, products, deskHere, deskShown, deskLoads, deskGarbled,
          dialog, code, description, suggestion, save, told    \* ProductDesk

desk == <<reachable, products, deskHere, deskShown, deskLoads, deskGarbled,
          dialog, code, description, suggestion, save, told>>
webVars == <<allVars, desk, route>>

Desk == INSTANCE ProductDesk WITH
            Codes <- TypedCodes, here <- deskHere, shown <- deskShown,
            loads <- deskLoads, garbled <- deskGarbled

WebInit ==
    /\ PageInit /\ Desk!Init
    /\ route \in {"invoices", "products"}

OnInvoices == route = "invoices" /\ PageNext /\ UNCHANGED <<desk, route>>
OnProducts == route = "products" /\ Desk!Next /\ UNCHANGED <<allVars, route>>

WebNext == OnInvoices \/ OnProducts

WebSpec == WebInit /\ [][WebNext]_webVars

-----------------------------------------------------------------------------
\* A product the page reported as saved is in the table; and in the list once
\* the list is at rest, unless a load has failed or been overtaken and the list
\* has not been loaded by itself since.
SavedIsListed == Desk!SavedIsListed
=============================================================================
