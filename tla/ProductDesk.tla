---------------------------- MODULE ProductDesk ----------------------------
(* The products page with its dialog, and what Estoque and the language     *)
(* model answer.  While a suggestion or a save is under way the form stays  *)
(* editable, so that an answer meets another form than it was asked for.    *)
EXTENDS Naturals, Sequences

CONSTANTS Codes,        \* product codes a user may type
          NoCode,       \* the empty field, none of them
          MaxLoads      \* bound: loads of the list in flight at once

VARIABLES reachable,    \* does Estoque answer, and accept the token?
          products,     \* codes with a row in table products
          here, shown, loads, garbled,   \* PageLoads
          dialog,       \* is the dialog open?
          code,         \* its form: the code, and where the description comes
          description,  \* from: "empty", "typed", "model", "offline"
          suggestion,   \* what the AI button waits for: "none", "pending",
                        \* "model", "offline", "failed"
          save,         \* [state, code]: "none", "sent", "created", "refused"
          told          \* history: codes this page reported as saved

page == <<here, shown, loads, garbled>>
form == <<code, description>>
vars == <<reachable, products, page, dialog, form, suggestion, save, told>>

\* The text of the language model; without a key, or when it fails, the offline one.
Texts == {"model", "offline"}

NoSave == [state |-> "none", code |-> NoCode]

Page == INSTANCE PageLoads WITH EmptyList <- {}

Init ==
    /\ reachable = TRUE /\ products = {}
    /\ Page!Init
    /\ dialog = FALSE /\ code = NoCode /\ description = "empty"
    /\ suggestion = "none" /\ save = NoSave /\ told = {}

-----------------------------------------------------------------------------
\* Estoque stops or starts, the session expires or is renewed.
Environment ==
    /\ reachable' = ~reachable
    /\ UNCHANGED <<products, page, dialog, form, suggestion, save, told>>

Enter ==
    /\ Page!Enter
    /\ told' = {}
    /\ UNCHANGED <<reachable, products, dialog, form, suggestion, save>>

\* The page and its dialog are gone; a save on its way is executed all the same.
Leave ==
    /\ Page!Leave
    /\ dialog' = FALSE /\ code' = NoCode /\ description' = "empty"
    /\ suggestion' = "none" /\ told' = {}
    /\ UNCHANGED <<reachable, products, save>>

LoadStep(n) ==
    /\ \/ reachable /\ Page!ServeLoad(n, products)
       \/ Page!ShowLoad(n)
       \/ ~reachable /\ Page!LoadFails(n)
    /\ UNCHANGED <<reachable, products, dialog, form, suggestion, save, told>>

-----------------------------------------------------------------------------
\* openCreate, and openEdit too: it passes the product itself, the dialog looks
\* for data.product, and the form is an empty one for a new product.  Bound: one
\* save at a time, also when it is one that a page was left with.
OpenDialog ==
    /\ here /\ ~dialog /\ save = NoSave
    /\ dialog' = TRUE
    /\ UNCHANGED <<reachable, products, page, form, suggestion, save, told>>

CloseDialog ==
    /\ dialog' = FALSE /\ code' = NoCode /\ description' = "empty"
    /\ suggestion' = "none"

Cancel ==
    /\ dialog /\ save = NoSave
    /\ CloseDialog
    /\ UNCHANGED <<reachable, products, page, save, told>>

\* A change of the code clears a description that begins with "Produto ": the
\* offline text always does, the others may.
TypeCode(c) ==
    /\ dialog /\ c # code
    /\ code' = c
    /\ description' \in IF description = "offline" THEN {"empty"} ELSE {description, "empty"}
    /\ UNCHANGED <<reachable, products, page, dialog, suggestion, save, told>>

TypeDescription ==
    /\ dialog
    /\ description' = "typed"
    /\ UNCHANGED <<reachable, products, page, dialog, code, suggestion, save, told>>

Suggest ==
    /\ dialog /\ code # NoCode
    /\ suggestion = "none" /\ save = NoSave
    /\ suggestion' = "pending"
    /\ UNCHANGED <<reachable, products, page, dialog, form, save, told>>

\* AIDescription.
ServeSuggestion ==
    /\ suggestion = "pending"
    /\ suggestion' \in IF reachable THEN Texts ELSE {"failed"}
    /\ UNCHANGED <<reachable, products, page, dialog, form, save, told>>

\* The answer goes into the form, whatever the code is by now.
HearSuggestion ==
    /\ suggestion \in Texts \cup {"failed"}
    /\ description' = IF suggestion = "failed" THEN description ELSE suggestion
    /\ suggestion' = "none"
    /\ UNCHANGED <<reachable, products, page, dialog, code, save, told>>

Save ==
    /\ dialog /\ save = NoSave
    /\ code # NoCode /\ description # "empty"
    /\ save' = [state |-> "sent", code |-> code]
    /\ UNCHANGED <<reachable, products, page, dialog, form, suggestion, told>>

\* POST /products: the row is there or it is not, and the answer may tell
\* otherwise: its acknowledgement is lost, the statement fails.
ServeSave ==
    /\ save.state = "sent"
    /\ \/ /\ reachable /\ save.code \notin products
          /\ products' = products \cup {save.code}
          /\ save' \in {[save EXCEPT !.state = s] : s \in {"created", "refused"}}
       \/ save' = [save EXCEPT !.state = "refused"] /\ UNCHANGED products
    /\ UNCHANGED <<reachable, page, dialog, form, suggestion, told>>

\* A success closes the dialog, and the page loads its list again.
HearSave ==
    /\ save.state \in {"created", "refused"}
    /\ save' = NoSave
    /\ IF save.state = "created" /\ dialog
       THEN CloseDialog /\ Page!Reload /\ told' = told \cup {save.code}
       ELSE UNCHANGED <<dialog, form, suggestion, page, told>>
    /\ UNCHANGED <<reachable, products>>

-----------------------------------------------------------------------------
Answered == ServeSuggestion \/ HearSuggestion \/ ServeSave \/ HearSave
Loading == \E n \in 1..MaxLoads : LoadStep(n)

Next ==
    \/ Environment \/ Enter \/ Leave
    \/ OpenDialog \/ Cancel
    \/ (\E c \in Codes \cup {NoCode} : TypeCode(c)) \/ TypeDescription
    \/ Suggest \/ Save \/ Answered \/ Loading

Spec == Init /\ [][Next]_vars

-----------------------------------------------------------------------------
\* A product the page reports as saved is in the table; and in the list once the
\* list is at rest, unless a load has failed or been overtaken and the list has
\* not been loaded by itself since.
SavedIsListed ==
    /\ told \subseteq products
    /\ here /\ loads = <<>> /\ ~garbled => told \subseteq shown
=============================================================================
