--------------------------- MODULE WebPagesProofs ---------------------------
(* The lists of the two pages, for any number of loads, prints, invoices and *)
(* codes: what they show at rest, and in which order news reaches them; and  *)
(* what a page that is stayed on and hears its answers does to an invoice.   *)
EXTENDS WebPages, PrintFlowProofs, SequencesExt, SequenceTheorems

\* The youngest load in flight, or what is shown when there is none: the list a
\* page comes to rest with, once it is answered.
Newest(inFlight, list) ==
    IF inFlight = <<>> THEN [answered |-> TRUE, list |-> list]
                       ELSE inFlight[Len(inFlight)]

InvoiceLists == [Invoices -> {"absent", "OPEN", "CLOSED"}]
InvoiceLoads == [answered : BOOLEAN, list : InvoiceLists]

PageTypes ==
    /\ status \in [Invoices -> {"OPEN", "CLOSED"}]
    /\ pc \in [Prints -> Places]
    /\ shown \in InvoiceLists
    /\ loads \in Seq(InvoiceLoads)
    /\ garbled \in BOOLEAN /\ strayed \in BOOLEAN /\ disturbed \in BOOLEAN
    /\ ~here => shown = NoRows /\ loads = <<>> /\ ~Awaiting

\* Every row that is closed in the older list is closed in the newer one.
NotAfter(older, newer) ==
    \A i \in Invoices : older[i] = "CLOSED" => newer[i] = "CLOSED"

\* Whatever fails or is overtaken, nothing comes from the future: invoices only
\* close, so what is shown or on its way is no newer than the table.
Past ==
    /\ NotAfter(shown, status)
    /\ \A n \in DOMAIN loads : loads[n].answered => NotAfter(loads[n].list, status)

\* Unless answers overtook each other, the loads in flight are answered from the
\* front, each with news that is no older than what stands before it.
InOrder ==
    ~garbled =>
        /\ NotAfter(shown, status)
        /\ \A n \in DOMAIN loads : loads[n].answered =>
               NotAfter(shown, loads[n].list) /\ NotAfter(loads[n].list, status)
        /\ \A m, n \in DOMAIN loads : m < n /\ loads[n].answered =>
               loads[m].answered /\ NotAfter(loads[m].list, loads[n].list)

\* A page that was not left while it printed, and heard every answer, awaits
\* whatever print there is.
AwaitsWhatRuns == Calm => \A p \in Prints : Running(p) => printing = p

\* While no print is awaited, the youngest load has the table as it is.
TruthComes ==
    Calm /\ ~garbled /\ here /\ ~Awaiting =>
        LET newest == Newest(loads, shown) IN newest.answered => newest.list = status

PageInv == PageTypes /\ Past /\ InOrder /\ AwaitsWhatRuns /\ TruthComes

DeskLoads == [answered : BOOLEAN, list : SUBSET TypedCodes]

SaveForms == [state : {"none", "sent", "created", "refused"}, code : TypedCodes \cup {NoCode}]

DeskTypes ==
    /\ products \subseteq TypedCodes
    /\ deskShown \subseteq TypedCodes
    /\ deskLoads \in Seq(DeskLoads)
    /\ deskGarbled \in BOOLEAN
    /\ code \in TypedCodes \cup {NoCode}
    /\ save \in SaveForms

\* What was told, or is about to be told, as saved is in the table.
ToldIsSaved ==
    /\ save.state \in {"sent", "created"} => save.code \in TypedCodes
    /\ save.state = "created" => save.code \in products
    /\ told \subseteq products

\* The youngest load has every product that was told as saved.
SavedComes ==
    deskHere /\ ~deskGarbled =>
        LET newest == Newest(deskLoads, deskShown) IN newest.answered => told \subseteq newest.list

DeskInv == DeskTypes /\ ToldIsSaved /\ SavedComes

WebInv == PageInv /\ DeskInv

-----------------------------------------------------------------------------
\* Lists of loads.

\* A load that is removed leaves loads ...
LEMMA RemoveKeeps ==
    ASSUME NEW S, NEW s \in Seq(S), NEW n \in DOMAIN s
    PROVE  RemoveAt(s, n) \in Seq(S)
<1>1. SubSeq(s, 1, n - 1) \in Seq(S) /\ SubSeq(s, n + 1, Len(s)) \in Seq(S)
  OBVIOUS
<1> QED
  BY <1>1 DEF RemoveAt

\* ... the others ...
LEMMA RemoveLeaves ==
    ASSUME NEW S, NEW s \in Seq(S), NEW n \in DOMAIN s
    PROVE  \A m \in DOMAIN RemoveAt(s, n) : \E k \in DOMAIN s : RemoveAt(s, n)[m] = s[k]
<1> DEFINE front == SubSeq(s, 1, n - 1)
           back == SubSeq(s, n + 1, Len(s))
<1>1. Len(s) \in Nat /\ n \in 1..Len(s)
  OBVIOUS
<1>2. /\ front \in Seq(S) /\ Len(front) = n - 1
      /\ \A m \in 1..(n - 1) : front[m] = s[m]
  BY <1>1
<1>3. /\ back \in Seq(S) /\ Len(back) = Len(s) - n
      /\ \A m \in 1..(Len(s) - n) : back[m] = s[m + n]
  BY <1>1
<1>4. RemoveAt(s, n) = front \o back
  BY DEF RemoveAt
<1> HIDE DEF front, back
<1>5. ASSUME NEW m \in DOMAIN (front \o back)
      PROVE  \E k \in DOMAIN s : (front \o back)[m] = s[k]
  <2>1. m \in 1..(Len(front) + Len(back))
    BY <1>2, <1>3
  <2>2. (front \o back)[m] = IF m <= Len(front) THEN front[m] ELSE back[m - Len(front)]
    BY <1>2, <1>3, <2>1, ConcatProperties
  <2>3. CASE m <= Len(front)
    <3>1. m \in DOMAIN s /\ front[m] = s[m]
      BY <1>1, <1>2, <2>1, <2>3
    <3> QED
      BY <2>2, <2>3, <3>1
  <2>4. CASE ~(m <= Len(front))
    <3>1. m - Len(front) \in 1..(Len(s) - n)
      BY <1>1, <1>2, <1>3, <2>1, <2>4
    <3>2. (m - Len(front)) + n \in DOMAIN s
      BY <1>1, <3>1
    <3> QED
      BY <1>3, <2>2, <2>4, <3>1, <3>2
  <2> QED
    BY <2>3, <2>4
<1> QED
  BY <1>4, <1>5

\* ... and from the front it moves them up.
LEMMA RemoveFront ==
    ASSUME NEW S, NEW s \in Seq(S), 1 \in DOMAIN s
    PROVE  /\ Len(RemoveAt(s, 1)) = Len(s) - 1
           /\ \A m \in 1..(Len(s) - 1) : RemoveAt(s, 1)[m] = s[m + 1]
<1>1. SubSeq(s, 1, 0) = <<>>
  OBVIOUS
<1>2. SubSeq(s, 2, Len(s)) \in Seq(S) /\ Len(SubSeq(s, 2, Len(s))) = Len(s) - 1
  <2>1. Len(s) \in Nat /\ Len(s) >= 1
    OBVIOUS
  <2>2. CASE Len(s) = 1
    BY <2>2
  <2>3. CASE Len(s) >= 2
    BY <2>3
  <2> QED
    BY <2>1, <2>2, <2>3
<1>3. RemoveAt(s, 1) = SubSeq(s, 2, Len(s))
  BY <1>1, <1>2 DEF RemoveAt
<1> QED
  BY <1>2, <1>3

\* Taking the front load to the page leaves the youngest what it is.
LEMMA NewestShown ==
    ASSUME NEW S, NEW s \in Seq(S), NEW x, 1 \in DOMAIN s,
           s[1] = [answered |-> TRUE, list |-> s[1].list]
    PROVE  Newest(RemoveAt(s, 1), s[1].list) = Newest(s, x)
<1>1. Len(s) \in Nat /\ Len(s) >= 1 /\ s # <<>>
  OBVIOUS
<1>2. RemoveAt(s, 1) \in Seq(S) /\ Len(RemoveAt(s, 1)) = Len(s) - 1
  BY RemoveKeeps, RemoveFront
<1>3. CASE Len(s) = 1
  BY <1>1, <1>2, <1>3 DEF Newest
<1>4. CASE Len(s) # 1
  <2>1. \A k \in Nat : k >= 1 /\ k # 1 => k - 1 \in 1..(k - 1)
    OBVIOUS
  <2>2. Len(s) - 1 \in 1..(Len(s) - 1)
    BY <1>1, <1>4, <2>1
  <2>3. RemoveAt(s, 1)[Len(s) - 1] = s[Len(s)]
    BY <1>1, <2>2, RemoveFront
  <2> QED
    BY <1>1, <1>2, <2>2, <2>3 DEF Newest
<1> QED
  BY <1>3, <1>4

\* An answer changes the youngest load only when it is its own.
LEMMA NewestServed ==
    ASSUME NEW S, NEW s \in Seq(S), NEW n \in DOMAIN s, NEW l, NEW x
    PROVE  Newest([s EXCEPT ![n] = l], x) = IF n = Len(s) THEN l ELSE Newest(s, x)
<1>1. DOMAIN s = 1..Len(s) /\ Len([s EXCEPT ![n] = l]) = Len(s)
  OBVIOUS
<1>2. s # <<>> /\ [s EXCEPT ![n] = l] # <<>>
  BY <1>1
<1> QED
  BY <1>1, <1>2 DEF Newest

\* A load that is asked is the youngest.
LEMMA NewestAsked ==
    ASSUME NEW S, NEW s \in Seq(S), NEW l \in S, NEW x
    PROVE  Newest(Append(s, l), x) = l
BY DEF Newest

-----------------------------------------------------------------------------
\* The invoices page.

\* What the services do: an invoice is closed, by a print that runs, and stays
\* closed; no print begins.
LEMMA ServicesStep ==
    ASSUME PageTypes, Services
    PROVE  /\ status' \in [Invoices -> {"OPEN", "CLOSED"}]
           /\ pc' \in [Prints -> Places]
           /\ NotAfter(status, status')
           /\ status' # status => \E p \in Prints : Running(p)
           /\ \A p \in Prints : Running(p)' => Running(p)
           /\ disturbed \in BOOLEAN => disturbed' \in BOOLEAN
<1> USE DEF PageTypes
<1>1. disturbed' \in BOOLEAN
  BY DEF Services
<1>2. CASE UNCHANGED <<status, pc>>
  BY <1>1, <1>2 DEF NotAfter, Running
<1>3. ASSUME NEW p \in Prints, Handle(p), ~UNCHANGED <<status, pc>>
      PROVE  /\ Running(p)
             /\ \E place \in Places : pc' = [pc EXCEPT ![p] = place]
             /\ \/ status' = status
                \/ status' = [status EXCEPT ![req[p].inv] = "CLOSED"]
  <2>1. CASE Lookup(p) \/ Load(p) \/ AfterCall(p) \/ Reread(p) \/ Save(p)
    BY <2>1 DEF Lookup, Load, AfterCall, Reread, Save, Goto, Answer, Running, Places, tables
  <2>2. CASE Begin(p) \/ Retry(p) \/ Listen(p)
    BY <2>2, <1>3 DEF Begin, Retry, Listen, handler, tables
  <2>3. CASE Claim(p)
    BY <2>3 DEF Claim, Goto, Answer, Running, Places
  <2>4. CASE StatementFails(p)
    BY <2>4 DEF StatementFails, Answer, Running, Places, tables
  <2> QED
    BY <1>3, <2>1, <2>2, <2>3, <2>4 DEF Handle
<1>4. ASSUME NEW p \in Prints, Handle(p), ~UNCHANGED <<status, pc>>
      PROVE  /\ status' \in [Invoices -> {"OPEN", "CLOSED"}]
             /\ pc' \in [Prints -> Places]
             /\ NotAfter(status, status')
             /\ \E q \in Prints : Running(q)
             /\ \A q \in Prints : Running(q)' => Running(q)
  <2>1. \E place \in Places : pc' = [pc EXCEPT ![p] = place]
    BY <1>3, <1>4
  <2>2. pc' \in [Prints -> Places] /\ \A q \in Prints : q # p => pc'[q] = pc[q]
    BY <2>1
  <2>3. \A q \in Prints : Running(q)' => Running(q)
    BY <1>3, <1>4, <2>2 DEF Running
  <2>4. status' \in [Invoices -> {"OPEN", "CLOSED"}] /\ NotAfter(status, status')
    BY <1>3, <1>4 DEF NotAfter
  <2> QED
    BY <1>3, <1>4, <2>2, <2>3, <2>4
<1>5. CASE \E p \in Prints : Handle(p)
  BY <1>1, <1>2, <1>4, <1>5
<1>6. CASE \E a \in Attempts : EstoqueServes(a)
  BY <1>2, <1>6 DEF EstoqueServes, handler, tables
<1>7. CASE ResetTimeoutPasses
  BY <1>2, <1>7 DEF ResetTimeoutPasses, handler, tables
<1> QED
  BY <1>5, <1>6, <1>7 DEF Services

\* The button begins one print, for a row shown as open.
LEMMA PrintRowStep ==
    ASSUME PageTypes, NEW i \in Invoices, PrintRow(i)
    PROVE  /\ here /\ UNCHANGED <<status, page, history>>
           /\ ~Awaiting
           /\ \E p \in Prints :
                /\ printing' = p
                /\ \E place \in Places : pc' = [pc EXCEPT ![p] = place]
<1>1. here
  BY DEF PrintRow, PageTypes, NoRows
<1>2. PICK p \in Prints, k \in FreshKeys : Start(p, [inv |-> i, key |-> k]) /\ printing' = p
  BY DEF PrintRow
<1>3. \E place \in Places : pc' = [pc EXCEPT ![p] = place]
  BY <1>2 DEF Start, Places
<1> QED
  BY <1>1, <1>2, <1>3 DEF PrintRow, Start, tables

\* A load that is answered, shown or fails, as steps of sequences.
LEMMA LoadStepForms ==
    ASSUME PageTypes, NEW n, LoadStep(n)
    PROVE  /\ n \in DOMAIN loads
           /\ UNCHANGED <<vars, printing, history, here>>
           /\ \/ /\ ~loads[n].answered
                 /\ loads' = [loads EXCEPT ![n] = [answered |-> TRUE, list |-> status]]
                 /\ garbled' = (garbled \/ \E m \in 1..(n - 1) : ~loads[m].answered)
                 /\ shown' = shown
              \/ /\ loads[n].answered
                 /\ shown' = loads[n].list
                 /\ loads' = RemoveAt(loads, n)
                 /\ garbled' = (garbled \/ n > 1)
              \/ /\ loads' = RemoveAt(loads, n)
                 /\ garbled' = TRUE
                 /\ shown' = shown
<1>1. CASE Page!ServeLoad(n, status)
  BY <1>1 DEF LoadStep, Page!ServeLoad
<1>2. CASE Page!ShowLoad(n)
  BY <1>2 DEF LoadStep, Page!ShowLoad, Page!RemoveAt, RemoveAt
<1>3. CASE Page!LoadFails(n)
  BY <1>3 DEF LoadStep, Page!LoadFails, Page!RemoveAt, RemoveAt
<1> QED
  BY <1>1, <1>2, <1>3 DEF LoadStep

\* A page that loads once more, whatever it has done.
LEMMA ReloadForm ==
    ASSUME Page!Reload
    PROVE  /\ loads' = Append(loads, [answered |-> FALSE, list |-> NoRows])
           /\ garbled' = (garbled /\ loads # <<>>)
           /\ UNCHANGED <<here, shown>>
BY DEF Page!Reload, Page!Asked

\* An empty page is older than any list.
LEMMA NoRowsIsList == NoRows \in InvoiceLists /\ \A l : NotAfter(NoRows, l)
BY DEF NoRows, InvoiceLists, NotAfter

\* What the steps make of the loads are loads.
LEMMA LoadsKeepTypes ==
    ASSUME NEW ls \in Seq(InvoiceLoads)
    PROVE  /\ \A n \in DOMAIN ls : ls[n].list \in InvoiceLists /\ ls[n].answered \in BOOLEAN
           /\ \A l \in InvoiceLists, b \in BOOLEAN :
                /\ Append(ls, [answered |-> b, list |-> l]) \in Seq(InvoiceLoads)
                /\ <<[answered |-> b, list |-> l]>> \in Seq(InvoiceLoads)
                /\ \A n \in DOMAIN ls :
                     [ls EXCEPT ![n] = [answered |-> b, list |-> l]] \in Seq(InvoiceLoads)
<1>1. \A n \in DOMAIN ls : ls[n] \in InvoiceLoads
  OBVIOUS
<1>2. \A l \in InvoiceLists, b \in BOOLEAN : [answered |-> b, list |-> l] \in InvoiceLoads
  BY DEF InvoiceLoads
<1>3. \A l \in InvoiceLoads : Append(ls, l) \in Seq(InvoiceLoads) /\ <<l>> \in Seq(InvoiceLoads)
  OBVIOUS
<1>4. \A l \in InvoiceLoads : \A n \in DOMAIN ls : [ls EXCEPT ![n] = l] \in Seq(InvoiceLoads)
  OBVIOUS
<1> QED
  BY <1>1, <1>2, <1>3, <1>4 DEF InvoiceLoads

\* Every step keeps the types.
LEMMA PageTypesStep == PageTypes /\ PageNext => PageTypes'
<1> SUFFICES ASSUME PageTypes, PageNext PROVE PageTypes'
  OBVIOUS
<1> USE NoRowsIsList
<1>1. CASE Enter
  BY <1>1, LoadsKeepTypes DEF Enter, Page!Enter, Page!Asked, PageTypes, vars, handler, tables, history
<1>2. CASE Leave
  <2>1. loads' = <<>> /\ <<>> \in Seq(InvoiceLoads)
    BY <1>2 DEF Leave, Page!Leave
  <2>2. strayed' \in BOOLEAN /\ ~Awaiting'
    BY <1>2 DEF Leave, Awaiting
  <2>3. UNCHANGED <<status, pc, garbled, disturbed>> /\ shown' = NoRows
    BY <1>2 DEF Leave, Page!Leave, vars, handler, tables
  <2> QED
    BY <2>1, <2>2, <2>3 DEF PageTypes
<1>3. CASE PrintAnswered \/ PrintBreaksOff
  <2>1. /\ UNCHANGED <<status, pc, here, shown, strayed>>
        /\ garbled' \in BOOLEAN /\ disturbed' \in BOOLEAN
    BY <1>3, ReloadForm DEF PrintAnswered, PrintBreaksOff, PageTypes, vars, handler, tables, history
  <2>2. loads' \in Seq(InvoiceLoads)
    BY <1>3, ReloadForm, LoadsKeepTypes DEF PrintAnswered, PrintBreaksOff, PageTypes
  <2>3. here
    BY <1>3 DEF PrintAnswered, PrintBreaksOff, PageTypes
  <2> QED
    BY <2>1, <2>2, <2>3 DEF PageTypes
<1>4. ASSUME NEW i \in Invoices, PrintRow(i) PROVE PageTypes'
  <2>1. pc' \in [Prints -> Places]
    BY <1>4, PrintRowStep DEF PageTypes
  <2> QED
    BY <1>4, <2>1, PrintRowStep DEF PageTypes, page, history
<1>5. ASSUME NEW n \in 1..MaxLoads, LoadStep(n) PROVE PageTypes'
  <2>1. UNCHANGED <<status, pc, here, strayed, disturbed>> /\ n \in DOMAIN loads
    BY <1>5, LoadStepForms DEF vars, handler, tables, history
  <2>2. garbled' \in BOOLEAN
    BY <1>5, LoadStepForms DEF PageTypes
  <2>3. loads[n].list \in InvoiceLists /\ RemoveAt(loads, n) \in Seq(InvoiceLoads)
    BY <2>1, LoadsKeepTypes, RemoveKeeps DEF PageTypes
  <2>4. [loads EXCEPT ![n] = [answered |-> TRUE, list |-> status]] \in Seq(InvoiceLoads)
    <3>1. status \in InvoiceLists
      BY DEF PageTypes, InvoiceLists
    <3> QED
      BY <2>1, <3>1, LoadsKeepTypes DEF PageTypes
  <2>5. loads' \in Seq(InvoiceLoads) /\ shown' \in InvoiceLists
    BY <1>5, <2>3, <2>4, LoadStepForms DEF PageTypes
  <2>6. here
    BY <2>1 DEF PageTypes
  <2> QED
    BY <2>1, <2>2, <2>5, <2>6 DEF PageTypes
<1>6. CASE Services
  BY <1>6, ServicesStep DEF Services, PageTypes, page, Awaiting
<1> QED
  BY <1>1, <1>2, <1>3, <1>4, <1>5, <1>6 DEF PageNext

\* A load is answered with the table as it is, which only moves on.
LEMMA PastStep == PageTypes /\ Past /\ PageNext => Past'
<1> SUFFICES ASSUME PageTypes, Past, PageNext PROVE Past'
  OBVIOUS
<1>1. \A l : NotAfter(l, l)
  BY DEF NotAfter
<1>2. \A k, l, m : NotAfter(k, l) /\ NotAfter(l, m) => NotAfter(k, m)
  BY DEF NotAfter
<1>3. loads \in Seq(InvoiceLoads) /\ DOMAIN loads = 1..Len(loads) /\ Len(loads) \in Nat
  BY DEF PageTypes
<1>4. CASE Enter \/ Leave
  <2>1. loads' = <<>> \/ loads' = <<[answered |-> FALSE, list |-> NoRows]>>
    BY <1>4 DEF Enter, Leave, Page!Enter, Page!Leave, Page!Asked
  <2>2. shown' = NoRows
    BY <1>4 DEF Enter, Leave, Page!Enter, Page!Leave
  <2>3. \A n \in DOMAIN loads' : ~loads'[n].answered
    BY <2>1
  <2> QED
    BY <2>2, <2>3, NoRowsIsList DEF Past
<1>5. CASE PrintAnswered \/ PrintBreaksOff
  <2>1. /\ loads' = Append(loads, [answered |-> FALSE, list |-> NoRows])
        /\ UNCHANGED <<shown, status>>
    BY <1>5, ReloadForm DEF PrintAnswered, PrintBreaksOff, vars, tables
  <2>2. \A n \in DOMAIN loads' : loads'[n].answered =>
           n \in DOMAIN loads /\ loads'[n] = loads[n]
    BY <1>3, <2>1
  <2> QED
    BY <2>1, <2>2 DEF Past
<1>6. ASSUME NEW i \in Invoices, PrintRow(i) PROVE Past'
  BY <1>6, PrintRowStep DEF page, Past
<1>7. ASSUME NEW n \in 1..MaxLoads, LoadStep(n) PROVE Past'
  <2>1. n \in DOMAIN loads /\ UNCHANGED status
    BY <1>7, LoadStepForms DEF vars, tables
  <2>2. CASE /\ loads' = [loads EXCEPT ![n] = [answered |-> TRUE, list |-> status]]
             /\ shown' = shown
    BY <1>1, <2>1, <2>2 DEF Past
  <2>3. CASE loads' = RemoveAt(loads, n)
    <3>1. \A m \in DOMAIN loads' : \E k \in DOMAIN loads : loads'[m] = loads[k]
      BY <1>3, <2>1, <2>3, RemoveLeaves
    <3>2. NotAfter(shown', status)
      BY <1>7, <2>1, LoadStepForms DEF Past
    <3> QED
      BY <2>1, <3>1, <3>2 DEF Past
  <2> QED
    BY <1>7, <2>2, <2>3, LoadStepForms
<1>8. CASE Services
  <2>1. UNCHANGED <<shown, loads>> /\ NotAfter(status, status')
    BY <1>8, ServicesStep DEF Services, page
  <2> QED
    BY <1>2, <2>1 DEF Past
<1> QED
  BY <1>4, <1>5, <1>6, <1>7, <1>8 DEF PageNext

\* News only grows older on its way to the page.
LEMMA InOrderStep == PageTypes /\ Past /\ InOrder /\ PageNext => InOrder'
<1> SUFFICES ASSUME PageTypes, Past, InOrder, PageNext, ~garbled' PROVE InOrder'
  BY DEF InOrder
<1>1. \A k, l, m : NotAfter(k, l) /\ NotAfter(l, m) => NotAfter(k, m)
  BY DEF NotAfter
<1>2. \A l : NotAfter(l, l)
  BY DEF NotAfter
<1>3. loads \in Seq(InvoiceLoads) /\ DOMAIN loads = 1..Len(loads) /\ Len(loads) \in Nat
  BY DEF PageTypes
<1>4. CASE Enter \/ Leave
  <2>1. loads' = <<>> \/ loads' = <<[answered |-> FALSE, list |-> NoRows]>>
    BY <1>4 DEF Enter, Leave, Page!Enter, Page!Leave, Page!Asked
  <2>2. shown' = NoRows
    BY <1>4 DEF Enter, Leave, Page!Enter, Page!Leave
  <2>3. \A n \in DOMAIN loads' : n = 1 /\ ~loads'[n].answered
    BY <2>1
  <2> QED
    BY <2>2, <2>3, NoRowsIsList DEF InOrder
<1>5. CASE PrintAnswered \/ PrintBreaksOff
  <2>1. /\ loads' = Append(loads, [answered |-> FALSE, list |-> NoRows])
        /\ garbled' = (garbled /\ loads # <<>>)
        /\ UNCHANGED <<shown, status>>
    BY <1>5, ReloadForm DEF PrintAnswered, PrintBreaksOff, vars, tables
  <2>2. \A n \in DOMAIN loads' :
          \/ n \in DOMAIN loads /\ loads'[n] = loads[n]
          \/ n = Len(loads) + 1 /\ ~loads'[n].answered
    BY <1>3, <2>1
  <2>3. \A m, n \in DOMAIN loads' : m < n /\ loads'[n].answered
          => m \in DOMAIN loads /\ loads'[m] = loads[m] /\ n \in DOMAIN loads /\ loads'[n] = loads[n]
    BY <1>3, <2>1, <2>2
  <2>4. CASE ~garbled
    BY <2>1, <2>2, <2>3, <2>4 DEF InOrder
  <2>5. CASE loads = <<>>
    <3>1. \A n \in DOMAIN loads' : ~loads'[n].answered
      BY <2>2, <2>5
    <3> QED
      BY <2>1, <3>1 DEF InOrder, Past
  <2> QED
    BY <2>1, <2>4, <2>5
<1>6. ASSUME NEW i \in Invoices, PrintRow(i) PROVE InOrder'
  BY <1>6, PrintRowStep DEF page, InOrder
<1>7. ASSUME NEW n \in 1..MaxLoads, LoadStep(n) PROVE InOrder'
  <2>1. n \in DOMAIN loads /\ UNCHANGED status
    BY <1>7, LoadStepForms DEF vars, tables
  <2>2. CASE /\ loads' = [loads EXCEPT ![n] = [answered |-> TRUE, list |-> status]]
             /\ garbled' = (garbled \/ \E m \in 1..(n - 1) : ~loads[m].answered)
             /\ shown' = shown /\ ~loads[n].answered
    <3>1. \A m \in DOMAIN loads : m < n => loads[m].answered
      <4>1. \A m \in 1..(n - 1) : loads[m].answered
        BY <2>2
      <4>2. \A m \in DOMAIN loads : m < n => m \in 1..(n - 1)
        BY <1>3, <2>1
      <4> QED
        BY <4>1, <4>2
    <3>2. \A m \in DOMAIN loads : n < m => ~loads[m].answered
      BY <2>1, <2>2 DEF InOrder
    <3>3. /\ loads'[n].answered /\ loads'[n].list = status
          /\ DOMAIN loads' = DOMAIN loads
          /\ \A m \in DOMAIN loads : m # n => loads'[m] = loads[m]
      BY <2>1, <2>2
    <3>4. \A k, m \in DOMAIN loads : k < m /\ loads'[m].answered =>
              loads'[k].answered /\ NotAfter(loads'[k].list, loads'[m].list)
      <4> SUFFICES ASSUME NEW k \in DOMAIN loads, NEW m \in DOMAIN loads, k < m, loads'[m].answered
                   PROVE  loads'[k].answered /\ NotAfter(loads'[k].list, loads'[m].list)
        OBVIOUS
      <4>1. CASE m = n
        <5>1. k # n /\ loads[k].answered
          BY <1>3, <3>1, <4>1
        <5> QED
          BY <2>2, <3>3, <4>1, <5>1 DEF InOrder
      <4>2. CASE m # n
        <5>1. loads[m].answered /\ k # n
          BY <3>2, <3>3, <4>2
        <5> QED
          BY <2>2, <3>3, <4>2, <5>1 DEF InOrder
      <4> QED
        BY <4>1, <4>2
    <3> QED
      BY <1>2, <2>1, <2>2, <3>3, <3>4 DEF InOrder
  <2>3. CASE /\ loads[n].answered /\ shown' = loads[n].list
             /\ loads' = RemoveAt(loads, n) /\ garbled' = (garbled \/ n > 1)
    <3>1. n = 1 /\ ~garbled
      <4>1. ~garbled /\ ~(n > 1)
        BY <2>3
      <4> QED
        BY <1>3, <2>1, <4>1
    <3>2. Len(loads') = Len(loads) - 1 /\ \A m \in 1..(Len(loads) - 1) : loads'[m] = loads[m + 1]
      BY <1>3, <2>1, <2>3, <3>1, RemoveFront
    <3>3. loads' \in Seq(InvoiceLoads)
      BY <1>3, <2>1, <2>3, RemoveKeeps
    <3>4. \A m \in DOMAIN loads' : m + 1 \in DOMAIN loads /\ 1 < m + 1 /\ loads'[m] = loads[m + 1]
      BY <1>3, <3>2, <3>3
    <3>5. \A k, m \in DOMAIN loads' : k < m => k + 1 < m + 1
      BY <3>3
    <3> QED
      BY <2>1, <2>3, <3>1, <3>4, <3>5 DEF InOrder
  <2> QED
    BY <1>7, <2>2, <2>3, LoadStepForms
<1>8. CASE Services
  <2>1. UNCHANGED <<shown, loads, garbled>> /\ NotAfter(status, status')
    BY <1>8, ServicesStep DEF Services, page
  <2> QED
    BY <1>1, <2>1 DEF InOrder
<1> QED
  BY <1>4, <1>5, <1>6, <1>7, <1>8 DEF PageNext

\* What is shown is replaced by what is no older.
LEMMA NeverReopenedStep ==
    ASSUME PageTypes, InOrder, PageNext, here', ~garbled', NEW i \in Invoices,
           shown[i] = "CLOSED"
    PROVE  shown'[i] = "CLOSED"
<1>1. CASE Enter
  BY <1>1 DEF Enter, Page!Enter, PageTypes, NoRows
<1>2. CASE Leave
  BY <1>2 DEF Leave, Page!Leave
<1>3. CASE PrintAnswered \/ PrintBreaksOff
  BY <1>3, ReloadForm DEF PrintAnswered, PrintBreaksOff
<1>4. ASSUME NEW j \in Invoices, PrintRow(j) PROVE shown' = shown
  BY <1>4 DEF PrintRow, page
<1>5. ASSUME NEW n \in 1..MaxLoads, LoadStep(n) PROVE shown'[i] = "CLOSED"
  <2>1. n \in DOMAIN loads
    BY <1>5, LoadStepForms
  <2>2. CASE loads[n].answered /\ shown' = loads[n].list /\ garbled' = (garbled \/ n > 1)
    BY <2>1, <2>2 DEF InOrder, NotAfter
  <2> QED
    BY <1>5, <2>2, LoadStepForms
<1>6. CASE Services
  BY <1>6 DEF Services, page
<1> QED
  BY <1>1, <1>2, <1>3, <1>4, <1>5, <1>6 DEF PageNext

\* A disturbance is not forgotten.
LEMMA CalmBefore == ASSUME PageNext, Calm' PROVE Calm
<1>1. CASE Enter \/ PrintAnswered \/ (\E i \in Invoices : PrintRow(i))
              \/ (\E n \in 1..MaxLoads : LoadStep(n))
  BY <1>1 DEF Enter, PrintAnswered, PrintRow, LoadStep, history, Calm
<1>2. CASE Leave
  BY <1>2 DEF Leave, Calm
<1>3. ~PrintBreaksOff
  BY DEF PrintBreaksOff, Calm
<1>4. CASE Services
  <2>1. strayed' = strayed /\ (disturbed => disturbed')
    BY <1>4 DEF Services
  <2> QED
    BY <2>1 DEF Calm
<1> QED
  BY <1>1, <1>2, <1>3, <1>4 DEF PageNext

\* One print at a time is begun, awaited and heard.
LEMMA AwaitsStep == PageTypes /\ AwaitsWhatRuns /\ PageNext => AwaitsWhatRuns'
<1> SUFFICES ASSUME PageTypes, AwaitsWhatRuns, PageNext, Calm', NEW p \in Prints, Running(p)'
             PROVE  printing' = p
  BY DEF AwaitsWhatRuns
<1>1. Calm /\ \A q \in Prints : Running(q) => printing = q
  BY CalmBefore DEF AwaitsWhatRuns
<1>2. CASE UNCHANGED <<pc, printing>>
  BY <1>1, <1>2 DEF Running
<1>3. CASE Leave
  <2>1. UNCHANGED pc /\ ~Awaiting /\ printing' = NoPrint
    BY <1>3 DEF Leave, Calm, vars, handler
  <2> QED
    BY <1>2, <2>1 DEF Awaiting
<1>4. CASE PrintAnswered
  <2>1. UNCHANGED pc /\ ~Running(printing)
    BY <1>4 DEF PrintAnswered, vars, handler
  <2> QED
    BY <1>1, <2>1 DEF Running
<1>5. ~PrintBreaksOff
  BY DEF PrintBreaksOff, Calm
<1>6. ASSUME NEW i \in Invoices, PrintRow(i) PROVE printing' = p
  <2>1. PICK q \in Prints : printing' = q /\ \E place \in Places : pc' = [pc EXCEPT ![q] = place]
    BY <1>6, PrintRowStep
  <2>2. \A r \in Prints : ~Running(r)
    BY <1>1, <1>6, PrintRowStep, PageAssumption DEF Awaiting
  <2>3. p # q => pc'[p] = pc[p]
    BY <2>1 DEF PageTypes
  <2> QED
    BY <2>1, <2>2, <2>3 DEF Running
<1>7. CASE Services
  BY <1>1, <1>7, ServicesStep DEF Services
<1>8. CASE Enter \/ \E n \in 1..MaxLoads : LoadStep(n)
  BY <1>2, <1>8 DEF Enter, LoadStep, vars, handler
<1> QED
  BY <1>3, <1>4, <1>5, <1>6, <1>7, <1>8 DEF PageNext

\* After every print the list is loaded again, and nothing else closes invoices.
LEMMA TruthStep ==
    PageTypes /\ AwaitsWhatRuns /\ TruthComes /\ PageNext => TruthComes'
<1> SUFFICES ASSUME PageTypes, AwaitsWhatRuns, TruthComes, PageNext,
                    Calm', ~garbled', here', ~Awaiting',
                    Newest(loads, shown)'.answered
             PROVE  Newest(loads, shown)'.list = status'
  BY DEF TruthComes
<1>1. Calm /\ loads \in Seq(InvoiceLoads)
  BY CalmBefore DEF PageTypes
<1>2. CASE Enter
  <2>1. loads' = <<[answered |-> FALSE, list |-> NoRows]>>
    BY <1>2 DEF Enter, Page!Enter, Page!Asked
  <2> QED
    BY <2>1 DEF Newest
<1>3. ~Leave
  BY DEF Leave, Page!Leave
<1>4. CASE PrintAnswered \/ PrintBreaksOff
  <2>1. loads' = Append(loads, [answered |-> FALSE, list |-> NoRows])
    BY <1>4, ReloadForm DEF PrintAnswered, PrintBreaksOff
  <2>2. [answered |-> FALSE, list |-> NoRows] \in InvoiceLoads
    BY NoRowsIsList DEF InvoiceLoads
  <2>3. Newest(loads', shown') = [answered |-> FALSE, list |-> NoRows]
    BY <1>1, <2>1, <2>2, NewestAsked
  <2> QED
    BY <2>3
<1>5. ASSUME NEW i \in Invoices PROVE ~PrintRow(i)
  BY PrintRowStep, PageAssumption DEF Awaiting
<1>6. ASSUME NEW n \in 1..MaxLoads, LoadStep(n)
      PROVE  Newest(loads', shown').list = status'
  <2>1. n \in DOMAIN loads /\ status' = status /\ here /\ ~Awaiting /\ ~garbled
    <3>1. n \in DOMAIN loads /\ UNCHANGED <<status, here, printing>>
      BY <1>6, LoadStepForms DEF vars, tables
    <3>2. ~garbled
      BY <1>6, LoadStepForms
    <3> QED
      BY <3>1, <3>2 DEF Awaiting
  <2>2. Newest(loads, shown).answered => Newest(loads, shown).list = status
    BY <1>1, <2>1 DEF TruthComes
  <2>3. CASE /\ loads' = [loads EXCEPT ![n] = [answered |-> TRUE, list |-> status]]
             /\ shown' = shown
    <3>1. \A l : Newest([loads EXCEPT ![n] = l], shown)
                    = IF n = Len(loads) THEN l ELSE Newest(loads, shown)
      BY <1>1, <2>1, NewestServed
    <3>2. \/ Newest(loads', shown') = [answered |-> TRUE, list |-> status]
          \/ Newest(loads', shown') = Newest(loads, shown)
      BY <2>3, <3>1
    <3> QED
      BY <2>1, <2>2, <3>2
  <2>4. CASE /\ loads[n].answered /\ shown' = loads[n].list
             /\ loads' = RemoveAt(loads, n) /\ garbled' = (garbled \/ n > 1)
    <3>1. n = 1
      <4>1. ~(n > 1)
        BY <2>4
      <4> QED
        BY <1>1, <2>1, <4>1
    <3>2. loads[1] \in InvoiceLoads
      BY <1>1, <2>1, <3>1
    <3>3. loads[1] = [answered |-> TRUE, list |-> loads[1].list]
      BY <2>4, <3>1, <3>2 DEF InvoiceLoads
    <3>4. Newest(loads', shown') = Newest(loads, shown)
      BY <1>1, <2>1, <2>4, <3>1, <3>3, NewestShown
    <3> QED
      BY <2>1, <2>2, <3>4
  <2> QED
    BY <1>6, <2>3, <2>4, LoadStepForms
<1>7. CASE Services
  <2>1. UNCHANGED <<here, shown, loads, garbled, printing>>
    BY <1>7 DEF Services, page
  <2>2. \A p \in Prints : ~Running(p)
    BY <1>1, <2>1, PageAssumption DEF AwaitsWhatRuns, Awaiting
  <2>3. UNCHANGED status
    BY <1>7, <2>2, ServicesStep
  <2> QED
    BY <1>1, <2>1, <2>3 DEF TruthComes, Awaiting
<1> QED
  BY <1>2, <1>3, <1>4, <1>5, <1>6, <1>7 DEF PageNext

-----------------------------------------------------------------------------
\* The products page.

\* What the steps make of the loads are loads.
LEMMA DeskLoadsKeepTypes ==
    ASSUME NEW ls \in Seq(DeskLoads)
    PROVE  /\ \A n \in DOMAIN ls : ls[n].list \subseteq TypedCodes /\ ls[n].answered \in BOOLEAN
           /\ \A l \in SUBSET TypedCodes, b \in BOOLEAN :
                /\ Append(ls, [answered |-> b, list |-> l]) \in Seq(DeskLoads)
                /\ <<[answered |-> b, list |-> l]>> \in Seq(DeskLoads)
                /\ \A n \in DOMAIN ls :
                     [ls EXCEPT ![n] = [answered |-> b, list |-> l]] \in Seq(DeskLoads)
<1>1. \A n \in DOMAIN ls : ls[n] \in DeskLoads
  OBVIOUS
<1>2. \A l \in SUBSET TypedCodes, b \in BOOLEAN : [answered |-> b, list |-> l] \in DeskLoads
  BY DEF DeskLoads
<1>3. \A l \in DeskLoads : Append(ls, l) \in Seq(DeskLoads) /\ <<l>> \in Seq(DeskLoads)
  OBVIOUS
<1>4. \A l \in DeskLoads : \A n \in DOMAIN ls : [ls EXCEPT ![n] = l] \in Seq(DeskLoads)
  OBVIOUS
<1> QED
  BY <1>1, <1>2, <1>3, <1>4 DEF DeskLoads

deskPage == <<deskHere, deskShown, deskLoads, deskGarbled>>

\* A step of the loads, as steps of sequences.
LEMMA DeskLoadForms ==
    ASSUME DeskTypes, NEW n, Desk!LoadStep(n)
    PROVE  /\ n \in DOMAIN deskLoads
           /\ UNCHANGED <<deskHere, reachable, products, dialog, code, description,
                          suggestion, save, told>>
           /\ \/ /\ deskLoads' = [deskLoads EXCEPT ![n] = [answered |-> TRUE, list |-> products]]
                 /\ deskGarbled' = (deskGarbled \/ \E m \in 1..(n - 1) : ~deskLoads[m].answered)
                 /\ deskShown' = deskShown
              \/ /\ deskLoads[n].answered
                 /\ deskShown' = deskLoads[n].list
                 /\ deskLoads' = RemoveAt(deskLoads, n)
                 /\ deskGarbled' = (deskGarbled \/ n > 1)
              \/ /\ deskLoads' = RemoveAt(deskLoads, n)
                 /\ deskGarbled' = TRUE
                 /\ deskShown' = deskShown
<1> USE DEF Desk!LoadStep, Desk!form
<1>1. CASE Desk!Page!ServeLoad(n, products)
  BY <1>1 DEF Desk!Page!ServeLoad
<1>2. CASE Desk!Page!ShowLoad(n)
  BY <1>2 DEF Desk!Page!ShowLoad, Desk!Page!RemoveAt, RemoveAt
<1>3. CASE Desk!Page!LoadFails(n)
  BY <1>3 DEF Desk!Page!LoadFails, Desk!Page!RemoveAt, RemoveAt
<1> QED
  BY <1>1, <1>2, <1>3

\* One more load of the products.
LEMMA DeskReloadForm ==
    ASSUME Desk!Page!Reload
    PROVE  /\ deskLoads' = Append(deskLoads, [answered |-> FALSE, list |-> {}])
           /\ deskGarbled' = (deskGarbled /\ deskLoads # <<>>)
           /\ UNCHANGED <<deskHere, deskShown>>
BY DEF Desk!Page!Reload, Desk!Page!Asked

\* Every step keeps the types.
LEMMA DeskTypesStep == DeskTypes /\ ToldIsSaved /\ Desk!Next => DeskTypes'
<1> SUFFICES ASSUME DeskTypes, ToldIsSaved, Desk!Next PROVE DeskTypes'
  OBVIOUS
<1> USE DEF DeskTypes
<1>1. CASE Desk!Environment \/ Desk!OpenDialog \/ Desk!TypeDescription
  BY <1>1 DEF Desk!Environment, Desk!OpenDialog, Desk!TypeDescription, Desk!page, Desk!form
<1>2. CASE Desk!Enter \/ Desk!Leave
  <2>1. /\ deskLoads' = <<>> \/ deskLoads' = <<[answered |-> FALSE, list |-> {}]>>
        /\ deskShown' = {} /\ deskGarbled' \in BOOLEAN /\ UNCHANGED <<products, save>>
    BY <1>2 DEF Desk!Enter, Desk!Leave, Desk!Page!Enter, Desk!Page!Leave, Desk!Page!Asked
  <2>2. deskLoads' \in Seq(DeskLoads)
    <3>1. <<>> \in Seq(DeskLoads) /\ {} \in SUBSET TypedCodes
      OBVIOUS
    <3> QED
      BY <2>1, <3>1, DeskLoadsKeepTypes
  <2>3. code' \in TypedCodes \cup {NoCode}
    BY <1>2 DEF Desk!Enter, Desk!Leave, Desk!form
  <2> QED
    BY <2>1, <2>2, <2>3
<1>3. CASE Desk!Cancel
  BY <1>3 DEF Desk!Cancel, Desk!CloseDialog, Desk!page
<1>4. ASSUME NEW c \in TypedCodes \cup {NoCode}, Desk!TypeCode(c) PROVE DeskTypes'
  BY <1>4 DEF Desk!TypeCode, Desk!page
<1>5. CASE Desk!Suggest \/ Desk!Save
  <2>1. save' \in SaveForms
    BY <1>5 DEF Desk!Suggest, Desk!Save, SaveForms
  <2> QED
    BY <1>5, <2>1 DEF Desk!Suggest, Desk!Save, Desk!page, Desk!form
<1>6. CASE Desk!ServeSuggestion \/ Desk!HearSuggestion
  BY <1>6 DEF Desk!ServeSuggestion, Desk!HearSuggestion, Desk!page, Desk!form
<1>7. CASE Desk!ServeSave
  BY <1>7 DEF Desk!ServeSave, Desk!page, Desk!form, ToldIsSaved, SaveForms
<1>8. CASE Desk!HearSave
  <2>1. /\ products' = products /\ save' \in SaveForms
        /\ code' \in TypedCodes \cup {NoCode}
    BY <1>8 DEF Desk!HearSave, Desk!NoSave, SaveForms, Desk!CloseDialog, Desk!form
  <2>2. \/ UNCHANGED deskPage
        \/ /\ deskLoads' = Append(deskLoads, [answered |-> FALSE, list |-> {}])
           /\ deskGarbled' = (deskGarbled /\ deskLoads # <<>>)
           /\ UNCHANGED <<deskHere, deskShown>>
    BY <1>8, DeskReloadForm DEF Desk!HearSave, Desk!page, deskPage
  <2>3. deskLoads' \in Seq(DeskLoads)
    BY <2>2, DeskLoadsKeepTypes DEF deskPage
  <2> QED
    BY <2>1, <2>2, <2>3 DEF deskPage
<1>9. ASSUME NEW n \in 1..MaxLoads, Desk!LoadStep(n) PROVE DeskTypes'
  <2>1. n \in DOMAIN deskLoads /\ UNCHANGED <<products, code, save>>
    BY <1>9, DeskLoadForms
  <2>2. deskGarbled' \in BOOLEAN
    BY <1>9, DeskLoadForms
  <2>3. deskLoads[n].list \subseteq TypedCodes /\ RemoveAt(deskLoads, n) \in Seq(DeskLoads)
    BY <2>1, DeskLoadsKeepTypes, RemoveKeeps
  <2>4. [deskLoads EXCEPT ![n] = [answered |-> TRUE, list |-> products]] \in Seq(DeskLoads)
    BY <2>1, DeskLoadsKeepTypes
  <2>5. deskLoads' \in Seq(DeskLoads) /\ deskShown' \subseteq TypedCodes
    BY <1>9, <2>3, <2>4, DeskLoadForms
  <2> QED
    BY <2>1, <2>2, <2>5
<1> QED
  BY <1>1, <1>2, <1>3, <1>4, <1>5, <1>6, <1>7, <1>8, <1>9
     DEF Desk!Next, Desk!Answered, Desk!Loading

\* What is told as saved has been answered by Estoque with its row committed.
LEMMA SavedStep ==
    DeskTypes /\ ToldIsSaved /\ Desk!Next => ToldIsSaved' /\ products \subseteq products'
<1> SUFFICES ASSUME DeskTypes, ToldIsSaved, Desk!Next
             PROVE  ToldIsSaved' /\ products \subseteq products'
  OBVIOUS
<1> USE DEF ToldIsSaved
<1>1. CASE Desk!Enter \/ Desk!Leave
  BY <1>1 DEF Desk!Enter, Desk!Leave
<1>2. CASE Desk!Save
  BY <1>2 DEF Desk!Save, DeskTypes
<1>3. CASE Desk!ServeSave
  BY <1>3 DEF Desk!ServeSave, DeskTypes, SaveForms
<1>4. CASE Desk!HearSave
  BY <1>4 DEF Desk!HearSave, Desk!NoSave
<1>5. CASE UNCHANGED <<products, save, told>>
  BY <1>5
<1>6. CASE Desk!Environment \/ Desk!OpenDialog \/ Desk!Cancel \/ Desk!TypeDescription \/ Desk!Suggest
  BY <1>5, <1>6 DEF Desk!Environment, Desk!OpenDialog, Desk!Cancel, Desk!TypeDescription,
                    Desk!Suggest
<1>7. CASE Desk!ServeSuggestion \/ Desk!HearSuggestion
  BY <1>5, <1>7 DEF Desk!ServeSuggestion, Desk!HearSuggestion
<1>8. ASSUME NEW c \in TypedCodes \cup {NoCode}, Desk!TypeCode(c)
      PROVE  UNCHANGED <<products, save, told>>
  BY <1>8 DEF Desk!TypeCode
<1>9. ASSUME NEW n \in 1..MaxLoads, Desk!LoadStep(n) PROVE UNCHANGED <<products, save, told>>
  BY <1>9 DEF Desk!LoadStep
<1> QED
  BY <1>1, <1>2, <1>3, <1>4, <1>5, <1>6, <1>7, <1>8, <1>9
     DEF Desk!Next, Desk!Answered, Desk!Loading

\* After every save that is told the list is loaded again.
LEMMA SavedComesStep ==
    DeskTypes /\ ToldIsSaved /\ SavedComes /\ Desk!Next => SavedComes'
<1> SUFFICES ASSUME DeskTypes, ToldIsSaved, SavedComes, Desk!Next,
                    deskHere', ~deskGarbled', Newest(deskLoads, deskShown)'.answered
             PROVE  told' \subseteq Newest(deskLoads, deskShown)'.list
  BY DEF SavedComes
<1>1. deskLoads \in Seq(DeskLoads)
  BY DEF DeskTypes
<1>2. CASE UNCHANGED <<deskPage, told>>
  BY <1>2 DEF SavedComes, deskPage
<1>3. CASE Desk!Enter \/ Desk!Leave
  BY <1>3 DEF Desk!Enter, Desk!Leave
<1>4. CASE Desk!HearSave
  <2>1. CASE UNCHANGED <<deskPage, told>>
    BY <1>2, <2>1
  <2>2. CASE Desk!Page!Reload
    <3>1. [answered |-> FALSE, list |-> {}] \in DeskLoads
      BY DEF DeskLoads
    <3>2. deskLoads' = Append(deskLoads, [answered |-> FALSE, list |-> {}])
      BY <2>2, DeskReloadForm
    <3>3. Newest(deskLoads', deskShown') = [answered |-> FALSE, list |-> {}]
      BY <1>1, <3>1, <3>2, NewestAsked
    <3> QED
      BY <3>3
  <2> QED
    BY <1>4, <2>1, <2>2 DEF Desk!HearSave, Desk!page, deskPage
<1>5. ASSUME NEW n \in 1..MaxLoads, Desk!LoadStep(n)
      PROVE  told' \subseteq Newest(deskLoads', deskShown').list
  <2>1. n \in DOMAIN deskLoads /\ UNCHANGED <<deskHere, told>> /\ ~deskGarbled
    <3>1. n \in DOMAIN deskLoads /\ UNCHANGED <<deskHere, told>>
      BY <1>5, DeskLoadForms
    <3>2. ~deskGarbled
      BY <1>5, DeskLoadForms
    <3> QED
      BY <3>1, <3>2
  <2>2. Newest(deskLoads, deskShown).answered => told \subseteq Newest(deskLoads, deskShown).list
    BY <2>1 DEF SavedComes
  <2>3. CASE /\ deskLoads' = [deskLoads EXCEPT ![n] = [answered |-> TRUE, list |-> products]]
             /\ deskShown' = deskShown
    <3>1. \A l : Newest([deskLoads EXCEPT ![n] = l], deskShown)
                    = IF n = Len(deskLoads) THEN l ELSE Newest(deskLoads, deskShown)
      BY <1>1, <2>1, NewestServed
    <3>2. \/ Newest(deskLoads', deskShown') = [answered |-> TRUE, list |-> products]
          \/ Newest(deskLoads', deskShown') = Newest(deskLoads, deskShown)
      BY <2>3, <3>1
    <3>3. told' \subseteq products
      BY <2>1 DEF ToldIsSaved
    <3> QED
      BY <2>1, <2>2, <3>2, <3>3
  <2>4. CASE /\ deskLoads[n].answered /\ deskShown' = deskLoads[n].list
             /\ deskLoads' = RemoveAt(deskLoads, n) /\ deskGarbled' = (deskGarbled \/ n > 1)
    <3>1. n = 1
      <4>1. ~(n > 1)
        BY <2>4
      <4> QED
        BY <1>1, <2>1, <4>1
    <3>2. deskLoads[1] \in DeskLoads
      BY <1>1, <2>1, <3>1
    <3>3. deskLoads[1] = [answered |-> TRUE, list |-> deskLoads[1].list]
      BY <2>4, <3>1, <3>2 DEF DeskLoads
    <3>4. Newest(deskLoads', deskShown') = Newest(deskLoads, deskShown)
      BY <1>1, <2>1, <2>4, <3>1, <3>3, NewestShown
    <3> QED
      BY <2>1, <2>2, <3>4
  <2> QED
    BY <1>5, <2>3, <2>4, DeskLoadForms
<1>6. CASE Desk!Environment \/ Desk!OpenDialog \/ Desk!Cancel \/ Desk!TypeDescription \/ Desk!Suggest
  BY <1>2, <1>6 DEF Desk!Environment, Desk!OpenDialog, Desk!Cancel, Desk!TypeDescription,
                    Desk!Suggest, Desk!page, deskPage
<1>7. CASE Desk!ServeSuggestion \/ Desk!HearSuggestion \/ Desk!Save \/ Desk!ServeSave
  BY <1>2, <1>7 DEF Desk!ServeSuggestion, Desk!HearSuggestion, Desk!Save, Desk!ServeSave,
                    Desk!page, deskPage
<1>8. ASSUME NEW c \in TypedCodes \cup {NoCode}, Desk!TypeCode(c)
      PROVE  UNCHANGED <<deskPage, told>>
  BY <1>8 DEF Desk!TypeCode, Desk!page, deskPage
<1> QED
  BY <1>2, <1>3, <1>4, <1>5, <1>6, <1>7, <1>8
     DEF Desk!Next, Desk!Answered, Desk!Loading

-----------------------------------------------------------------------------
\* Both pages are closed at first.
LEMMA InitInv == WebInit => WebInv
<1> SUFFICES ASSUME WebInit PROVE WebInv
  OBVIOUS
<1>1. /\ status = [i \in Invoices |-> "OPEN"] /\ pc = [p \in Prints |-> "idle"]
      /\ here = FALSE /\ shown = NoRows /\ loads = <<>> /\ garbled = FALSE
      /\ printing = NoPrint /\ strayed = FALSE /\ disturbed = FALSE
  BY DEF WebInit, PageInit, Init, Page!Init
<1>2. PageTypes
  <2>1. <<>> \in Seq(InvoiceLoads)
    OBVIOUS
  <2>2. status \in [Invoices -> {"OPEN", "CLOSED"}] /\ pc \in [Prints -> Places]
    BY <1>1 DEF Places
  <2> QED
    BY <1>1, <2>1, <2>2, NoRowsIsList DEF PageTypes, Awaiting
<1>3. Past /\ InOrder
  BY <1>1, NoRowsIsList DEF Past, InOrder
<1>4. AwaitsWhatRuns /\ TruthComes
  BY <1>1 DEF AwaitsWhatRuns, Running, TruthComes
<1>5. /\ products = {} /\ deskHere = FALSE /\ deskShown = {} /\ deskLoads = <<>>
      /\ deskGarbled = FALSE /\ code = NoCode /\ save = Desk!NoSave /\ told = {}
  BY DEF WebInit, Desk!Init, Desk!Page!Init
<1>6. DeskTypes
  <2>1. save \in SaveForms
    BY <1>5 DEF Desk!NoSave, SaveForms
  <2>2. <<>> \in Seq(DeskLoads)
    OBVIOUS
  <2> QED
    BY <1>5, <2>1, <2>2 DEF DeskTypes
<1>7. ToldIsSaved /\ SavedComes
  BY <1>5 DEF ToldIsSaved, SavedComes, Desk!NoSave
<1> QED
  BY <1>2, <1>3, <1>4, <1>6, <1>7 DEF WebInv, PageInv, DeskInv

\* The page that a behaviour does not exercise is at rest.
LEMMA InvStep == WebInv /\ [WebNext]_webVars => WebInv'
<1> SUFFICES ASSUME WebInv, [WebNext]_webVars PROVE WebInv'
  OBVIOUS
<1>1. UNCHANGED allVars => PageInv'
  <2> SUFFICES ASSUME UNCHANGED allVars PROVE PageInv'
    OBVIOUS
  <2>1. UNCHANGED <<status, pc, shown, loads, garbled, here, printing, strayed, disturbed>>
    BY DEF allVars, vars, handler, tables, page, history
  <2>2. PageTypes' /\ Past' /\ InOrder'
    BY <2>1 DEF WebInv, PageInv, PageTypes, Past, InOrder, Awaiting
  <2>3. AwaitsWhatRuns' /\ TruthComes'
    BY <2>1 DEF WebInv, PageInv, AwaitsWhatRuns, TruthComes, Calm, Running, Awaiting
  <2> QED
    BY <2>2, <2>3 DEF PageInv
<1>2. UNCHANGED desk => DeskInv'
  BY DEF desk, WebInv, DeskInv, DeskTypes, ToldIsSaved, SavedComes
<1>3. PageNext => PageInv'
  BY PageTypesStep, PastStep, InOrderStep, AwaitsStep, TruthStep DEF WebInv, PageInv
<1>4. Desk!Next => DeskInv'
  BY DeskTypesStep, SavedStep, SavedComesStep DEF WebInv, DeskInv
<1> QED
  BY <1>1, <1>2, <1>3, <1>4 DEF WebInv, WebNext, OnInvoices, OnProducts, webVars

\* The invariant of both pages holds for any constants.
THEOREM Invariance == WebSpec => []WebInv
<1> QED
  BY InitInv, InvStep, PTL DEF WebSpec

\* For any number of loads, prints and invoices: a page at rest that was not
\* disturbed shows the table, after a failed or overtaken load from the next one
\* that is in flight alone.
THEOREM RestShowsTable == WebSpec => []RestingPageIsTrue
<1>1. WebInv => RestingPageIsTrue
  BY DEF WebInv, PageInv, TruthComes, Newest, RestingPageIsTrue
<1> QED
  BY <1>1, Invariance, PTL

\* For any number of loads: a row shown as closed is shown open again only when
\* an older answer came after a newer one.
THEOREM RowsStayClosed == WebSpec => NeverReopened
<1>1. WebInv /\ [WebNext]_webVars =>
        [\A i \in Invoices : shown[i] = "CLOSED" /\ here' /\ ~garbled'
            => shown'[i] = "CLOSED"]_allVars
  BY NeverReopenedStep DEF WebInv, PageInv, WebNext, OnInvoices, OnProducts, webVars
<1> QED
  BY <1>1, Invariance, PTL DEF WebSpec, NeverReopened

\* For any codes and loads: what the page told as saved is in the table, and in
\* the list once that is at rest, on the same terms.
THEOREM SavedGetsListed == WebSpec => []SavedIsListed
<1>1. WebInv => SavedIsListed
  BY DEF WebInv, DeskInv, ToldIsSaved, SavedComes, Newest, SavedIsListed, Desk!SavedIsListed
<1> QED
  BY <1>1, Invariance, PTL
-----------------------------------------------------------------------------
\* The prints of a page that is not disturbed.

\* The page and its services do only what callers, Faturamento and Estoque do in
\* PrintFlow, and the page cuts no request short.
LEMMA PageIsSteady == ASSUME PageNext PROVE [Steady]_vars
<1>1. CASE Enter \/ Leave \/ PrintAnswered \/ PrintBreaksOff
            \/ \E n \in 1..MaxLoads : LoadStep(n)
  BY <1>1 DEF Enter, Leave, PrintAnswered, PrintBreaksOff, LoadStep
<1>2. ASSUME NEW i \in Invoices, PrintRow(i) PROVE Steady
  <2>1. PICK p \in Prints, k \in FreshKeys : Start(p, [inv |-> i, key |-> k])
    BY <1>2 DEF PrintRow
  <2>2. [inv |-> i, key |-> k] \in Requests
    BY CallersAssumption DEF FreshKeys
  <2> QED
    BY <2>1, <2>2 DEF Steady
<1>3. CASE Services
  BY <1>3 DEF Services, Steady
<1> QED
  BY <1>1, <1>2, <1>3 DEF PageNext

\* What is done to an invoice through the two pages is a behaviour of PrintFlow:
\* all that is proved of it, with every fault, holds behind the pages.
THEOREM PagesPrint == WebSpec => Spec
<1>1. WebInit => Init
  BY DEF WebInit, PageInit
<1>2. [WebNext]_webVars => [Next]_vars
  BY PageIsSteady DEF WebNext, OnInvoices, OnProducts, webVars, allVars, Steady, Next
<1> QED
  BY <1>1, <1>2, PTL DEF WebSpec, Spec

\* While the page stays calm, no request of a print ends without its answer.
LEMMA CalmHears == ASSUME Books, PageNext, Calm' PROVE Heard
<1> SUFFICES ASSUME NEW p \in Prints, HearNothing(p) PROVE HearAnswer(p)
  BY DEF Heard
<1>1. phase[p] = "sending" /\ phase'[p] # "sending"
  BY DEF HearNothing, Client!BackOff, Client!GiveUp, Client!Return, Books, IInv, TypeOK,
         Client!TypeOK
<1>2. Services
  <2>1. phase' # phase
    BY <1>1
  <2> QED
    BY <2>1 DEF PageNext, Enter, Leave, PrintAnswered, PrintBreaksOff, LoadStep, PrintRow, Start,
                vars, client
<1> QED
  BY <1>1, <1>2 DEF Services, Unheard, Calm

CalmInv == Calm => OneRequest /\ PaysOpen

\* The page awaits the only print there is.
LEMMA OneRunner == ASSUME AwaitsWhatRuns, Calm PROVE OneRuns
BY DEF AwaitsWhatRuns, OneRuns

PrintsInv == PageInv /\ Books /\ NoErrors /\ CalmInv

\* No print, no request, no payment at first.
LEMMA PrintsInvInit == WebInit => PrintsInv
BY InitInv, InitBooks, QuietInit DEF WebInit, PageInit, WebInv, PrintsInv, CalmInv

\* Every step of the two pages and the services keeps it.
LEMMA PrintsInvStep == ASSUME Healthy, PrintsInv, WebInv, [WebNext]_webVars PROVE PrintsInv'
<1>1. PageInv'
  BY InvStep DEF WebInv
<1>2. CASE PageNext
  <2>1. Books' /\ NoErrors' /\ [Steady]_vars
    BY <1>2, PageIsSteady, NextBooks, NoErrorsStep DEF PrintsInv, Steady, Next
  <2>2. ASSUME Calm' PROVE OneRequest' /\ PaysOpen'
    <3>1. Calm /\ OneRequest /\ PaysOpen /\ OneRuns
      BY <1>2, <2>2, CalmBefore, OneRunner DEF PrintsInv, CalmInv, PageInv
    <3> QED
      BY <1>2, <2>1, <2>2, <3>1, CalmHears, OneRequestStep, PaysOpenStep DEF PrintsInv, OneRuns
  <2> QED
    BY <1>1, <2>1, <2>2 DEF PrintsInv, CalmInv
<1>3. CASE UNCHANGED allVars
  <2>1. Books'
    BY <1>3, NextBooks DEF allVars, PrintsInv
  <2>2. UNCHANGED <<ctxDone, verdict, strayed, disturbed, phase, attempt, result, pc, sent,
                    status, req, applied>>
    BY <1>3 DEF allVars, vars, history, handler, tables, client, estoque
  <2>3. NoErrors' /\ CalmInv'
    BY <2>2 DEF PrintsInv, NoErrors, CalmInv, Calm, OneRequest, Outcome, PaysOpen, Paying
  <2> QED
    BY <1>1, <2>1, <2>3 DEF PrintsInv
<1> QED
  BY <1>2, <1>3 DEF WebNext, OnInvoices, OnProducts, webVars

\* PAID: while Estoque answers no 5xx and no statement fails, a page that is not
\* left while it prints, and whose messages all arrive, pays an invoice at most
\* once, for any prints, loads, invoices and stock, however old its list is.
THEOREM PaidOnceHere == ASSUME Healthy PROVE WebSpec => []PaidOnceOnPage
<1>1. PrintsInv => PaidOnceOnPage
  BY PaidOncePays DEF PrintsInv, CalmInv, PaidOnceOnPage
<1>2. WebInv /\ PrintsInv /\ [WebNext]_webVars => PrintsInv'
  BY PrintsInvStep
<1> QED
  BY <1>1, <1>2, PrintsInvInit, Invariance, PTL DEF WebSpec

\* REFUSED: in those conditions a print that is refused, or meets an open breaker,
\* leaves its invoice open and unpaid.
THEOREM RefusedHere == ASSUME Healthy PROVE WebSpec => RefusalLeavesOpenOnPage
<1>1. WebInv /\ PrintsInv /\ [WebNext]_webVars => PrintsInv'
  BY PrintsInvStep
<1>2. PrintsInv /\ [WebNext]_webVars => [Calm' => RefusalKeepsOpen]_allVars
  <2> SUFFICES ASSUME PrintsInv, PageNext, Calm' PROVE RefusalKeepsOpen
    BY DEF WebNext, OnInvoices, OnProducts, webVars
  <2>1. Calm /\ OneRequest /\ PaysOpen /\ OneRuns
    BY CalmBefore, OneRunner DEF PrintsInv, CalmInv, PageInv
  <2> QED
    BY <2>1, PageIsSteady, RefusalPays DEF PrintsInv, OneRuns
<1> QED
  BY <1>1, <1>2, PrintsInvInit, Invariance, PTL DEF WebSpec, RefusalLeavesOpenOnPage
=============================================================================
