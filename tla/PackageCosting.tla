---------------------------- MODULE PackageCosting ----------------------------
(***************************************************************************)
(* The costing of packages, PackagesService over PricingEngineService, and *)
(* the generation of quotations, QuotationsService.generateFromPackage.    *)
(*                                                                         *)
(* Every handler that touches an item ends by recomputing the package's    *)
(* totals: it reads all the items in one query and writes the sums in a    *)
(* later one.  Generating a quotation reads the package, its items, the    *)
(* number of quotations it has, inserts, and marks the package, each in a  *)
(* query of its own.  No write has a condition on what was read.           *)
(***************************************************************************)
EXTENDS PricingEngine, FiniteSets

CONSTANTS
  Packages, Items, Quotations,  \* ids of documents, created on demand
  NewItems,        \* the inputs staff price new items with; a vendor rate is one way
                   \* to come by a unit cost
  Changes,         \* partial inputs staff send for an item: some fields, new values
  ManualStatuses,  \* package statuses staff write with PATCH /packages/:id in this run
  MayCrash,        \* whether the server may die under a request in this run
  Requests,        \* handler invocations that can be in flight together
  None

PackageStatus == {"DRAFT", "COSTED", "QUOTED", "ARCHIVED"}
Absent == "ABSENT"  \* the status of a document not created yet

ItemPrices == [unitSellPrice : Nat, totalCost : Nat, totalSellPrice : Nat, profit : Int]

Inputs == [unitCost : Nat, quantity : Nat \ {0}, markupType : MarkupType, markupValue : Nat]

\* What a change makes of the inputs of an item.
Merged(inputs, change) ==
  [f \in DOMAIN inputs |-> IF f \in DOMAIN change THEN change[f] ELSE inputs[f]]

ASSUME ConstantsOK ==
  /\ NewItems \subseteq Inputs
  /\ \A c \in Changes, n \in NewItems : Merged(n, c) \in Inputs
  /\ ManualStatuses \subseteq PackageStatus
  /\ MayCrash \in BOOLEAN
  /\ IsFiniteSet(Items) /\ IsFiniteSet(Quotations)
  /\ None \notin Packages /\ None \notin Changes /\ None \notin ItemPrices

VARIABLES
  package,    \* [Packages -> [status, removed, totals]]
  item,       \* [Items -> [status, package, inputs, prices]]
  quotation,  \* [Quotations -> [package, version, lines, totals, customerPrice]]
  req         \* [Requests -> what request r carries]

vars == <<package, item, quotation, req>>

Points == {"idle", "updatePackage", "removePackage", "addItem", "findItem", "updateItem",
           "removeItem", "readItems", "writeTotals", "setCosted",
           "findPackage", "listItems", "countQuotations", "insertQuotation", "setQuoted"}

Idle == [pc |-> "idle", package |-> None, item |-> None, status |-> None, change |-> None,
         inputs |-> None, totals |-> None, lines |-> None, version |-> 0]

NoTotals == [totalCost |-> 0, totalMarkup |-> 0, totalSellPrice |-> 0, expectedProfit |-> 0]

Init ==
  /\ package = [p \in Packages |-> [status |-> Absent, removed |-> FALSE, totals |-> NoTotals]]
  /\ item = [i \in Items |-> [status |-> Absent, package |-> None, inputs |-> None, prices |-> None]]
  /\ quotation = [q \in Quotations |->
       [package |-> None, version |-> 0, lines |-> None, totals |-> None, customerPrice |-> 0]]
  /\ req = [r \in Requests |-> Idle]

-----------------------------------------------------------------------------

At(r, point) == req[r].pc = point

Begin(r, carried) ==
  /\ At(r, "idle")
  /\ req' = [req EXCEPT ![r] = carried]

Goto(r, point) == req' = [req EXCEPT ![r].pc = point]

\* The request goes on with nothing but its package.
Continue(r, point) ==
  req' = [req EXCEPT ![r] = [Idle EXCEPT !.pc = point, !.package = req[r].package]]

Return(r) == req' = [req EXCEPT ![r] = Idle]

\* findByIdScoped: soft-deleted packages are not found.
Visible(p) == package[p].status # Absent /\ ~package[p].removed

\* findByPackage.
ItemsOf(p) == {i \in Items : item[i].package = p /\ item[i].status = "LISTED"}

\* The lines of a snapshot: the prices of the items it holds, None for the others.
Prices(p) == [i \in Items |-> IF i \in ItemsOf(p) THEN item[i].prices ELSE None]

LinesOf(lines) == {i \in Items : lines[i] # None}

TotalsOf(lines) == CalculatePackage(LinesOf(lines), lines)

QuotationsOf(p) == {q \in Quotations : quotation[q].package = p}

-----------------------------------------------------------------------------
(* Packages *)

CreatePackage(p) ==
  /\ package[p].status = Absent
  /\ package' = [package EXCEPT ![p].status = "DRAFT"]
  /\ UNCHANGED <<item, quotation, req>>

\* update: read, then write what the body holds (None: no status in it).
UpdatePackageRead(r, p, s) ==
  /\ Visible(p)
  /\ Begin(r, [Idle EXCEPT !.pc = "updatePackage", !.package = p, !.status = s])
  /\ UNCHANGED <<package, item, quotation>>

UpdatePackageWrite(r) ==
  LET s == req[r].status IN
  /\ At(r, "updatePackage")
  /\ package' = [package EXCEPT ![req[r].package].status = IF s = None THEN @ ELSE s]
  /\ Return(r)
  /\ UNCHANGED <<item, quotation>>

RemovePackageRead(r, p) ==
  /\ Visible(p)
  /\ Begin(r, [Idle EXCEPT !.pc = "removePackage", !.package = p])
  /\ UNCHANGED <<package, item, quotation>>

RemovePackageWrite(r) ==
  /\ At(r, "removePackage")
  /\ package' = [package EXCEPT ![req[r].package].removed = TRUE]
  /\ Return(r)
  /\ UNCHANGED <<item, quotation>>

\* recalculate: nothing before the refresh but the look-up.
Recalculate(r, p) ==
  /\ Visible(p)
  /\ Begin(r, [Idle EXCEPT !.pc = "readItems", !.package = p])
  /\ UNCHANGED <<package, item, quotation>>

-----------------------------------------------------------------------------
(* Items *)

\* assertMutablePackage, on a read that the writes below do not repeat.
Mutable(p) == Visible(p) /\ package[p].status # "ARCHIVED"

AddItemRead(r, p) ==
  /\ Mutable(p)
  /\ \E n \in NewItems : Begin(r, [Idle EXCEPT !.pc = "addItem", !.package = p, !.inputs = n])
  /\ UNCHANGED <<package, item, quotation>>

AddItemWrite(r) ==
  /\ At(r, "addItem")
  /\ \E i \in Items :
       /\ item[i].status = Absent
       /\ item' = [item EXCEPT ![i] = [status |-> "LISTED", package |-> req[r].package,
                                       inputs |-> req[r].inputs,
                                       prices |-> CalculateItem(req[r].inputs)]]
  /\ Continue(r, "readItems")
  /\ UNCHANGED <<package, quotation>>

\* updateItem and removeItem (no change) look up the package, then the item.
ChangeItemRead(r, i, change) ==
  /\ item[i].status # Absent
  /\ Mutable(item[i].package)
  /\ Begin(r, [Idle EXCEPT !.pc = "findItem", !.package = item[i].package, !.item = i,
                           !.change = change])
  /\ UNCHANGED <<package, item, quotation>>

\* Mutant: what a change leaves out is lost.
FindItemReplaces(r) ==
  LET i == req[r].item
      change == req[r].change
  IN
  /\ At(r, "findItem")
  /\ CASE item[i].status # "LISTED" -> Return(r)
       [] item[i].status = "LISTED" /\ change = None -> Goto(r, "removeItem")
       [] OTHER -> req' = [req EXCEPT ![r].pc = "updateItem", ![r].inputs = change]
  /\ UNCHANGED <<package, item, quotation>>

\* findItemOrThrow: what a change leaves out is taken from the item as it is here.
FindItem(r) ==
  LET i == req[r].item
      change == req[r].change
  IN
  /\ At(r, "findItem")
  /\ CASE item[i].status # "LISTED" -> Return(r)
       [] item[i].status = "LISTED" /\ change = None -> Goto(r, "removeItem")
       [] OTHER -> req' = [req EXCEPT ![r].pc = "updateItem",
                                      ![r].inputs = Merged(item[i].inputs, change)]
  /\ UNCHANGED <<package, item, quotation>>

\* Mutant: the update writes the fields of the body, not the inputs it priced.
UpdateItemWriteFields(r) ==
  /\ At(r, "updateItem")
  /\ item' = [item EXCEPT ![req[r].item].inputs = Merged(@, req[r].change),
                          ![req[r].item].prices = CalculateItem(req[r].inputs)]
  /\ Continue(r, "readItems")
  /\ UNCHANGED <<package, quotation>>

\* The inputs and the prices derived from them, over whatever the item has become.
UpdateItemWrite(r) ==
  /\ At(r, "updateItem")
  /\ item' = [item EXCEPT ![req[r].item].inputs = req[r].inputs,
                          ![req[r].item].prices = CalculateItem(req[r].inputs)]
  /\ Continue(r, "readItems")
  /\ UNCHANGED <<package, quotation>>

RemoveItemWrite(r) ==
  /\ At(r, "removeItem")
  /\ item' = [item EXCEPT ![req[r].item].status = "REMOVED"]
  /\ Continue(r, "readItems")
  /\ UNCHANGED <<package, quotation>>

-----------------------------------------------------------------------------
(* refreshPackage *)

ReadItems(r) ==
  /\ At(r, "readItems")
  /\ req' = [req EXCEPT ![r].pc = "writeTotals",
                        ![r].totals = TotalsOf(Prices(req[r].package))]
  /\ UNCHANGED <<package, item, quotation>>

\* Mutant: any draft that is recalculated advances, with or without cost.
WriteTotalsAdvancesFree(r) ==
  LET p == req[r].package IN
  /\ At(r, "writeTotals")
  /\ package' = [package EXCEPT ![p].totals = req[r].totals]
  /\ IF package[p].status = "DRAFT" THEN Continue(r, "setCosted") ELSE Return(r)
  /\ UNCHANGED <<item, quotation>>

\* The write returns the package: a draft that costs something is to be advanced.
WriteTotals(r) ==
  LET p == req[r].package IN
  /\ At(r, "writeTotals")
  /\ package' = [package EXCEPT ![p].totals = req[r].totals]
  /\ IF package[p].status = "DRAFT" /\ req[r].totals.totalCost > 0
       THEN Continue(r, "setCosted")
       ELSE Return(r)
  /\ UNCHANGED <<item, quotation>>

\* The advance, whatever the status is by now.
SetCosted(r) ==
  /\ At(r, "setCosted")
  /\ package' = [package EXCEPT ![req[r].package].status = "COSTED"]
  /\ Return(r)
  /\ UNCHANGED <<item, quotation>>

-----------------------------------------------------------------------------
(* generateFromPackage *)

GenerateRead(r, p) ==
  /\ Visible(p)
  /\ Begin(r, [Idle EXCEPT !.pc = "findPackage", !.package = p])
  /\ UNCHANGED <<package, item, quotation>>

\* listItems looks the package up again.
FindPackage(r) ==
  /\ At(r, "findPackage")
  /\ IF Visible(req[r].package) THEN Goto(r, "listItems") ELSE Return(r)
  /\ UNCHANGED <<package, item, quotation>>

\* Mutant: the snapshot takes over the package's stored totals.
ListItemsStoredTotals(r) ==
  LET p == req[r].package IN
  /\ At(r, "listItems")
  /\ IF ItemsOf(p) = {}
       THEN Return(r)
       ELSE req' = [req EXCEPT ![r].pc = "countQuotations", ![r].lines = Prices(p),
                               ![r].totals = package[p].totals]
  /\ UNCHANGED <<package, item, quotation>>

\* The items as they are here are what buildSnapshot freezes; it adds the vendors' names
\* and rates, which decide nothing.
ListItems(r) ==
  LET p == req[r].package IN
  /\ At(r, "listItems")
  /\ IF ItemsOf(p) = {}
       THEN Return(r)
       ELSE req' = [req EXCEPT ![r].pc = "countQuotations", ![r].lines = Prices(p),
                               ![r].totals = TotalsOf(Prices(p))]
  /\ UNCHANGED <<package, item, quotation>>

\* Mutant: the version is the number of earlier quotations.
CountQuotationsFromZero(r) ==
  /\ At(r, "countQuotations")
  /\ req' = [req EXCEPT ![r].pc = "insertQuotation",
                        ![r].version = Cardinality(QuotationsOf(req[r].package))]
  /\ UNCHANGED <<package, item, quotation>>

CountQuotations(r) ==
  /\ At(r, "countQuotations")
  /\ req' = [req EXCEPT ![r].pc = "insertQuotation",
                        ![r].version = Cardinality(QuotationsOf(req[r].package)) + 1]
  /\ UNCHANGED <<package, item, quotation>>

\* The insert, tried again under another number while the number is taken.
InsertQuotation(r) ==
  /\ At(r, "insertQuotation")
  /\ \E q \in Quotations :
       /\ quotation[q].package = None
       /\ quotation' = [quotation EXCEPT ![q] =
            [package |-> req[r].package, version |-> req[r].version, lines |-> req[r].lines,
             totals |-> req[r].totals, customerPrice |-> req[r].totals.totalSellPrice]]
  /\ Continue(r, "setQuoted")
  /\ UNCHANGED <<package, item>>

SetQuoted(r) ==
  /\ At(r, "setQuoted")
  /\ package' = [package EXCEPT ![req[r].package].status = "QUOTED"]
  /\ Return(r)
  /\ UNCHANGED <<item, quotation>>

-----------------------------------------------------------------------------
(* The server process dies under a request; what it wrote stays. *)

Crash(r) ==
  /\ MayCrash
  /\ ~At(r, "idle")
  /\ Return(r)
  /\ UNCHANGED <<package, item, quotation>>

-----------------------------------------------------------------------------

Arrive(r) ==
  \/ \E p \in Packages :
       \/ \E s \in ManualStatuses \cup {None} : UpdatePackageRead(r, p, s)
       \/ RemovePackageRead(r, p) \/ Recalculate(r, p)
       \/ AddItemRead(r, p) \/ GenerateRead(r, p)
  \/ \E i \in Items : \E change \in Changes \cup {None} : ChangeItemRead(r, i, change)

Proceed(r) ==
  \/ UpdatePackageWrite(r) \/ RemovePackageWrite(r)
  \/ AddItemWrite(r) \/ FindItem(r) \/ UpdateItemWrite(r) \/ RemoveItemWrite(r)
  \/ ReadItems(r) \/ WriteTotals(r) \/ SetCosted(r)
  \/ FindPackage(r) \/ ListItems(r) \/ CountQuotations(r) \/ InsertQuotation(r) \/ SetQuoted(r)

Next ==
  \/ \E p \in Packages : CreatePackage(p)
  \/ \E r \in Requests : Arrive(r) \/ Proceed(r) \/ Crash(r)

Spec == Init /\ [][Next]_vars

-----------------------------------------------------------------------------
(* Properties *)

Totals == [totalCost : Nat, totalMarkup : Int, totalSellPrice : Nat, expectedProfit : Int]
Lines == [Items -> ItemPrices \cup {None}]

PackageDoc == [status : PackageStatus \cup {Absent}, removed : BOOLEAN, totals : Totals]
ItemDoc == [status : {Absent, "LISTED", "REMOVED"}, package : Packages \cup {None},
            inputs : Inputs \cup {None}, prices : ItemPrices \cup {None}]
QuotationDoc == [package : Packages \cup {None}, version : Nat, lines : Lines \cup {None},
                 totals : Totals \cup {None}, customerPrice : Nat]
Request == [pc : Points, package : Packages \cup {None}, item : Items \cup {None},
            status : PackageStatus \cup {None}, change : Changes \cup {None},
            inputs : Inputs \cup {None}, totals : Totals \cup {None},
            lines : Lines \cup {None}, version : Nat]

\* Every document and every request in flight holds values of its schema.
TypeOK ==
  /\ package \in [Packages -> PackageDoc]
  /\ item \in [Items -> ItemDoc]
  /\ quotation \in [Quotations -> QuotationDoc]
  /\ req \in [Requests -> Request]

\* A quotation's frozen totals and customer price are those of its own frozen lines, and
\* it has lines, whatever was edited while it was generated (buildSnapshot: "Totals are
\* recomputed from the (frozen) items so the snapshot is internally consistent").
SnapshotConsistent ==
  \A q \in Quotations : quotation[q].package # None =>
    /\ LinesOf(quotation[q].lines) # {}
    /\ quotation[q].totals = TotalsOf(quotation[q].lines)
    /\ quotation[q].customerPrice = quotation[q].totals.totalSellPrice

\* An item's prices are those of its own inputs, although partial updates that overlap
\* overwrite each other (updateItem in packages.service.ts).
PricesFollowInputs ==
  \A i \in Items : item[i].status # Absent => item[i].prices = CalculateItem(item[i].inputs)

\* A status that the workflow gave a package is backed: a quoted one has a quotation, a
\* costed one has had an item, although status and record are written by different queries.
StatusBacked ==
  \A p \in Packages :
    /\ package[p].status = "QUOTED" => "QUOTED" \in ManualStatuses \/ QuotationsOf(p) # {}
    /\ package[p].status = "COSTED" =>
         "COSTED" \in ManualStatuses \/ \E i \in Items : item[i].package = p

\* A version never exceeds the number of quotations of its package, so a generation that
\* starts to count after a quotation was inserted gets a later version than it
\* (generateFromPackage, "an incremented version").
VersionsFollow ==
  \A q \in Quotations : quotation[q].package # None =>
    quotation[q].version \in 1 .. Cardinality(QuotationsOf(quotation[q].package))

\* "Totals are recomputed automatically after every item add/update/remove"
\* (PHASE2_COMMERCIAL_ENGINE_REPORT.md:72): when no request is in flight, a package's totals
\* are those of its items.
TotalsSettle ==
  (\A r \in Requests : At(r, "idle")) =>
    \A p \in Packages : Visible(p) => package[p].totals = TotalsOf(Prices(p))

=============================================================================
