# DMC CRM: a TLA+ model of the order workflows

DMC CRM (repository `easygoventure`) is a NestJS server over MongoDB
(`src/backend/src`) with a React client (`src/frontend`).  Staff of a travel
company record leads, send proposals, agree on quotations, book the work and
follow it to completion.  There is no test suite; what the code promises stands
in its comments, its error messages and the reports at the root of the
repository.  This directory models the workflows, checks them with TLC on small
instances and proves the most important properties with TLAPS for all instances.

## 1. The system

### Components, their state and their operations

Paths are relative to `src/backend/src/modules/` unless they start with `src/`.

| component | state it keeps | operations that change it | what makes it correct | module |
|---|---|---|---|---|
| Leads (`leads/`) | status, soft-delete flag | create, update, remove, setStatus (called by the four below) | a status a workflow wrote is backed by the record that caused it; a won lead is not dragged back | SalesPipeline |
| Proposals (`proposals/proposals.service.ts`) | status, lead, editable fields, public token | create, update, send, reject, accept (a MongoDB transaction over three collections) | one final decision per proposal; an accepted one has opened exactly one fulfillment; it is locked | SalesPipeline, DealBook |
| Fulfillments (`fulfillments/`) | status, lead, accepted proposal | create, createFromAcceptedProposal, update (may complete the lead) | the last completion reaches the lead | SalesPipeline |
| Follow-ups (`followups/`) | state, lead | create (may move the lead to FOLLOW_UP), update | does not touch a closed lead | SalesPipeline |
| Quotations (`quotations/`) | status, frozen snapshot, acceptance, converted proposal | generateFromPackage, send, accept, reject, markConverted | frozen terms never change and agree with their own lines; a later quotation has a later version | CommercialFlow (life cycle), PackageCosting (generation) |
| Quotation conversion (`proposals/quotation-conversion.service.ts`) | - | convertAcceptedQuotation | only accepted terms become a proposal, once | CommercialFlow, ContractBook |
| Booking readiness, commercial proposals, fulfillment items (`proposals/`) | bookingStatus, one item per snapshot line | checkReadiness, book, updateFulfillmentItem | no work before readiness; BOOKED means every line has its item; the derived status follows the items | CommercialFlow, ContractBook |
| Packages and pricing engine (`packages/`) | items, totals, status | create, update, remove, addItem, updateItem, removeItem, recalculate | prices follow inputs, totals follow items; a status is backed by what caused it; an archived package is frozen | PackageCosting, PricingEngine |
| Inquiries (`inquiries/`) | status, lead | create, update, transition, convert, remove | a converted inquiry has a lead of its own | InquiryConversion |
| Agencies (`agencies/`) | name, removal | create, update, remove, findOrCreate (called by lead creation) | a lead's company had its agency | InquiryConversion |
| AI copilot actions and chat (`ai/ai-copilot.service.ts`) | action status, approvals; messages | recordAction, approve, reject, markExecuted; createSession, postMessage | executed only after a recorded approval; a reply answers a turn | AiApproval |
| Operations: bookings (`operations/bookings.service.ts`) | status, confirmation date, visa stamps | create, update, confirm, fail, cancel, detail updates | a confirmation and a visa's progress have their dates; an edit undoes no decision | TripBookings |
| Operations: travelers and risk (`operations/`) | travelers; the assessment keeps nothing | create, update, remove; assess | no alarm missed; levels escalate | TripRisk |
| Vendor rates (`vendors/vendor-rates.service.ts`) | validity windows, targets, status | create, update, remove | one rate applies to a target on a day | VendorRates |
| Users, roles, sign-up, RBAC bootstrap (`users/`, `roles/`, `auth/`) | accounts, roles, permissions | register, invite, assign, remove; role create, update, remove; seeding, healing of role-less owners | a founder can work; full authority only from a super-admin; roles stay in their workspace | WorkspaceAccess |
| Authentication (`auth/`) and the client's session (`src/frontend/src/shared/api/http.ts`, `AuthBoot`, the auth store) | stored refresh tokens; the tab's token, the one refresh in flight | login, refresh, logout, reload, repeat of failed calls | expiry alone signs nobody out; every call ends | TokenRefresh |
| Lead pricing (`src/frontend/src/shared/lib/lead-pricing.ts`, `LeadOverviewTab.tsx`, `LeadCreateDialog.tsx`) | the rows of the hotel editor, the saved lead | edit a row, add, remove, change the party, save | what is saved is settled; saving moves no price | LeadPricing |
| WhatsApp quote (`src/frontend/src/shared/lib/whatsapp.ts`) | - | buildWhatsAppQuote | every option once; one number per option | QuoteText |
| AI lead intake (`ai/ai.service.ts`, `LeadCreateDialog.tsx`) | data extracted so far, the form | leadIntakeChat, the dialog's merge, its creation calls | an answer that leaves a field out, or says null, empties none; hotels settle | LeadIntake, InquiryConversion |
| The rest: vendors, hotels, service catalog, organizations, departments, permissions, brain configuration, AI providers and contexts, timeline and documents, reporting, audit, queues, the other pages, the hotel catalog scripts | CRUD, text or rendering | | | not modelled, see section 6 |

### How components interact

Calls within one process, and MongoDB documents.  `ProposalsService` and
`FollowUpsService` call `LeadsService.setStatus`; acceptance also calls
`FulfillmentsService.createFromAcceptedProposal`, both with the transaction's
session; `FulfillmentsService` calls `LeadsService.setStatus` when it counts no
open work.  `QuotationConversionService` reads a quotation, inserts a proposal,
and calls `QuotationsService.markConverted`.  Booking creates fulfillment items
and item updates write the proposal's `bookingStatus` back.  The server keeps no
state between requests; documents are the only memory.

`InquiriesService.convert` calls `LeadsService.create`, which calls
`AgenciesService.findOrCreate`; `AuthService.register` creates an organization,
looks up the seeded owner role and creates the account, while
`RbacBootstrapService` seeds and heals on every start of an instance.  The client
sends each call through one axios instance, whose interceptors share a single
refresh promise; the lead dialog turns one conversation with the model into three
calls (lead, quote, inquiry).  The components of the last eleven rows share no
documents that one of them decides on and another changes, other than through the
calls just named, and these calls are inside one model.

### What is hard in it

Handlers are async functions, and every `await` lets other requests run (in this
process or in another instance of the server).  A handler reads a document,
decides, and writes in a later query; almost everywhere the write filters by id
and tenant only.  So the decision may be stale when it is written.  There is one
transaction (acceptance) and one conditional update
(`ProposalsRepository.transitionStatus`); everything else that spans several
queries can be cut by a crash.  `PROJECT.json` lists each such place under
"hazards".

## 2. How handlers are modelled

* One awaited MongoDB operation is one atomic step; each step of a handler is an
  action.  `req[r]` is a request in flight: the point it has reached (`pc`) and the
  values it read and still carries.  A handler with a single query is one action.
* A handler that returns early or throws before it writes anything changes no
  state; when it does so at its first query it is simply not enabled.
* Documents are functions from a finite set of ids to records with the fields the
  properties need; `ABSENT` is the status of a document not inserted yet.  Text,
  amounts, actors, activity rows and audit rows are left out: no handler here
  decides on them.
* `Crash` ends a request at any point: what it wrote stays, an open transaction
  is aborted.  In the modules of the back office this is the `...Abandon` action,
  which also stands for a query that failed and made the handler throw.
* The back office modules take their requests from `Handlers`: `At(requests, r,
  point)` is the guard of a step, `Continue` takes the request to its next point,
  `Finish` ends it, and a slot that has ended is `Idle` and is used again.
* An error that the code catches and swallows (of an agency's look-ups or its insert, an
  approval row that cannot be written, a catalog query in the intake) is a step of its own
  wherever the handler goes on after it (`SwallowAgencyError`, ...).
* `undefined`, `null` and the empty string are told apart where the code does: in the
  intake (`None`, `Blank`, and an answer without the field), whose ways to merge are
  operators of their own (`OrKept` for `??` and `!= null`, `OrTruthy` for `||`), and in the
  code of a vendor rate.
* What the state does not show but a property needs is a history variable or field, named
  as such: `raced`, `strayed`, `answered`, `disturbed`, `touched`, `skipped`, `everNamed`.
* Mongoose's `save()` writes the paths whose value differs from the loaded ones:
  `TripBookings` keeps the changed paths in the request and writes only these.
* One tenant is modelled: every query carries the tenant's id, and no workflow
  crosses tenants.

**The acceptance transaction.**  `withTransaction` runs its callback on a session.
The first operation, the conditional status update, fixes the snapshot and locks
the proposal (`ProposalLocked`); `setStatus` in the transaction reads the lead
*without* the session, so it sees the committed state, and writes it with the
session; the fulfillment is inserted; the commit makes all three visible at once
(`AcceptCommit`).  While a document is locked a plain write waits (its action is
disabled).  A transaction that would write a locked lead, or one written since
its snapshot (`outdated`), gets a write conflict, and `withTransaction` aborts and
calls the callback again (`AcceptWriteLead` goes back to `accept`).  The pending
writes are kept in `req[r]`, not in the documents, so no other request reads them.
The re-run meets the status as it is by then, and fails when it lost the race
(`AcceptRefused`).

## 3. Modules

| module | what it is |
|---|---|
| `SalesPipeline` | leads, proposals, fulfillments, follow-ups and the requests on them |
| `DealBook` | abstract: a deal is drafted, offered, and won or lost for good; winning opens one order in the same step |
| `CommercialFlow` | quotations, conversion, readiness, booking, fulfillment items |
| `ContractBook` | abstract: terms are issued, agreed, signed into a contract, cleared, and only then opened as work, line by line |
| `PricingEngine` | the arithmetic of prices and totals |
| `PackageCosting` | packages, their items, the recomputation of totals, the generation of quotations |
| `Handlers` | the requests of the back office modules |
| `InquiryConversion` | inquiries, their conversion into a lead, the agency look-up, the dialog's three calls |
| `AiApproval` | recommended actions and their approvals; the stored chat of a session |
| `TripBookings` | supplier bookings as loads and saves of changed paths |
| `TripRisk` | the risk assessment over travelers, bookings, the start date and the clock |
| `VendorRates` | rates, their windows and the overlap check |
| `WorkspaceAccess` | sign-up, accounts, roles, permissions, seeding and healing |
| `LeadPricing` | hotel options of a lead: normalisation, edits, saves |
| `QuoteText` | grouping, layout and numbering of options in the quote |
| `Lists` | arrays filtered by position, written so that the provers can follow it |
| `LeadIntake` | the merging of the model's answers on the server and in the form |
| `TokenRefresh` | one tab, its calls and refreshes, and the sessions the server keeps |
| `*_proofs` | the theorems and their proofs, eight modules; `BackOffice_proofs` is about `MCBackOffice` |
| `MCSalesPipeline`, `MCCommercialFlow`, `MCPackageCosting` | symmetry sets, and the terms and inputs TLC uses |
| `MCBackOffice` | the nine small models of the back office, each on its own instance |

`SalesPipeline` implements `DealBook` under the mapping "stage = the proposal's
status, order = the opener of a fulfillment"; `CommercialFlow` implements
`ContractBook` under "offer = the quotation's frozen terms, agreed = it was
accepted once, contract = the proposal's lineage and terms, cleared = its booking
status left NOT_READY, opened = the (proposal, line) pairs that have an item".
The two pipelines share the word "proposal" and its schema, not documents: a
commercial proposal is created ACCEPTED by conversion, and the commercial handlers
never call the lead or fulfillment services, so they are two models.
A commercial proposal has no fulfillment of the sales kind: `AcceptedIffFulfilled`
speaks of proposals created by `ProposalsService.create`.

`MCBackOffice` puts the nine models from `InquiryConversion` to `LeadIntake` in one run:
the initial value of `component` picks the one that moves, the others rest in one
state.  They share no state, so their product would show nothing more; each component
still has all interleavings of its own requests.  `TokenRefresh` is checked alone, for
its liveness.

`PackageCosting` and `CommercialFlow` meet in the insert of a quotation:
`PackageCosting` models how `generateFromPackage` comes to it, with the package's
items as lines; in `CommercialFlow` it is the one step `Issue`, with the terms as
given, because nothing after it reads a package or an item again.

`PricingEngine` computes with integers, thousandths of the currency, so a unit cost
finer than a cent can be told from a whole number of cents, and `Round2` is the
rounding of an exact quotient, halves up as `Math.round` does.  What doubles would
make of it is not modelled.  The rate a unit cost comes from, a hotel's or a
vendor's name, and the date of a rate decide nothing here and are left out.

### From actions to code

`SalesPipeline`: `CreateLead`, `UpdateLeadRead/Write`, `RemoveLeadRead/Write`,
`SetStatusRead/Write` are `LeadsService`; `CreateProposalRead/Write`,
`EditProposalRead/Write`, `Send`, `Reject`, `AcceptStart/Transition/Refused/
ReadLead/WriteLead/Commit` are `ProposalsService`; `CreateFulfillmentRead/Write`,
`UpdateFulfillment`, `CompleteFulfillment`, `CountUnresolved` are
`FulfillmentsService`; `CreateFollowUpRead/Write`, `CompleteFollowUp` are
`FollowUpsService`.  `CommercialFlow`: `Issue`, `TransitionRead/Write` and
`MarkConverted` are `QuotationsService`; `ConvertRead`, `ConvertCreate` are
`QuotationConversionService`; `CheckReadinessRead/Write`, `BookRead/Count/
CreateItem/Write`, `UpdateItemRead/Write`, `DeriveRead/Write` are
`CommercialProposalsService`.  `PackageCosting`: `CreatePackage`, `UpdatePackage
Read/Write`, `RemovePackageRead/Write`, `AddItemRead/Write`, `ChangeItemRead`,
`FindItem`, `UpdateItemWrite`, `RemoveItemWrite` and `Recalculate` are
`PackagesService`; every change of an item goes on with `ReadItems`, `WriteTotals`
and `SetCosted`, which are `refreshPackage` over `recalculatePackage`;
`GenerateRead`, `FindPackage`, `ListItems`, `CountQuotations`, `InsertQuotation`
and `SetQuoted` are `generateFromPackage`.

`InquiryConversion`: `CreateInquiry`, `EditInquiryRead`, `TransitionRead`,
`RemoveInquiryRead`, `WriteInquiry` and `ConvertRead` are `InquiriesService`; `PostLead`,
`FindAgency`, `SwallowAgencyError` and `InsertLead` are `LeadsService.create` as `convert`,
the API and the dialog reach it; `DialogSaveQuote` and `DialogPostInquiry` are the dialog's
next calls; `CreateAgencyRead`, `InsertAgency`, `ChangeAgencyRead/Write` are
`AgenciesService`. `AiApproval`: `RecordAction`, `DecideRead`, `RecordApproval`,
`WriteDecision`, `ReportRead`, `WriteReport` are the actions, `CreateSession`, `PostRead`,
`StoreTurn`, `ListPrior`, `Chat`, `StoreReply` the chat. `TripBookings`: `LoadBooking` and
`SaveBooking` with `Outcomes` as what each operation does in between. `TripRisk`:
`RiskLevel` is `assess`; `AddTraveler`, `TravelerRead/Write` are `TravelersService`.
`VendorRates`: `CreateRate`/`UpdateRate`, `CheckOverlap`, `WriteRate`,
`RemoveRateRead/Write`; `Effective` is what an update checks, which is not always what
`WriteRate` leaves. `WorkspaceAccess`: `BeginSignup` to `CreateMember` are `register`,
`InviteMember`, `AssignRoles...`, `RemoveMember...` are `UsersService`, `CreateRole`,
`UpdateRole`, `RemoveRole` are `RolesService`, `Boot` and `SeedRole` the seeding,
`ReadOwned`, `ReadRoleless`, `Heal` the healing. `LeadPricing`: `UpdateRoom`, `AddOption`,
`AddRoomType`, `RemoveRoom`, `ChangeParty`, `SaveLead`, `Reseed` are the editor, over
`Normalize` and `Extracted`. `QuoteText`: `Blocks` is the layout and `PriceTable` the table;
its actions (`LocationsEditor`, `HotelOptionsEditor`) only make the inputs. `LeadIntake`:
`SendChat`, `ReceiveAnswer`, `LoseAnswer`, `EditForm`, `CloseDialog` are the dialog,
`Answered` the server. `TokenRefresh`: `RefreshFind/Revoke/Issue/Fail` are
`AuthService.refresh`, `MakeCall`, the `Receive...` actions, `GiveUpRefresh`, `LoseRefresh`,
`LoseCall` the interceptors, `Login`, `SignOut`, `Reload` the pages; one JavaScript event is
one step.

`PROJECT.json` gives the lines of each.  Operators
whose comment starts with "Mutant:" are not part of the models: each is a form of
the definition below it with a plausible bug, with which TLC finds the property
named in `PROJECT.json` violated.

## 4. Runs

| run | what it shows |
|---|---|
| `sales_safety` | `TypeOK`; `AcceptedIffFulfilled`: acceptance is atomic under races, retries, crashes; `LeadNeverAhead`: a status a workflow wrote to a lead is backed by its record; `ImplementsDealBook` |
| `sales_liveness` | `CompletionReachesLead`, `RequestsEnd` under fairness |
| `commercial_safety` | `TypeOK`; `BookedCoversSnapshot`: a half-done booking is never shown as booked; `LinksAgree`; `ImplementsContractBook` |
| `costing_safety` | `TypeOK`; `SnapshotConsistent`: a quotation agrees with itself whatever is edited meanwhile; `PricesFollowInputs`: overlapping partial updates never mix one's inputs with another's prices; `StatusBacked`: COSTED and QUOTED are backed by an item, a quotation; `VersionsFollow`: versions never run ahead of the quotations |
| `back_office` | the models of the back office, in the table below |
| `session` | `TypeOK`; `SessionKept`: expiry alone never signs anyone out, however many calls fail together; `AuthenticatedHasToken`; under fairness `CallsSettle` and `BootResolves` |
| `follow_up_race`, `edit_race`, `conversion_race`, `booking_race`, `derive_race`, `totals_race` | each shows one promise of a comment, an error message or a report that overlapping requests break; see the findings |

Properties of `back_office`, next to `OfficeTypeOK`:

| property | what holds | model |
|---|---|---|
| `DecisionRecorded` | an approved, executed or failed action has an APPROVED approval, a rejected one a REJECTED one, although `updateAction` writes by id alone | AiApproval |
| `RepliesAnswer` | no beginning of a conversation has more replies than turns | AiApproval |
| `ConvertedHasOwnLead` | CONVERTED never stands without a lead, and no lead is that of two inquiries | InquiryConversion |
| `DialogLeavesNoOrphan` | a creation cut short leaves at most a lead, never an inquiry without lead and quote | InquiryConversion |
| `CompanyHadAgency` | a lead's company had an agency, also when the insert lost a race, unless a query for the agency failed (`answered` is false) and lead creation went on | InquiryConversion |
| `BookingStamped` | a confirmed booking has its date, a visa the date of the step it has reached | TripBookings |
| `EditsKeepStatus` | an edit loaded before a confirmation or cancellation does not undo it | TripBookings |
| `RiskEscalates` | with documents as they are, the level never falls before the departure | TripRisk |
| `NoAlarmMissed` | an open item at most three days ahead is HIGH; nothing open is LOW | TripRisk |
| `OneRateApplies` | at most one ACTIVE rate applies to a target on a day, unless two were submitted at once (`raced`) or the last write of one took away the code it had been checked for (`strayed`) | VendorRates |
| `FoundersCanWork` | whoever signed up can manage until somebody assigns other roles | WorkspaceAccess |
| `WildcardFromSuper` | only a super-admin's assignment gives the wildcard | WorkspaceAccess |
| `RolesOfOwnWorkspace` | roles are system roles or the member's own workspace's | WorkspaceAccess |
| `StoredIsSettled` | a saved option, seen again for its party, does not move | LeadPricing |
| `SaveKeepsPrices` | a save moves no price by more than half a dirham per room-night | LeadPricing |
| `EveryOptionShown`, `OptionNumbersAgree` | each option once; layout and table number alike when hotels were entered in the trip's order | QuoteText |
| `IntakeKeepsForm`, `HotelsSettle` | nulls and absent fields empty nothing, and an answer of "" neither the name nor a list; hotels move only when an answer names some, or a query failed | LeadIntake |

### Bounds and why they are enough

* *Documents.*  Ids are finite sets and a document, once inserted, stays.  The code
  has no such bound, so a request that will insert a document of a kind starts only
  while an id is left for it (`Room`), and no request is stuck for want of an id;
  conversions, bookings and acceptances wait at their insert instead, which for
  safety is a prefix of a real behaviour.  In `sales_liveness` there is an id for
  each insert that can happen; for acceptances one per proposal is always enough
  (`CommitsFindRoom`).
* *Requests.*  Two in flight at a time, each slot reused for ever.  Every hazard
  listed is a race of two requests, or of one and a crash; the proofs of acceptance
  cover any number.
* *`sales_safety`* has one lead and two proposals of it, so acceptances compete for
  the lead (write conflict, retry) as well as for a proposal; two openable
  fulfillments, so a double opening would be seen; staff may set the lead to
  ARRANGEMENTS.  `LeadNeverAhead` excuses statuses in `ManualStatuses`, for which
  no record is needed; the run keeps that set small so that the property bites.
* *`commercial_safety`* has one quotation that may become two proposals, three items
  for a proposal of two lines, so that two bookings can overlap and one item can be
  double; terms are either two lines at a price or one line given away (never
  ready).
* *`costing_safety`* has one package with one item, two partial changes of it (of two
  different fields, so that they merge in either order, one of them to a cost finer
  than a cent), two quotations, so that a version can be counted stale, and staff may
  archive the package.  *`totals_race`* has two items and no crashes: the totals go
  wrong although every request runs to its end.
* *`back_office`* has two requests everywhere; every race listed for these components is
  one of two requests.  `Bounds` cuts, per component, products of independent
  dimensions and names each: two inquiries side by side or one with a company (agency,
  lead) in play; one update of a traveler at a time; no more than one super-admin; two
  requests on members and roles together only before a custom role is created and a
  member removed; once two rates have raced nothing more is promised of them; one hotel
  row is changed while the other is as stored.  Days fall on
  both sides of the code's boundaries (3, 14 and 30 days), windows touch or are open; the chat
  history window is 2 for 20, so that it is exceeded; three members make "the first of a
  workspace" and its loss possible; four quote rows over two cities and two hotels make
  both grouping and interleaved entry possible, and on three stops (`MaxStops`) a trip comes
  back to a city.  Changes of a rate move its window's end, its status or its target, and
  clear its code in the three ways a request can (null, "" and blanks); answers of the model
  name dates, counts and names, or say null or "" for them.
* *`session`* has two calls next to the boot's, so that a refresh is shared and a late 401
  meets a newer token; five tokens allow a login, and refreshes after it, across a reload.
  There is one login: liveness on the states of two takes too long.  A second login may meet
  what the first session has left on its way, for which `SessionKept` makes an exception
  (`Login` sets `disturbed`).  The theorems are for any number of logins, and with
  `MaxLogins = 2` and four tokens TLC finds the three invariants to hold (6.8 million states,
  without the temporal properties); without the exception, `SessionKept` fails there.
* Symmetry is used in safety runs only, over ids that no property distinguishes.
* Deadlock is not checked: the system rests legitimately when nothing is left to ask
  for (all ids used, the one lead or package removed).  That no request hangs is
  `RequestsEnd`.

### Fairness

`FairSpec` is weak fairness of `Proceed(r)` for each request: Node runs every
pending continuation, and MongoDB answers every query.  Clients are under no
obligation to send requests, and nothing forces a crash or a restart.  MongoDB does
not queue waiters, so a write may lose to a chain of transactions for ever, and two
transactions may abort each other for ever; the liveness properties exclude exactly
that (`Contended`: some request is in a transaction again and again).  After a
crash, the request ends as `crashed`.

In `TokenRefresh` the fairness is that of the client: each call and refresh is answered or
runs into its 60 second timeout (`http.ts` sets one on every request), and the tab reacts to
what it received.  The server may be slow for ever, tokens may expire at any time, and the
user need not act.

## 5. Findings

Each is a disagreement between a statement in the repository and the code,
with a run whose counterexample shows it:

1. `follow_up_race` - followups.service.ts:44 "Never drag a won/closed lead backward
   into FOLLOW_UP": the status is checked two queries before it is overwritten.
   `OnlyOlderFollowUpsDrag`: only a follow-up that had read the lead before it was closed
   does so, and none created later joins those.
2. `edit_race` - "An accepted proposal cannot be edited": the edit's write has no
   condition on the status, so it can land after the acceptance.  `AcceptedStaysLocked`:
   once the edits checked before the acceptance have ended, the lock holds for good.
3. `conversion_race` - "a quotation can convert exactly once": the guard is read
   before, its field written after, the proposal's insert.  `ConvertsOnceOneByOne`: it
   converts once if its conversions do not overlap and none is cut off in between.
4. `booking_race` - "one FulfillmentItem per snapshot item ... Idempotent-safe": two
   bookings both count zero items.  `OneItemPerLineOneByOne`: bookings one after the
   other, crashes included, keep the promise.
5. `derive_race` - "all active items DELIVERED -> COMPLETED": a slower request writes
   FULFILLING over COMPLETED.  `CompletedStaysOneByOne`: item updates that do not overlap
   keep it.
6. `totals_race` - "Totals are recomputed automatically after every item add/update/
   remove": a sum of items read before another edit can be written after it, and
   stays.  `TotalsSettleOneByOne`: without two refreshes of one package at once, or a
   crash, every package's totals settle to those of its items.

The theorem named with each says that the overlap in the counterexample (in 3 and 6, or a
crash in between) is the whole extent of the disagreement, for any number of documents and
requests: a repair has to order those requests, and no others.

Also seen, by reading: two generations of a quotation that overlap get the same
version, as the count is read before the insert (`VersionsFollow` bounds the versions;
without such an overlap they are 1, 2, 3 and so on, each once: `VersionsOneByOne`).  An
item edit that passed the check for ARCHIVED before the archival changes the archived
package after it, and only such an edit (`ArchivedStaysShut`).  A unit cost finer than a
cent can be sold at a loss: 0.004 without markup is a unit price of 0.00, so 100 of
them cost 0.40 and sell for nothing.  A fulfillment opened or re-opened between the count
of the open ones and the write that completes the lead leaves a COMPLETED lead with open
work; nothing else does (`CompletedHasNoOpenWork`).
Of the back office, by reading or on the way to a property that had to be weakened:

* A confirmation that loaded a booking before its cancellation overwrites CANCELLED; no
  later one does (`OnlyOlderConfirmsRevive`).
* Two `convert()` of one inquiry make two leads; the last write links one.  A transition
  read before a conversion takes CONVERTED back, with the lead still linked; once the
  requests that had read the inquiry before have ended, it stays (`TerminalInquiriesStay`).
* Two requests can insert one agency name twice (only they, or a rename, can:
  `NamesApartOneByOne`), and two desks can each pass the overlap check
  (`OneRateApplies` excludes the second, `raced`).
* The self-healing of role-less owners writes what it decided on an earlier read, and can
  overwrite a role assigned meanwhile.
* An update that clears a rate's code (null) is checked for that code still,
  `dto.serviceCode ?? existing.serviceCode` (vendor-rates.service.ts:152), and stored without
  one (line 161); a code of blanks is checked as a code and trimmed to none when stored.  So
  two ACTIVE rates without a code come to overlap, although lines 216-218 say that this is
  rejected, and no two requests need overlap for it.  `OneRateApplies` excepts these rates
  (`strayed`); without the exception TLC finds the overlap, and with it `RatesApart` proves
  that there is no other.
* A lead's company has no agency when a query for it failed, the insert included:
  `LeadsService.create` swallows it, as its comment says.
* A sign-out during a refresh is undone when the refresh succeeds (`setSession`); a network
  failure of the boot check clears the session.  A sign-out still unanswered when a refresh
  is lost leads to the login page, and clears the session of a login made before it ends.
* An answer of "" for a date or a count empties it in the form, and as the data keeps the "",
  so does every later answer that does not name it, even after an edit by hand.
* "Option n" of the layout and of the price table differ when hotels were not entered in
  the order of the trip's cities.
* A row added as a room type of a hotel keeps the total price of the row it copies.  The
  dialog and the overview count the party differently.  A refetch re-seeds the overview's
  form and loses edits not yet saved; the drawer saves whole arrays, so the later of two
  savers wins.
* In one answer, the same hotel with two room types has its second row replaced by another
  hotel of the city.  An answer that arrives after the dialog was closed fills the next
  lead's form.

DMC_CRM_PROJECT_OVERVIEW.md:232-234 says that acceptance sets the lead to ACCEPTED; the
code sets CONFIRMED.  No code sets a proposal to VIEWED or EXPIRED.

## 6. What is proved

The `_proofs` modules hold theorems checked by TLAPS for every value of the
constants: any number of documents and of requests in flight, crashes allowed or
not.  They assume `ConstantsOK` of each model (in the back office modules the
assumptions named after their module, as `AccessAssumption`), which says that the
constants have the types of their comments and that `None` is no id; TLC evaluates it in
each run.  Where a theorem counts or sums, the ids are finitely many (`IsFiniteSet(Items)`), as
the documents of a database are.

*SalesPipeline_proofs.*  `TypeCorrect`; `AcceptanceAtomic` (`AcceptedIffFulfilled`);
`DealsImplemented` (`ImplementsDealBook`); `DecisionsFinal`, the abstract book's
promise that a decided deal stays decided.  `AcceptedIffFulfilled` is not inductive:
it says nothing of a transaction half way.  `AcceptInv` adds what a request in the
transaction knows (`TransactionHolds`): the proposal it has locked is still SENT
or VIEWED in the committed state, and no other transaction holds it; and that only
an inserted fulfillment of an acceptance has an opener (`OpenersExist`). Each step
is then shown to be of one of a few kinds (writes no proposal, moves one within
what its stage allows, commits an acceptance), and the refinement follows from the
kinds: a commit is the book's step that wins a deal and opens its order,
everything else moves a stage or stutters.
`LeadsFollowRecords` (`LeadNeverAhead`) rests on the same invariant: a handler writes a lead's
status after the record that causes it, so `LeadInv` says of each request on its way to that
write that the record is there (`Backed`), and `RecordsGrow` that no step takes a record back:
a proposal's stage only advances, a record stays with its lead.
Two locks that the code checks on a stale read are described by what is still in flight:
`AcceptedStaysLocked` by the edits checked before the acceptance (`Locked`), with the
corollary `LockedWithoutOverlap`, and `OnlyOlderFollowUpsDrag` by the follow-ups that read an
open lead (`Dragging`).  `CompletedHasNoOpenWork` assumes `NoReopening`: between a count of
open fulfillments and the write it allows, none of that lead is opened or re-opened.
Towards liveness: `RequestsAdvance`, a measure of the queries a request still has before it
(`QueriesLeft`), which every step of it lowers except a lost write conflict, and
`RetriesArePaidFor`: a snapshot becomes outdated only as another request ends.
`CommitsFindRoom` counts: the orders opened are of different proposals, none of them that of
the acceptance about to commit.

*CommercialFlow_proofs.*  `TypeCorrect`; `BookedIsCovered` (`BookedCoversSnapshot`);
`LinksAlwaysAgree` (`LinksAgree`); `ContractsImplemented` (`ImplementsContractBook`).
No write of this flow has a condition, so what a request read may be stale when it
writes.  The argument is that the facts the writes need never stop being true:
`Grows` says what no step undoes (terms stay frozen, what was accepted or cleared
stays so, an item stays with its line), and `Carries(r)` states what request `r`
knows at each point by such facts only, so another request's step preserves it
(`CarriesOn`).  The inductive invariant `FlowInv` is these, the soundness of
documents and their types.
The three findings of this flow hold where their requests do not overlap:
`ConvertsOnceOneByOne`, `OneItemPerLineOneByOne`, `CompletedStaysOneByOne`.  Their hypotheses
(`OneConversion` with `NoOrphan`, `OneBooking`, `OneUpdate`) are about the requests on one
document only; everything else interleaves and crashes as before.

*PackageCosting_proofs.*  `CostingTypeCorrect` (`TypeOK`), `SnapshotsHold` (`SnapshotConsistent`),
`PricesDerived` (`PricesFollowInputs`), `StatusesBacked` (`StatusBacked`) and `VersionsBounded`
(`VersionsFollow`), along the same argument: what a quotation froze is never written again, an
item never leaves its package, so the number of a package's quotations only rises.  That the
totals are numbers needs sums over any number of items.  `SumFunction` is a fold, and its
theorem in the library takes an operator, so the section "Sums" goes another way: two
functions that both add up along the fold agree on every finite set, because a smallest set
on which they differ would have a smaller one (`SumsAgree`); such a function exists
(`SumExists`) and is the fold (`SumIs`).  From it follow the type of sums (`SumNat`) and their
order (`SumsOrdered`).  On these rest the theorems about money.  `NoLossAtWholeCents`: when a
unit cost is a whole number of cents, no rounding makes an item sell below its cost.
`NoLossInTotals`: items that each make no loss make none together, however the sums are
rounded.  `NothingAtLoss`: under `CentPricing` (staff enter whole cents) no item, package or
quotation is ever at a loss, whichever requests overlap; its invariant, `CoverInv`, says the
same of the totals that requests carry to their writes.  The hypothesis is needed: two
units of 50.4 cents, a cost the schema accepts, cost 1.01 and are sold without markup for 1.00.
`VersionsOneByOne`: if no two generations of a package stand between count and insert
(`OneNumbering`), the versions of its quotations are exactly 1 to their number.
`TotalsSettleOneByOne`: without crashes (`~MayCrash`) and two refreshes of one package
at once (`OneRefresh`), a package's totals are those of its items unless a refresh of it is
under way.  `ArchivedStaysShut` says of an archived package what `AcceptedStaysLocked` says of
a proposal.

*Operations_proofs.*  Four components.  *Copilot*: `AiTypeCorrect`, `DecisionsRecorded`
(`DecisionRecorded`).  A stale write may overwrite any later one; but approvals are only
added, so what a request knew of them when it recorded or read one (`Backed`) holds when it
writes.  `RepliesAnswerTurns` (`RepliesAnswer`): a reply is stored long after its turn, and
other turns and replies come in between.  `ChatInv` counts the replies still owed, one for
each request that has stored its turn and not yet a reply: stored replies and owed ones
together never outnumber the turns.  *Bookings*: `StampsKept` (`BookingStamped`),
`StatusesKept` (`EditsKeepStatus`), `TripTypeCorrect` (`TripTypeOK`). A save writes the
paths that differ from the loaded document. A status that needs a stamp is among them only
together with its stamp, or the loaded document already had it (`SetSound`); a stamp, once
set, is never taken back, and a save that changes only fields or details carries no status.
The values a path may have depend on the booking's kind, which no save carries (`TypedInv`).
`OnlyOlderConfirmsRevive`: a cancelled booking comes back by a confirmation loaded before,
or not at all (`CalledOff`). *Risk*: `RiskTypeCorrect`, `NoAlarmIsMissed` (`NoAlarmMissed`),
`LevelsEscalate` (`RiskEscalates`): the level is the highest that a rule gives, every rule
is monotone in the days left, and a set of days has an earliest one, for any number of
travelers and bookings. *Rates*: `RateTypeCorrect`, `RatesApart` (`OneRateApplies`). A check
of overlaps and the write it allows are two steps. `Checked` says that until the write no
rival meets the document, and `Foreseen` that the write still leaves what was checked, but
for the code; both hold as long as no other rate is on its way, which is `raced` being
false. A rate written for the target it was checked for then meets none (`WrittenIsApart`);
the others are `strayed`.

*LeadFunnel_proofs.*  Four components.  *Inquiries*: `InquiryTypeCorrect`,
`ConversionsOwnTheirLead` (`ConvertedHasOwnLead`), `DialogInquiriesHaveLeads`
(`DialogLeavesNoOrphan`), `CompaniesHadAgencies` (`CompanyHadAgency`).  `Holds` says what a
request has in hand: a lead it inserted is known to no other request and named by no inquiry
until its own last write names it (`HeldOnce`), and what it carries (`Carries`) says that a
company it looked up was once the name of an agency, if no query for it failed.
`TerminalInquiriesStay`: what a request that reads an inquiry in a terminal status can still
do to it is nothing. `NamesApartOneByOne` assumes `OneNaming`: no two requests on their way
to insert one name, and no rename. *Prices*: `QuoteTypeCorrect`, `SavedPricesSettle`
(`StoredIsSettled`), `SavesKeepPrices` (`SaveKeepsPrices`), for any amounts. Normalising
turns whichever price an option carries into whole dirhams per night; the result is a fixed
point for its party (`Settled`, the invariant `QuoteInv`), and the two roundings on the way
stay within half a dirham per room-night. It assumes that stored options are what the
server's `LeadHotelOptionDto` accepts: amounts not negative, counts positive. *Quote*:
`TextTypeCorrect`, `OptionsShownOnce` (`EveryOptionShown`), `NumbersAgree`
(`OptionNumbersAgree`), for any route and rows. A filtered or concatenated array is
described by the positions its elements are taken from (`Lists`): each once, and in rising
order where it matters. The sections are distinct cities, every group's among them
(`SectionsCover`), so the positions they show are disjoint and together all there are; they
rise from section to section if the hotels were entered in the trip's order. What `Kept` and
`FlattenSeq` compute is an induction over data; it is done by hand here, on the set of
numbers up to which a recursive function is as claimed: it has no smallest number missing
(`Induction`). *Intake*: `IntakeTypeCorrect`, `AnswersKeepForm` (`IntakeKeepsForm`),
`HotelsStay` (`HotelsSettle`), for any catalog, likeness of names, answers and edits.
`MergeKeeps` goes through the fields of a form by the operator that merges each.
`IntakeInv`: until the form is edited by hand, a message takes along what the dialog knows
and the form shows the hotels it knows, which are a fixed point of the look-up unless a
query failed. They are because enriching twice is enriching once (`EnrichedSettles`): row by
row, the name found is its own best match and was free, or all names of the city are taken.
It assumes that a name of the catalog is no placeholder ("5-Star Hotel A", which the code
would replace again) and is best matched by itself (`IntakeAssumption`).

*WorkspaceAccess_proofs.*  `AccessTypeCorrect`, `SignupGivesAuthority` (`FoundersCanWork`),
`OnlySupersGiveWildcard` (`WildcardFromSuper`), `RolesStayInWorkspace`
(`RolesOfOwnWorkspace`).  A check of roles precedes their assignment by any number of steps of
others.  It stays good because a stored role or account keeps its workspace (`AccessPersists`),
and no step gives a custom role the wildcard or the super-admin's anything but what is
defined (`RolesSound`); `AccessCarries` states what a request knows by these facts only.

*TokenRefresh_proofs.*  `SessionTypeCorrect`, `ExpiryEndsNoSession` (`SessionKept`),
`SignedInHasToken` (`AuthenticatedHasToken`), for any number of calls, tokens, logins and
reloads.  `SessionKept` promises nothing to a login made while something of the session before
is still on its way (`disturbed`). `BootAlone`: while the boot check is out after a reload,
it is the only call; `Delivered`: a token on its way to the repeated calls has not expired,
so no repeated call is refused (the one assumption about time: an access token, which lives
for minutes, outlives its own delivery, the guard `InDelivery` of `Expire`); `Kept` follows
the session through rotation: until the server revokes it, the stored token is that of the
shared refresh, and the successor it issues is active until it is in the store. Towards
liveness: `NobodyWaitsInVain`, calls wait exactly while a refresh is under way;
`CallsAdvance` and `RefreshesAdvance`, measures of the steps a call and the refresh have
left, so that none goes round: a call is repeated once, a refresh begins with a first
refusal.

*BackOffice_proofs.*  `MCBackOffice` composes nine models.  `OfficeRunsEach`: it implements the
specification of each, as every action of a component leaves the variables of the others
alone; so the theorems about the components are theorems about the composition:
`OfficeTypeCorrect` (`OfficeTypeOK`) and `OfficeKeepsPromises`, every invariant and action
property that `back_office` checks.

A theorem named `...OneByOne`, and `CompletedHasNoOpenWork`, has a hypothesis about behaviours.
None is about the model only: each says that a named pair of requests does not overlap, that
the server does not die at a named point, or, for agencies, that staff rename none, and the
code as it is does not ensure it.  TLC, with the hypothesis as a constraint on the instances
of the runs (for names and versions on small ones of their own), reaches the states the
theorem is about and finds the property to hold; without it, the property fails.

### What is only model-checked

* Liveness (`CompletionReachesLead`, `RequestsEnd`): TLAPS has no means for ENABLED
  and leads-to under fairness in this setting.  What is proved of it is the part that is not
  about fairness: `RequestsAdvance` and `RetriesArePaidFor`.
* Liveness of the session (`CallsSettle`, `BootResolves`), for the same reason; proved are
  `NobodyWaitsInVain`, `CallsAdvance` and `RefreshesAdvance`.
* The findings: counterexamples, for which the instance is the evidence.

### What is not modelled

* The audit log, lead activities and timelines: append-only, read by no handler.
* Tenancy: every query carries the tenant's id; one tenant is modelled.
* Time: expiry of a quotation is a stored date that no handler of these models
  compares with the clock.
* Validation of requests, authentication and permissions: a request that fails them
  changes nothing.
* Doubles: prices are exact.
* Authentication's lockout counter, password reset codes and e-mail verification; profile
  edits, avatars and deactivation of users.
* The timeline, documents and dashboards of a trip, reporting and the pages: they sort,
  filter and render what they read.  These pages are most of the repository's lines, with
  the transfer objects that list fields and the seed data; nothing in them decides on
  anything that a later step relies on, beyond the parts modelled (the hotel editor, the
  dialog, the quote, the session).
* Vendors, hotels, service catalog, organizations, departments, permissions, brain
  configuration: create, read, update and remove with no life cycle.  Hotels fall back to a file
  catalog when the database is out, for reads only.
* The blended price per person of mixed occupancies: rounding of an average that nothing
  else reads.
* The AI providers and prompts: calls to external models, with the retries of their SDKs; the
  model is any answer of a small set (`Answers`), or none.
* The hotel catalog scripts: run by hand over text.  Queues: registered, no processor exists.

## 7. What could follow

1. *Repairs*: models of the handlers with the conditional writes that would close the
   findings, in which the hypotheses of the `...OneByOne` theorems would be invariants.
2. *`TripBookings` and `TripRisk` together*: the assessment over bookings as their
   operations leave them, instead of over any bookings.
3. *Two tabs of one browser*: they share the stored token but not the refresh promise, so
   one may refresh with a token the other has rotated away.
4. *The account's lockout*: failed logins counted by read and write.
