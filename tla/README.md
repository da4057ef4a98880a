# Verification of the sweet shop

TLA+ specifications of the shop in `src/` (ASP.NET Core, MediatR, Entity
Framework Core over PostgreSQL, RabbitMQ), the TLC runs that check them and the
theorems that TLAPS proves about them. Paths below are relative to `src/src/`
unless they begin with `docs/` or `tests/`; `docker-compose.yml` is beside those.

## 1. The system

| Component | State | Operations | Talks to |
|---|---|---|---|
| Carts and checkout (`Application/Commands/Cart`, `.../Order/CreateOrder`) | `cart`, `cart_item`, `order_table`, `order_item`, `product.stock_quantity` | add, increase, decrease, update, remove; create order | catalogue (stock, price), event bus |
| Order status (`.../Order/UpdateOrderStatus`) | `order_table.order_status` | change the status | event bus |
| Event bus (`Infrastructure/EventBus`) | exchange, three queues, channels | publish, deliver, handle, ack, nack, reconnect | subscribers, which only log |
| Address book (`.../Commands/Address`) | `address` | add, set and unset default, delete, restore | orders refer to it |
| Accounts (`.../Commands/Account`, `Infrastructure/Data/DbInitializer.cs`) | `customer`, tokens in cookies | seed the administrator, register, sign in, change the profile | notifications |
| Catalogue (`.../Commands/Category`, `.../Commands/Product`, `ProductReadRepository.cs`) | `category`, `product` | create, rename, edit, delete, restore; page through the list | carts refer to products |
| Client-side validation (`Presentation/wwwroot/lib/jquery-validation-unobtrusive/jquery.validate.unobtrusive.js` over `jquery.validate.js`) | the validator of a form, the messages in the page | parse, type, submit, reset, remote checks | the sign-in and registration pages; the server |
| Read models (`Application/Queries`, `Infrastructure/ReadRepositories`) | none | one SELECT each | views |
| Analytics | none | two aggregates in SQL | view |
| Middleware, validation, views | none | turn exceptions and inputs into pages | everything |
| Payments, reviews | tables only | none: no code constructs them | |

Every HTTP request runs one MediatR handler with a `DbContext` of its own. The
handler loads entities, changes them in memory through the domain model and
calls `SaveChangesAsync`, which writes the changed columns in one transaction.
There is no concurrency token and no explicit isolation level. Handlers meet
only in the database and in the broker, and the process that serves requests
is also the one that consumes the messages.

What is hard about it:

- **Between load and save.** Whatever a handler has read may be out of date when
  it is written: stock levels, statuses, default marks, names that were free.
- **Between save and publish.** Orders and statuses are committed before their
  messages are published; a crash in between leaves no trace of the message.
- **The broker.** No publisher confirms, manual acknowledgement, automatic
  recovery of connections, a `BasicNack` that does not requeue.
- **Start-up.** Every process looks for an administrator and seeds one.
- **Late handlers.** When the connection breaks, a handler goes on while the
  broker hands its message, or a newer one, to the next.
- **The form in the browser.** Remote checks are answered after the user has gone
  on typing, submitted, or reset the form; scripts add fields after parsing.
- **Paging.** The count and the page are two queries, the next page a later one.

Correctness, per component:

- checkout: a cart row is either still there or in exactly one order; stock goes
  down by what is sold and never below zero; orders are announced once, and only
  the death of a request keeps an order silent;
- order status: final statuses are final; the last message tells the status;
- event bus: a message is in one place, is acknowledged only when handled,
  handled in order, and answered in the end;
- addresses: one default address per customer, nobody touches another's;
- accounts: contacts are unique, one administrator, the shop opens;
- catalogue: names are unique, a reader of the list misses and repeats nothing;
- forms: only right fields are sent, a refusal names exactly what is wrong, no
  error sticks to a field that was put right.

`PROJECT.json` lists the hazards at their lines with the properties that watch
them.

## 2. The modules

| Module | Models | Comes with |
|---|---|---|
| `Checkout` | carts, stock, checkout, product form; requests that interleave | `MCCheckout`, `CheckoutProofs` |
| `Shop` | what `Checkout` promises: carts and orders in atomic steps | `CheckoutRefinement` |
| `OrderStatus` | status changes by several administrators and their messages | `MCOrderStatus`, `OrderStatusProofs` |
| `OrderLifecycle` | what `OrderStatus` promises | |
| `EventBus` | publisher, queues, consumers, failures | `MCEventBus`, `EventBusProofs` |
| `MessageLog` | what `EventBus` promises | |
| `StatusNotices` | `OrderStatus` composed with `EventBus`, to the handler that tells the customer | `MCStatusNotices`, `OrderStatusProofs` |
| `Addresses` | address book with default mark and soft delete | `MCAddresses`, `AddressesProofs` |
| `Accounts` | seeding, registration, profile, sign-in | `MCAccounts`, `AccountsProofs` |
| `Catalog` | categories, products, the paged list | `MCCatalog`, `CatalogProofs` |
| `Adapters` | the rules that the data-val attributes of a field stand for | |
| `FormValidation` | a form in the browser: parsing, checking, messages, remote checks, reset | `MCFormValidation`, `FormValidationProofs` |

### How the modules correspond to the code

**Checkout.** A request `r` is at `pc[r]`: `idle`, `reading` (AddItemToCart between
its two queries), `saving` (everything tracked, nothing written), `announcing`
and `reporting` (CreateOrder after its commit). One action is one handler up to
its first save: `AddItem`, `Increase`, `Decrease`, `UpdateQuantity`,
`RemoveItem`, `CreateOrder`, `UpdateProduct`. It puts into `tracked[r]` exactly
the columns that change detection will find changed (`Assign` drops an
assignment of the loaded value). `SaveChanges` writes them with absolute
values; `Savable` is what the database checks, an UPDATE or DELETE must find its
row and an INSERT must not; otherwise `Conflict` rolls back. `Rejected` stands
for every exit that throws before saving. `Abort` is the end of a request at
any await. `rowsPut`, `ledger` and `died` are history: rows put in less rows taken
out, the stock had every order been subtracted from it, and the orders whose
request died before it announced them.

**OrderStatus.** `Load` reads the order and applies `Order.ChangeStatus` (`MayChange`)
to the status it read; `Save` and `Publish` follow, each a step of its own.

**EventBus.** `Subscribe` is a round of `ExecuteAsync`; `Publish` and `PublishLost`
are `BasicPublish` with and without arrival; `Deliver` respects the prefetch of
one; a delivery is `handling`, then `acking` or `nacking`, and remembers its
channel. `ConnectionLost` opens a new channel and returns what was unanswered,
while the old handler goes on: its answer no longer counts. `Crash` stops the
process with its consumers. The broker (`Live`, `Unanswered`, `Returned`) is
external and modelled from how the code declares its queues.

**MessageLog** is what the publishers and subscribers may rely on: a log of messages
in the order of their publication, each lost at once or waiting until it is
settled, done or dropped, and no message settled before an older one of its
type. `EventBus!Log` maps `published` to the log and `Fate` to the fates.

**StatusNotices.** The variables of `OrderStatus` and `EventBus` side by side: the
messages published are the notices of `OrderStatus`, `Announce` is its `Publish`
together with the bus's `Publish` or `PublishLost`, and a `Crash` ends requests and
consumers at once, because they live in one process. `Tell` is the handler: it
looks up nothing but its message, and tells the customer. `late` marks orders
whose last news came from a handler the broker had given up.

**Addresses.** The mark is read with one query and saved later; SetDefaultAddress
has two queries and keeps its target as first read, hence `target`.

**Accounts.** A task is the start of a process or a request. Both run the two
look-ups of `CustomerFactory` (or of UpdateProfile) in steps of their own and
meet at the unique indexes (`Duplicate`). A process that fails while it seeds
exits and is started again. Signing out only drops the browser's cookie and is
not an action.

**Catalog.** Only the commands that look a name up have several steps; the others
write what does not depend on what they read. The reader opens a list, and
each page is a count followed by a page query. `steady`, `shrunk` and `grown`
record what happened to the list since the first page. A new product gets its id
and becomes visible in one step: creations that overlap, of which the one with
the lower id is committed later, are not covered: it would come in before products
already shown, and the reader would see one of them twice.

**Adapters.** A field's attributes become a sequence of rules: `Registered` lists
the adapters in the order of the script's last part, `AdaptBool`, `AdaptMinMax`
and the others are their functions, `SetRule` is `setValidationValues`. `HtmlRules`
are the rules that a field's HTML attributes give (`type`, `required`, `minlength`,
`maxlength`; not `min`, `max`, `step`, classes and `data-rule-*`, which no form with
these scripts has), and `Merged` is `rules()`, in which the parsed ones override
them. `Breaks` says when a value breaks a rule, for the rules that have a method:
lengths and two-sided ranges compare numbers, `min` and `max` texts. A name such as
`Address.City` is a sequence of segments, a message is the rule it belongs to.

**FormValidation.** JavaScript runs one handler at a time, so a handler is one
action, and what it does to validator and page is a function of `form`: `OnError`,
`OnErrors`, `OnSuccess` and `OnReset` are the handlers of the unobtrusive script;
`Element`, `Form`, `StopRequest` and the three answers are what `jquery.validate.js`
does around them. `rules` are the rules each field is checked by: those of its
HTML attributes, and for the fields in `ruled`, which are those in `settings.rules`,
merged with what the adapters made, so that a field a script adds is checked by its
HTML attributes even when its others were not parsed in time. The code merges at
every check; the model does it when the options are copied, since HTML attributes
and copied options stay as they are. A remote check sends a field that is not in the
form as if it were empty (`Data`). `RequestFails` is a request that nobody answers. The module
describes the script with jQuery in front of it; see below for the pages as
they are deployed.

## 3. The runs

| Run | Instance | Shows |
|---|---|---|
| `checkout_concurrent` | 1 customer, 2 products, 2 overlapping requests, quantity and stock up to 2, 2 orders | no row sold twice or lost (`RowsBalance`), no stock disappears (`NoUnitVanishes`), no order announced twice (`AnnouncedOnce`), and none left unannounced but by a request that died (`SilentOnlyIfDied`) |
| `checkout_serial` | 2 customers, 2 products, 1 request at a time, 2 prices, stock edits | the code implements `Shop`; the stock is exact |
| `checkout_reliable` | 2 customers, 1 product, 2 requests, none dies | every order is announced, every low stock reported |
| `checkout_lost_update` | 2 customers, 1 product, 2 requests | **violated**: the stock is exact |
| `order_status` | `StatusNotices`: 2 orders, 1 administrator at a time, 2 messages, 2 failures | implements `OrderLifecycle`; the last message is current (`NoticesCurrent`); the customer ends up with the status the order has and never hears of a forbidden change (`CustomerUpToDate`, `ToldLawfully`), late handlers aside |
| `order_status_race` | 1 order, 2 administrators | **violated**: a success is not reversed |
| `event_bus` | 2 queues, 2 messages, 2 failures | implements `MessageLog`; the four safety properties; every message is answered |
| `addresses` | 2 customers, 3 addresses, 1 request at a time | one default address; nobody writes another's |
| `addresses_race` | 1 customer, 2 requests | **violated**: one default address |
| `accounts` | 2 processes, 2 requests, 2 e-mail addresses, 2 phones, 2 accounts, 1 crash | unique contacts, one administrator, the shop opens |
| `catalog` | 2 names, 1 naming request, pages of 2, 2 categories, 3 products | unique names; what a reader of the pages sees |
| `form_validation` | 2 fields with HTML attributes of their own, one with a range and checked by the server with the other, one added by a script and compared with the first; the server rendered the first as wrong or not | only right fields are sent (`SentIsRight`), refusals name what is wrong (`RefusalExplained`), the page shows what the validator holds (`ErrorsShown`), no error sticks (`ErrorsRechecked`), answers fit their data (`AnswersFit`), pending checks are counted (`PendingCounted`), the rules ask what the attributes ask (`RulesExact`) |

Bounds. `MaxOrders`, `MaxRows`, `MaxNotices`, `MaxMessages`, `MaxFailures`,
`MaxAddresses`, `MaxCustomers`, `MaxCrashes`, `MaxCategories` and `MaxProducts` stop
only what would grow without end: an action that would begin something new is
disabled, those already begun go on, so overlapping requests still exceed
`MaxOrders`, by at most one order each, and `EveryOrderAnnounced` asks for these
orders too. Two requests suffice for every race of the code: each is between one
read and one foreign write. Two products let a checkout fail on one of them;
quantity 2 tells "one unit" from "the quantity". Two messages on a queue, or one
on each of two, tell order and routing; two failures allow a second redelivery.
Three products with pages of two give a full and a partial page. The symmetry
of `checkout_concurrent` is over requests and products, which have the same
initial stock, and the run has no temporal property. In `form_validation` one
field has a format, a range with both bounds, `maxlength` in HTML, a remote check
with the other field's data and a message that is replaced; the other is a number
by its HTML type, required, compared, and keeps its own text. Two fields are what
a rule, a remote check or a list of errors can relate, and two values each tell
right from wrong; nothing in the module counts up. A value that only an HTML
attribute refuses occurs while the first field is not parsed.
`event_bus` and `order_status` have `CHECK_DEADLOCK FALSE`: once `MaxMessages` (or
`MaxNotices`) are published and answered and `MaxFailures` have happened, nothing
is left to do.

Fairness. `Checkout!FairSpec` says that a request that has begun goes on (weak
fairness of `Continue`) and that none dies: `EveryOrderAnnounced` is false
otherwise, since there is no outbox, and the module says so. `EventBus!FairSpec`:
the broker delivers what it can, handlers return or throw (they only log) and
the consumer service is started with its process. `Accounts!FairSpec`: a process
that is down is started again (`restart: on-failure`, `docker-compose.yml:28`)
and its start-up goes on. No request and no user is fair.

### What the violated runs show

1. *Lost stock.* `CreateOrderHandler.cs:52` writes `StockQuantity - Quantity` of the
   level it loaded: two overlapping checkouts decrease it once. Use case 8 of
   `docs/use-cases.md` (line 195) says that the stock decreases. The damage is
   one-sided: the stock is never too low (`NoUnitVanishes`).
2. *A success reversed.* `Order.ChangeStatus` refuses Success to Failed, but is
   asked about the status that was read (`UpdateOrderStatusHandler.cs:30`).
3. *Two default addresses.* `AddAddressHandler.cs:20` and
   `SetDefaultAddressHandler.cs:23` unmark what they have read.

Met while modelling, without a violated run:

- The log says "Re-queuing." and `BasicNack` has `requeue: false`
  (`RabbitMqConsumerService.cs:86-89`): the message is dropped, as `Nack` says.
- A handler that the broker has given up may come in last and report an old
  status; `CustomerUpToDate` and `ToldLawfully` leave exactly those orders aside.
- The validation scripts need jQuery, which neither `_Layout.cshtml:162` nor
  `_ValidationScriptsPartial.cshtml:1-2` includes: on the sign-in and registration
  pages they fail when they are loaded, and only the server checks.
- A range with one bound is compared as text: the rule `min` or `max` gets the
  attribute's text (`jquery.validate.unobtrusive.js:374`), and only the bounds of
  the two-sided rule are made numbers (`jquery.validate.js:1347-1357`, 1496-1503).
  `nonalphamin` with 0 asks for one such character all the same (line 357 of the
  script). `RulesExact` is therefore about forms without these, see section 4.
- When the last answer refuses its field, the submission is called off and the
  summary lists the errors as they were last found
  (`jquery.validate.js:1145-1147`): a field that was put right without a key or
  the loss of focus since may still be named. `RefusalExplained` asks less there
  than of a check of the whole form.
- `parse` promises to enable validation of the fields it finds
  (`jquery.validate.unobtrusive.js:230-232`), but an attached form keeps the copy
  of the options it was attached with; hence `SentIsRight` asks of a field that
  was parsed later only what its HTML attributes do. The advice on `skipAttach` (line 182) is the
  reverse of what `parse` does (line 246), and `addMinMax` is called without the
  names of all its rules for minlength and maxlength (line 375), which gives a
  rule "undefined" that has no method.
- A reset does not withdraw the wish to submit: a form that waits for an answer
  is still sent when the answer comes (`formSubmitted`). A remote check that
  fails keeps its field pending until the field is edited.
- `(pageNumber - 1) * pageSize` (`ProductReadRepository.cs:67`) wraps: page
  715827884 with six per page skips 2 products.
- Use case 4 says that adding a product that is already in the cart increases its
  quantity, `Cart.AddItem` (line 25) throws; use case 6 says that quantity 0
  removes the row, `CartItem.UpdateQuantity` (line 43) throws.
- `ProductController.Edit` (lines 59-72) fills the form without stock and
  category, so an untouched form resets them; no unique index keeps category
  names apart, so overlapping requests can give one name twice.

## 4. The proofs

All are for every value of the constants, under the `ASSUME`s of the modules
(bounds are naturals, initial stock and price have their types, tasks are
disjoint), which TLC evaluates in the runs.

| Theorem | Statement | Argument |
|---|---|---|
| `CheckoutProofs!TypeCorrect` | types, stock never negative | `TypeInv` adds to `TypeOK` what `tracked` may hold at each place of `pc` |
| `CheckoutProofs!RowsBalanced` | `RowsBalance` | a row is inserted only where there is none and deleted only where there is one, so a commit moves it between the three counts |
| `CheckoutProofs!OrdersAnnouncedOnce` | `AnnouncedOnce` | the id of a pending announcement is of a committed order, held by one request and not yet published |
| `CheckoutProofs!OnlyTheDeadAreSilent` | `SilentOnlyIfDied` | an order is committed by a request that goes on to announce it, and leaves that place by publishing or by dying (`SilentInv`) |
| `CheckoutProofs!NothingVanishes` | `NoUnitVanishes`, without stock edits | `CoverInv`: what a checkout will write plus what it sells covers the ledger, which can only fall in the meantime |
| `CheckoutRefinement!SerialImplementsShop` | `Checkout` implements `Shop`, one request at a time | `FreshInv`: tracked changes are those that would be prepared from the database as it is now |
| `CheckoutRefinement!SerialStock` | stock is exact, one request at a time | from the same invariant |
| `OrderStatusProofs!TypeCorrect`, `SerialImplementsLifecycle`, `SerialNoticesCurrent` | `OrderStatus` alone: types, where no request that has read a failed or refunded order goes on with another status; refinement and current messages, one request at a time | `FreshInv`: the status read is the status now; `SavedInv`: a request about to publish names the status the order has, and the order is known to be unannounced |
| `OrderStatusProofs!NoticesSettledOnce` | `StatusNotices`: the messages are in one place and settled in order, any number of administrators | every step of the composition is a step of the bus or leaves it alone (`BusStep`), so `EventBusProofs` applies, by INSTANCE |
| `OrderStatusProofs!NoticesImplementLifecycle`, `NoticesStayCurrent` | refinement and current messages, through crashes, one request at a time | a crash ends requests and writes nothing |
| `OrderStatusProofs!CustomersUpToDate`, `CustomersToldLawfully` | `CustomerUpToDate`, `ToldLawfully`, one request at a time, any number of failures | `NoticesInv`, see below |
| `EventBusProofs!TypeCorrect`, `MessagesOnce`, `InOrderHandled`, `AckedAfterHandled` | the four safety properties, any number of messages, crashes and lost connections | `IInv`: besides the properties, a delivery is of its queue's type, on a channel that was opened, and the older messages of its type had their turn (`DeliveryInv`); what is acknowledged was handled (`AckedInv`); handlers completed, running and to come are at most one more than the failures (`RunsInv`) |
| `EventBusProofs!BusImplementsLog` | `EventBus` implements `MessageLog` | an answer counts only on the live channel, where the message in hand is the oldest of its type that waits; all other steps leave every fate alone |
| `AddressesProofs!TypeCorrect`, `SerialOneDefault` | types and ownership; one default address, one request at a time | `FreshInv`: the table as it will be written has one default address |
| `AccountsProofs!TypeCorrect`, `ContactsUnique`, `FirstIsAdmin`, `OneAdminSeeded` | the four safety properties, any number of processes and requests | one inductive invariant `IInv`: accounts that have not moved hold a contact of the administrator's, so a second seed meets a unique index |
| `CatalogProofs!TypeCorrect`, `SerialUniqueNames` | types; unique names, naming requests that do not overlap | `SavingFree`: the name about to be saved is free |
| `CatalogProofs!NothingTwice`, `NothingMissed` | what a reader of the pages sees, any page size and list | `ReadInv`: what was seen stands in the pages shown (`SeenStay`), what was there all the time and stands in them was seen (`SteadySeen`); positions are cardinalities of what is listed before |
| `FormValidationProofs!TypeCorrect`, `PendingIsCounted`, `AnswersAlwaysFit`, `ErrorsAlwaysShown`, `ErrorsAlwaysRechecked` | the invariants of `FormValidation`, for any fields, values, attributes and server | `IInv`, one invariant of page and validator, see below |
| `FormValidationProofs!RulesStayExact`, `SentRight`, `RefusalsExplained` | the rules in force stay exact, only right fields are sent, refusals say what is wrong, if `AdaptersExact` | from `IInv`: a verdict without an error is that of the rules on the values as they are, or of an answer about exactly these data |

Hardly any of the properties above is inductive by itself: each says something of
committed rows, settled messages or what a page shows, while what makes it true
is what requests, handlers and scripts in progress hold. The strengthenings say
exactly that.

*From the status to the customer.* `NoticesInv` joins what the parts keep: of the
requests, that the messages are current (`CurrentInv`) and tell, in their order, a
life the order may have, up to its status (`LawfulInv`); of the bus, `EventBus`'s
own inductive invariant; of both, that when a message is in hand or has been
handled, every older one is settled (`TurnInv`); of the customer, that he has heard
the latest message that was handled, unless a late handler told him (`HeardInv`).
A message told on the live channel is then the latest one handled (`TellsLatest`).
TLC checked the last three parts on the instance of `order_status` before they
were proved. Two administrators at a time break `ToldLawfully` as they break
`SuccessNotReversed`, so the hypothesis of one request at a time is needed.

*The form.* `IInv` adds to the properties what JavaScript keeps between two
handlers: a request in flight sends what is remembered of its field unless a
reset has forgotten it (`AnswersKept`), only fields with rules are asked about or
shown as wrong by the validator, and none before there is one (`Counted`,
`Rechecked`, `Watched`), every rule set came from the adapters, at a moment when
the fields of the page as loaded were there (`FromTable`), and the rules in force are
those of the HTML attributes, merged with such a set for the fields in `ruled`
(`Translated`). `ErrorsRechecked` and `PendingCounted` hold together or not at all: a
reset clears one and leaves the other.

*Assumptions.* `MarkupAssumption` says of the attributes that the adapters make
numbered rules of them that have methods: `data-val-minlength` with `-max` would
not (section 3), and no field of the shop has it. `AdaptersExact`, the hypothesis
of the last three theorems, says that the adapters and HTML attributes translate
each field exactly: a form with a one-sided range or a `nonalphamin` of 0 does not
satisfy it, and the scripts do send such a form with a wrong value. It is a
statement about constants, but `ParsedRules` is a fold over the list of adapters, and what a fold yields for every list is an induction over data. On the
instance of `form_validation` TLC evaluates what it implies, `RulesExact`, in every
state. The theorems do not hold without it, since the attributes may ask for a
comparison with a field that is not there yet.

Every safety property and every action property that a run with "pass" checks is
stated by a theorem. Only model-checked, because TLAPS does not prove liveness
under fairness: `EveryOrderAnnounced`, `LowStockReported`, `EveryMessageAnswered` and
`ShopOpens`. What the folds of `Adapters` compute is evaluated for the instance only.

## 5. Not modelled

Password hashing, validation on the server (formats and lengths, before a handler
runs), layout and notifications: no state. Of the vendored scripts, jQuery and
bootstrap; of the validation scripts, the text of messages, the classes of the
inputs, hidden fields and buttons that cancel. Payments and reviews: no code uses them. The other read
models and the analytics: single queries; see the plan. In `Checkout`, the
address and recipient of an order and deletion of products; in `Addresses`, the
text of an address. The broker's own persistence and what the client library
does when threads share a channel are external. An account's names, birthday
and password are left out of `Accounts`.

## 6. Plan

Done, in the order of importance: checkout with its abstract specification;
order status with its own; event bus with its own, and composed with order
status; addresses; accounts; catalogue; validation in the browser; for each the
types, the safety properties and the refinements proved.

Next, the models:

- compose `Checkout` with `EventBus` as well, to follow the order and low stock
  messages from the commit to their handler, with the crash in between;
- the cart page and the order lists, which join current prices and names with
  what was ordered; deletion of products while they are in carts;
- analytics as pure operators against a reference definition;
- page numbers typed by hand, with 32-bit arithmetic;
- category names with overlapping requests.

Next, the proofs:

- what overlapping requests still guarantee for addresses, that every mark was
  asked for;
- `Adapters`: that each kind of adapter by itself is exact, which is the part of
  `AdaptersExact` that needs no induction.
