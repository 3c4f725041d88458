# BuyWise: specifications, model checking and proofs

TLA+ modules for the stateful core of the BuyWise backend
(`src/backend/app`), TLC configurations that check them on small instances, and
TLAPS proofs of what holds for every instance. Paths below are relative to
`src/backend/app` unless they start with `src/`.

BuyWise is a price-comparison service: a FastAPI application on PostgreSQL, a
set of search-data vendors it pays per call, Razorpay for subscriptions, an
e-mail provider, and jobs that run from Celery, from a scheduler's HTTP call or
by hand. Requests run concurrently in several worker processes; the database is
the only state they share.

## How requests are modelled

Every HTTP request is one database transaction (`core/database.get_db`: commit
after the handler, rollback on an exception). The modules use these facts of
PostgreSQL's READ COMMITTED and of SQLAlchemy, because the code relies on them:

* a SELECT sees what was committed before it, while an object that is already in
  the session keeps the values it was loaded with;
* a flush sends only the columns whose value differs from the loaded one, so
  assigning the loaded value writes nothing;
* `x.n += 1` on an object writes the *loaded* value plus one;
* an UPDATE or an INSERT under a unique index holds its row (or its key) until
  the transaction ends, and others wait for it;
* a query first flushes what the session changed (autoflush).

A request is a slot `t \in Tx` that goes through a few steps: begin (what is
loaded and checked), at most one call to an outside service, a step that reads
and decides, and a commit that applies the writes. Steps of different slots
interleave. Any request may instead abort, which stands for exceptions, database
errors and crashes. The commit is taken to run before the response is seen by
the client.

## Components

| Component | Code | State | Operations | Module |
|---|---|---|---|---|
| Billing and subscriptions | `services/subscription_service.py`, `api/v1/billing.py`, `providers/payments/razorpay.py` | `payments`, `subscriptions`, `webhook_events`, `users.plan` | create order, verify checkout, three webhook events, status, entitlements, cancel, delete account | `Billing`, `Ledger`, `BillingProofs` |
| Sign-in sessions | `services/auth_service.py`, `core/security.py` | `users.token_version`, `password_hash`, `refresh_sessions` | login, refresh with rotation, logout, logout everywhere, password change, deletion, cleanup | `Sessions`, `SessionsProofs` |
| Price alerts | `services/alert_service.py`, `services/notification_service.py` | `price_alerts`, `notifications` | create, pause, resume, delete, `check_alerts` | `Alerts`, `AlertsProofs` |
| Jobs | `workers/jobs.py`, `workers/tasks.py`, `api/v1/internal.py` | `job_runs` | `run_job` around each job | in `Alerts`, `Sessions`, `SearchData`, `Trust`, `Offers` |
| Search-data cache | `core/cache.py`, `models/cache.py` | a dictionary per process, `api_cache`, when the database last failed | get, set, purge, stale read | `SearchData`, `SearchDataProofs` |
| Vendors and breakers | `providers/search_client.py`, `providers/serper/client.py`, `providers/chain.py`, `providers/registry.py` | a circuit breaker per process and vendor | search, fall through to the next vendor | `SearchData` |
| Vendor engines | `providers/serpapi/*`, `providers/serper/*` | none | vendor JSON to listings | not modelled |
| Search orchestration | `services/search_service.py`, `market_filter.py` | background lookups | typed, link and photo search, persist, healing, store lookups, catalogue fallback | `Listings`, `Shopping`, `ShoppingProofs`; overlapping persists in `Catalogue`, lookups in `Offers` |
| Catalogue and offers | `services/catalog.py`, `offer_service.py`, `catalog_browse.py` | `products`, `offers`, `price_history`, retailers | upsert, record offer, retire, purge history, refresh, compare, preview, browse | `Catalogue`, `CatalogueProofs`, `Offers`, `OffersProofs`, `Plausible`, `Ranking`, `Shopping`, `ShoppingProofs` |
| Matching | `product_matcher.py`, `product_normalizer.py`, `family_service.py` | none | attributes, canonical keys, verdicts, families | `Titles`, `Matching`, `Shopping`, `ShoppingProofs` |
| Pricing | `price_engine.py`, `price_intelligence.py`, `price_history_service.py` | none | true price; statistics and buy/wait signal | true price in `Listings` |
| Trust | `trust_engine.py`, `trust_service.py`, `evidence_analyzer.py` | `trust_scores`, `trust_evidence` | gather, assess, badge | `TrustEngine`, `Trust`, `TrustProofs` |
| Recommendation, agent | `recommendation_engine.py`, `shopping_agent.py` | none | picks; searches and compares for a question | `Ranking`, `Shopping`, `ShoppingProofs` |
| Account | `services/account_service.py` | `saved_products` and everything deletion touches | save, dashboard, delete | deletion in `Billing` and `Sessions`, the saved list in `Shopping` |
| Community | `services/community_service.py` | `community_reports`, `report_flags` | report, flag, moderate | `Trust` |
| Affiliate, LLM, OAuth redirect, schema, curated and demo data, frontend | | | | not modelled |

How they interact: search and the price-refresh job ask the vendors through the
cache and write the catalogue; the lowest active exact offer of the catalogue is
what alerts compare with; `entitlements_for` in billing decides limits in
alerts, saved products and search; account deletion reaches into billing,
sessions and alerts; approved community reports are evidence for trust; trust
scores order the offers.

What is hard in each, and what makes it correct:

* **Billing.** One payment arrives up to three times (the browser's verify, two
  capture webhooks), in any order, concurrently, again after a lost answer, and
  mixed with failures of earlier attempts. Correct means: credited only if
  authorized, credited in the end if captured, once, without losing or giving
  away time, and `users.plan` agreeing with the rows.
* **Sessions.** Requests carry state loaded before a sign-out everywhere
  committed. Correct means that nothing obtained from old credentials is accepted
  afterwards, and that a rotated refresh token is dead.
* **Alerts.** A run is one long transaction with e-mails inside, over rows the
  user changes meanwhile, and may fail after mails are out. Correct means spaced
  notifications, exact counters, and no resurrection of deleted alerts.
* **Search data.** The same answer lives in several processes and in the
  database with different lifetimes, either tier may be missing, and vendors
  fail in several ways while other calls are in flight. Correct means that what
  is not labelled stale is fresh, that nothing is bought twice within its
  lifetime, and that a stale answer is there when the vendors fail.
* **Catalogue.** Concurrent searches insert and enrich the same products, in a
  batch that is undone as a whole when one row conflicts. Correct means one row per
  canonical key, every offer on a row that exists, a conflict that costs a retry
  and not the search, and an end to every search.
* **Offers.** The offers of a product are rewritten by searches, page views, a job
  and lookups that outlive the search that started them; implausible ones are
  retired and may be found again. Correct means one row for each shop and
  condition, no price observation of what was retired, lookups spaced, and a
  search that answers although its lookup does not.
* **Search and pages.** Titles decide what is one product, and a dozen replies show
  what is stored. Correct means that a card shows one product at a price one can
  pay, and that neither prices the viewer has not paid for nor offers of flagged
  shops leave where the code withholds them.
* **Trust.** Assessments overlap, lose their batch to a unique constraint and are
  repeated; verdicts rest on thresholds over rounded numbers. Correct means that
  no shop is flagged on thin or biased evidence, that flags count users, and that
  evidence arrives in the end.

## Modules

### `Billing`, with `Ledger`

| State | Code |
|---|---|
| `payments`, `subs`, `plan`, `deleted`, `events` | the committed tables: `payments.status`, `subscriptions`, `users.plan`, `users.deleted_at`, `webhook_events` |
| `pc`, `req`, `load`, `write` | a request in flight: where it is, what it handles, the `users.plan` it loaded, what it will write |
| `gateway`, `pending` | Razorpay: its view of each order, and the events it has no 2xx answer for |
| `now`, `credits`, `refused` | the clock, and history for the properties |

| Action | Code |
|---|---|
| `CreateOrder` | `create_order`, committed together with the payments row |
| `VerifyBegin`, `VerifyAgain` | `verify_checkout` up to the call to Razorpay, and its early return for a paid order |
| `FetchConfirms`, `FetchRefuses`, `FetchUnreachable` | the outcomes of `fetch_payment` |
| `WebhookCapture`, `WebhookFailure`, `WebhookNote`, `WebhookDuplicate` | `handle_webhook` and `_process_event` per kind of event |
| `MisdeliveredBegin`, `MisdeliveredReject` | a delivery whose signature does not verify |
| `MarkPaid` | `_mark_paid` and `_activate`, with `active_subscription` |
| `ReadStatus`, `ReadCancel`, `RefuseCancel`, `ReadDelete` | `status` / `entitlements_for`, `cancel`, `delete_account` |
| `Commit`, `Abort` | the end of `get_db`; for a webhook also whether Razorpay saw the answer |
| `Authorize`, `Decline`, `Capture`, `Lapse`, `Tick` | Razorpay and time |

The order's status is read when a request begins and not again in `MarkPaid`:
that is what the code does, and the reason for the finding `BillingDouble`. A
webhook for an order without a payments row, with a wrong amount, or whose
processing raises, changes nothing but the event record, and all three are
`WebhookNote` on an event of `BadEvent`. `Ledger` is the abstract promise: an
order is authorized, then credited. `Billing` implements it with
`authorized <- {o : gateway[o] \in {"authorized", "captured", "lapsed"}}`.
`Ledger!OnceSpec` allows one credit per order.

### `Sessions`

`ver`, `password`, `deleted` are columns of `users`; `sessions`, `revoked` and
`expired` are the `refresh_sessions` rows; `tokens` is the sequence of token
pairs answered so far, each with the `token_version` in it. `root` and `pw`
(history) say at which epoch and with which password the credentials behind a
token were checked; a refresh inherits them. `load[t]` is the version a request
loaded: tokens are made from it (`Issue`), and a revocation writes it plus one.
`RevokeLock` is the autoflush in `logout_all` that takes the lock on the users
row; sign-ins write `last_login_at` and wait for that lock (`Unlocked`).
`RowGone` is the `StaleDataError` when the cleanup job has deleted the session
row a request is about to update.

### `Alerts`

`row` and `notes` are the tables, `run[j]` the transaction of a check run: what it
selected (`seen`), which rows it has flushed and locked (`held`), what it will
write (`hit`, `told`, `made`). `Visit` is one turn of the loop in `check_all`, and
`Notify` the mail. `RunCommit` writes, per row, only the columns that differ from
what was *selected* (`Checked`), so a delete that committed meanwhile stays.
`RunFail` is `run_job`'s rollback. Requests of the account are begin and commit.

### `SearchData`

`memory[w]` is the dictionary of process `w`: its entries with their places in the
order of insertion, from which the first is evicted. `rows` is the `api_cache` table, `off[w]` and `breaker[w][v]` the time left without database and
with the breaker of vendor `v` open. Time is kept as ages and as time left, so
the model is finite without a bound on the clock. A request (`slot[t]`) looks in
the cache, looks at the breaker, calls the vendor, stores, and on an empty answer
or a failure goes on to the next vendor (`Answered`, `Failed`). Each class of
vendor answer is an action: `VendorAnswers`, `VendorFails`, `VendorPauses` (429
without a quota marker), `QuotaGone`, `KeyRefused`. `Restart` loses a process.
Two clients exist in the code with the same control (SerpApi and Serper); they
differ in whether a quota answer looks for a stale one, which `QuotaGone` has as
its second parameter.

### `Catalogue`

| State | Code |
|---|---|
| `products`, `retailers`, `offers` | the committed tables; an offer is the product row and the retailer it refers to |
| `tx[t].seen`, `known` | `Prefetched` and the retailers in `PersistCache`, as read |
| `tx[t].plan` | the product of each listing group so far (`planned`) |
| `tx[t].todo` | what the next flush writes, in the order it writes it |
| `tx[t].own`, `changed`, `opened` | rows the open transaction inserted or updated, and so holds |

| Action | Code |
|---|---|
| `Begin`, `PreloadRetailers` | `_persist_groups` up to the batch: `prefetch_products`, `preload_retailers`, `preload_sellers` |
| `PlanBatch` | `_upsert_groups(deferred=True)`: no query and no flush |
| `WriteProduct` | one row of a flush |
| `BatchConflict`, `Reread` | the `IntegrityError` of the batch's savepoint, and the second prefetch |
| `SingleKnown`, `SingleUnknown`, `Ask`, `Created`, `SingleConflict`, `AskAgain`, `AllPlanned` | `_upsert_groups(deferred=False)`: one `upsert_product` per group, with autoflush before each query and a savepoint of its own |
| `RecordOffers`, `WriteShop`, `ShopConflict` | `_record_offers`: retailers the preload did not find are inserted outside any savepoint |
| `Commit`, `Abort`, `DeadlockVictim` | the end of the transaction |

The unit of work updates rows in the order of their keys and inserts them in the
order they were added: `InOrder` lists a flush accordingly (`ByRow`, `ByPlace`), since
who waits for whom depends on it. A row is its canonical key and the search that made it, so a row that a
savepoint undid differs from the one that won. An insert waits for another open
insert of the same key and conflicts if that one committed; an update waits for
the row. A product found without need of an identifier may still be written (a
photo, an attribute): in the batch the listings bring one to every found product
or to none (`touched`), which keeps both extremes of who locks what.

### `Offers`

| State | Code |
|---|---|
| `offers`, `history`, `attrs` | the committed rows: offers of one product, its price observations, and in `attributes` when it was enriched, when that was tried and whether several shops are said to sell it |
| `session[p]` | a database session: rows as loaded (`loaded`) and as changed (`rows`), observations to add (`noted`) and to remove (`purged`), the lookup it waits for |
| `now` | time in units of the retry interval |

| Action | Code |
|---|---|
| `OpenView`, `OpenJob`, `OpenSearch` | a product page (`OfferService.compare`), `refresh_prices`, a search |
| `Answered`, `RefreshRaises` | `refresh_offers` after its await of the vendors |
| `RecordSearch` | `_upsert_groups` and `_record_offers` for this product |
| `Heal` | `retire_implausible_offers` and `purge_implausible_history` |
| `CommitMark`, `Launch`, `TimedOut`, `Rebuild` | `_enrich_top`: mark and commit, start the lookup, wait for it no longer than the time-box, read the card anew |
| `OpenLookup` | `enrich_in_own_session` in a session of its own |
| `Commit`, `Restart` | the end of a session; a process that goes down with everything in flight |

`Plausible` is the price floor: a fifth of the upper quartile of at least three
prices (`implausible_price_floor`). `Listing.odd` stands for a title that is an
accessory or a rental.

### `Titles`, `Matching`, `Listings`, `Ranking`: the pure half of a search

A title is the record of what the expressions of `product_normalizer` find in it
(brands by where they were found, sizes, lines mentioned, model codes, words);
`Attributes` is what the code makes of that, `CanonicalKey` the key a product is
stored under. `Match` is `product_matcher.match_products`: the verdict, its
confidence in thousandths, and what spoke against the match. `Listings` filters a
vendor's answer (market, accessories, prices far below their family), groups it
and compares the groups with what was asked for. `Ranking` is `OfferService.rank`
and the choice of the free preview. They have no state; `Shopping` puts them to work.

`Taken` picks places of a sequence and orders them by a weight, equal ones as they
came: a Python comprehension (`Kept`) and a stable sort. It is defined by the position
of each element and not with `SelectSeq` and `SortSeq`, which are recursive and about
which nothing could be proved. `Listing` is what a vendor's answer may hold: titles of
`Title`, shops of `Merchant`, any price and shipping, and identifiers with values of
`IdValue`; that answers, links, questions and scores are such is assumed by name
(`AnswerAssumption`, `QuestionAssumption`, `ScoreAssumption`, `WordsAssumption`).

### `Shopping`

| State | Code |
|---|---|
| `products` | stored products by canonical key and condition, with their offers and observations |
| `trust`, `plan` | stored trust scores; the viewer's plan |
| `reply` | what the last request showed: cards, offers, figures (prices beside a name), and shops |

Each request is one action, from what it reads to the whole reply: `TextSearch`,
`LinkReached` and `LinkUnreached` (a pasted link whose page answers or not), `PhotoSearch`, `ComparePage`, `Recommend`, `AskAgent`, `AskAbout`,
`ProductPage`, `HistoryPage`, `TrustPage`, `FamilyPage`, `CataloguePage`, `SavedPage`, and the job
`RefreshJob`. `Persisted` is `_persist_groups` with its healing; `Withheld` is
`withhold_prices`. Requests here do not overlap: `Catalogue` and `Offers` are about
that. Whether a view refreshes is left open, since `Offers` has the conditions: the
lookup's answer may be empty. A curated shop without a score gets its baseline from the
first comparison or trust page that meets it; here `Assess` has stored it just before.

A listing is recorded under the condition it carries. Grouping sets that from the title
(`Titled` in `Place`), so a search records "used" for a renewed phone that its vendor
calls new; a link's own offers, and what a view or the job finds, never pass through
grouping before they are recorded and keep the vendor's word.

`PricesWithheld` is about the replies modelled here. Prices may be in two of them, the
preview of a comparison and the list of saved products; shops in two, that preview and
the trust page, which has no plan check (see "Seen while modelling"). Routes that are
left out are listed under "Not modelled".

`CardPriceIsOnOffer` speaks of the offers that are on show when the card is read and are
neither a part nor a rental of the product (`Plain`). It does not say that another look
would keep them all, which is not so (see "Seen while modelling").

### `Trust`, with `TrustEngine`

`TrustEngine` is pure: `AnalyzeItem` (a page's words and site to sentiment, severity
and confidence, with leading queries discounted), `PolicyEvidence`,
`CommunityEvidence`, `Refine` (what an AI provider's answer does to a piece: topic,
sentiment and severity, each kept if the answer leaves it out or makes no sense, and a
tenth of confidence for every row about it, up to 0.85), `Assess` (score, confidence, risk
in thousandths) and `VerificationStatus`. `Refinements` of `Trust` are what a batch may
become: of the pages at most 25 are sent (`ReadAtOnce`), and any of these may come back,
in one row or more.

| State of `Trust` | Code |
|---|---|
| `evidence`, `scores`, `byUpdate` | `trust_evidence`, the latest `trust_scores` row as the items it was calculated from, and the retailers by `updated_at` |
| `reports`, `flags` | `community_reports`, `report_flags` |
| `tx[t]` | a request or job: its batch, what it collected and inserted, scores not yet committed |

| Action | Code |
|---|---|
| `AssessNewRetailers`, `RefreshTrust`, `GetRetailerTrust`, `EnsureBaselineScore` | the two jobs, a live refresh, the baseline of a curated retailer |
| `Collect`, `Store`, `StoreAfterWait`, `CollectionFails` | `refresh_evidence` up to its flush, which waits for another transaction's insert of the same fingerprint and is refused if that commits |
| `ComputeAndStore`, `Commit` | `compute_and_store`, and the end of the job or request |
| `Create`, `InsertFlag`, `CommitFlag`, `CommitModeration` | the community requests, from a report loaded before (`LoadReport`) |

## Runs

| Run | Instance | Distinct states | Shows |
|---|---|---|---|
| `BillingRequests` | 1 order, 2 concurrent requests (verify, webhooks, status, cancel, delete), all faults, one capture event unprocessable and the other refused once, fair redelivery | 150 000 | types; a capture is acknowledged only once recorded (`CaptureAckedOnlyIfRecorded`) and recorded only with its credit (`RecordedCaptureIsCredited`); an event is handled by one request at a time; `Billing` implements `Ledger`; a captured payment is credited in the end |
| `BillingSerial` | 3 orders, two monthly and one yearly, entitlement checks, 1 request at a time, clock to 3 | 740 000 | what is marked paid has a row of its plan, one running row, no paid time lost or given away, the plan follows the subscription, one credit per order (`LedgerOnceSpec`) |
| `BillingDouble` | 1 order, 2 requests, no faults | | *violation*: verify and a webhook activate one order twice |
| `BillingRefused` | 1 order, 1 request | | *violation*: a delivery refused for its signature leaves no record |
| `Sessions` | 2 requests, 3 token pairs, 2 sign-outs everywhere | 1.1 million | tokens obtained in flight during a sign-out everywhere or password change are dead; a rotated token is refused |
| `Alerts` | a target-price and a percent-drop alert, 1 run, 1 request, prices 0 to 2, clock to 2, 2 triggers | 3.4 million | notifications at least the cooldown apart, counters exact, deleted stays deleted |
| `SearchData` | 1 process with 2 vendors, and 2 processes with 1 vendor; 2 requests | 1.4 million | freshness, propagation of refreshed answers, stale cover, paid once |
| `Catalogue` | 2 searches, 3 keys, 4 identifiers, 1 retailer, 3 batches | 78 000 | offers refer to rows that exist (`OfferOfItsProduct`); a conflict finds the row that won; a batch never conflicts with itself; every search ends |
| `Offers` | 3 shops, 1 request and 1 lookup at a time, 3 requests over 3 intervals, restarts | 56 000 | a lookup finds its product; one row per source and no observation of a retired offer; lookups spaced; every search answers |
| `Trust` | a curated and an unknown retailer, 3 pages found by leading queries, 1 report, 2 users, 2 transactions; an AI provider that may read any of the pages once or twice | 130 000 | flags count users; no flag on thin evidence, nor on pages of leading queries that the discount reaches; the web's evidence arrives |
| `Shopping` | 5 shops (one abroad), a phone in two sizes, its higher tier, a renewed one and a case in 3 vendor answers, a link, 2 queries, 2 questions, 2 requests | 23 000 | prices and shops withheld in every reply that is not meant to show them; the preview hides the picks; flagged shops not compared; card prices are on offer; one card per product; used apart from new |
| `ShoppingTiers` | the same | | *violation*: a 17 Pro is shown on the card of the 17 |

Every property of a passing run has a mutant in `PROJECT.json`: a plausible slip
in one of the modelled definitions that breaks it. The mutated forms are in the
modules, each marked "Mutant" in its comment.

### Why the bounds are enough

* *Two requests in flight.* Every hazard here is between one request that holds
  something loaded and one that commits; the third is covered because after a
  commit a slot takes a new request. The `Sessions` instance with 3 token pairs
  reaches sign-in, refresh and revocation in every order.
* *Orders and periods.* `_activate` distinguishes no running row, one of the same
  plan and one of another; two monthly orders and one yearly one reach all three,
  in every order. The clock passes the end of a monthly row (2 units) and stays
  within a yearly one (3).
* *One query.* Keys do not interact except through `MemCap`, which is 0 so that
  eviction happens with the keys of two vendors; `MemTtl` is 0 and `Ttl` 2 so
  that copy and row expire at different times; `Grace` 1 is there for rows kept
  past expiry. The code's constants are one hour, six hours and more, seven days.
* *Two alerts*, one of each kind, are visited in either order, so a run holds a
  lock while it looks at the other.

* *Batches.* One batch has two groups of one key, one meets a product whose ASIN
  its listings disagree with, one joins a product by its ASIN alone and meets the
  others' products in the opposite order, so searches wait for each other in both
  ways: insert behind insert, and update behind insert. A cycle of waiting needs
  two searches; longer cycles are between the same kinds of steps.
* *One lookup slot.* A second lookup while the slot is taken never answers
  (`Launch`), which is the worst a slow vendor can do to a search. Three requests are
  enough for an offer to be recorded, retired, found again and retired, and for a
  search to follow another within and after the retry interval. Three sources are
  the least with which a price floor exists.
* *Two requests in Shopping.* A page or a second search over what a first one
  stored. A third would read the same kinds of products: what is stored is bounded
  by the three answers and the link, and each pair of them is reached. Each answer
  crosses several rules at once: a foreign shop, an accessory, a price below the
  floor, a used listing, a smaller size, a higher tier, shipping that changes who
  is cheapest, delivery today and delivery unknown.
* *Two retailers in Trust.* A batch of two meets the same retailers in another
  transaction in either order. An AI provider reads pages only for one transaction at a
  time: it changes what is scored, not who waits for whom.
* *Three pages and a report.* The report of a bad experience counts as serious, so a flag
  needs two of the pages, all found by leading queries: the complaint, which the
  discount keeps out read or not, the friendly one, which it does not
  reach, and the one with no opinion, which two rows of one answer (`MostRows`) lift to
  the threshold. Both of the last help to flag in some state of the run.
* *No clock in BillingRequests.* What expiry does to rows is the question of
  `BillingSerial`, whose clock passes it; bookkeeping of events and credits does not
  depend on the time.

`CHECK_DEADLOCK FALSE` is set for Billing, where the clock bound and settled
orders end the behaviour, and for Offers, where the bounds on clock and requests do.
The other models never stop and are checked for deadlock.

### Fairness

`BillingRequests`, `Catalogue`, `Offers` and `Trust` have a liveness property. `Fairness` of Billing says:
a request that has begun continues (weak fairness of its steps: the server runs); of the
deliveries of a capture event some are taken up, reach `MarkPaid` and commit (strong fairness:
Razorpay redelivers what got no 2xx, and neither aborts nor lost answers hit every
attempt for ever); and so for a pending verification. Nothing is assumed about
verify ever being called, nor about the unprocessable event.

`FairSpec` of Catalogue has strong fairness of each search's own steps
(`Proceed`): the handler runs on, PostgreSQL grants a row in the order in which it
was asked for (a search that may write again and again does write in the end), and
its deadlock detector runs. Nothing makes a search begin, fail or abort.

`FairSpec` of Offers has weak fairness of a search's own steps, its time-box
included; nothing at all is assumed of the lookup.

`Fairness` of Trust: what is in flight goes on; the scheduler starts `refresh_trust`
again and again (strong fairness: a job finds room among the requests); and of the
collections for a retailer some are answered by the search vendor, whose breaker
reopens after its cool-down. An assessment may fail any number of times.

### Checked with requests that do not overlap

The code does not keep these under concurrency, no document says it does, and the
runs therefore take one request at a time (`BillingSerial`), one revocation
(`Overlap = FALSE`) or one run of `check_alerts` at a time:

* two activations of one user at once both extend from the same end, or both
  insert a row;
* `payment.failed` may overwrite a `paid` that was committed after it read;
* a status request may write "free" over a concurrent activation's "pro" until
  the next status request;
* of two overlapping sign-outs everywhere the second writes the version the first
  wrote, and a sign-in between them survives it;
* two overlapping check runs both send mails and lose an increment;
* two overlapping refreshes of one product may record one source twice (offers have
  no unique key), and one may heal what it has read while the other records
  (`OneOfferPerSource` and `HistoryOfActive` say "not overlapped").

## Findings

1. **One payment, two periods** (`BillingDouble`). `_mark_paid` relies on a status
   loaded before the await of `fetch_payment`.
2. **Two tiers, one product** (`ShoppingTiers`). `canonical_key` takes the first model
   token in alphabetical order. An "iPhone 17 Pro" has the tokens `iphone17` and
   `iphone17pro`, an "iPhone 17" has `iphone17`: with equal brand, storage and colour
   both are stored as one product, although the search keeps their listings in
   separate groups. The same first token clusters the prices of both tiers in
   `filter_implausible_price_outliers`, whose docstring says tiers are never compared.

3. **Refused and forgotten** (`BillingRefused`). A webhook with an invalid signature is
   answered 400; `src/SECURITY_AUDIT.md:18` adds "and recorded". The row is inserted, but
   the exception makes `get_db` roll it back. (It is as well: a row that stayed would use
   up the id of the genuine delivery, see `RecordedCaptureIsCredited`.)

Seen while modelling, without a run of its own:

* `trust_engine.py:239-241` says that public search noise "does not qualify, because
  leading queries are already discounted to low confidence upstream". `analyze_item`
  discounts a page of a leading query only when its words are negative;
  `refine_with_ai` (`evidence_analyzer.py:332`) may then read a friendly one as a serious
  complaint and adds confidence. `FlaggedOnlyIfCorroborated` says what does hold: such a
  page counts only if it was friendly, or if the answer was about it more than once.
* `src/V2_GUIDE.md:111` says that "no hidden retailer names, prices or URLs are sent to the
  browser". `GET /products/{id}/trust` (`products.py:168-183`, `TrustPage`), which the same page
  of the site requests (`frontend/src/app/product/[id]/page.tsx:40`), names every scored
  retailer that offers the product, those of withheld picks too ("basic trust evidence
  remains available", line 109).
* Resuming an alert does not ask for the plan's limit (`alert_service.py:127`).
* A late 429 replaces the breaker's cool-down with a minute (`search_client.py:122`).
* A retailer preloaded as absent that another search commits meanwhile costs the
  whole search (`catalog.py:170`, `ShopConflict` of `Catalogue`).
* A refused flush during an assessment leaves the session unusable, so the
  `except` at `trust_service.py:283` cannot save the request (`CollectionFails`).
* The agent searches without the user, so a paying viewer sees its cards without
  prices (`shopping_agent.py:463`); offers of flagged shops are left out of
  comparisons only; `GET /products/{id}` does not heal the offers it prices, though
  `catalog.py:811-812` says it is done on every view; a link's search and
  `refresh_offers` attach used listings to new products (`Shopping` has all four).
* Retiring implausible offers once more may retire more (`catalog.py:732`): of the exact
  prices 1, 1, 1, 1, 1, 6, 6, 100 the first pass drops the ones, since their upper quartile
  is 6, and the next view drops the sixes, since that of the others is 100. A card may
  show a price that the next view takes down.

## Proofs

Each theorem is for every value of the constants: any sets of users, orders,
alerts, vendors, requests, retailers, any batches, answers, prices and intervals.
The assumptions are the named ASSUMEs on the constants in the modules, which TLC
evaluates on every run; what a theorem assumes beyond them is in its ASSUME and in
the table. In each module the argument is the same: a typing part that ties the
control point of a request to what it holds, an invariant about several of them
together, one lemma per action or group of actions, and the theorem by temporal
logic.

| Module | Theorem | States | Assumes |
|---|---|---|---|
| `BillingProofs` | `TypeCorrect`, `CreditsAuthorized`, `ImplementsLedger` | types; an order is credited only when authorized; `LedgerSpec` | |
| | `EventsHandledOnce`, `CapturesNotForgotten`, `RecordedIsCredited` | the bookkeeping of webhooks | |
| | `PaidHasRow`, `NoTimeUnpaid` | a paid order has its row; no row lasts longer than was paid for | |
| | `ActivatedOnce`, `ImplementsLedgerOnce`, `OneRowRuns`, `PlanShowsSubscription`, `PaidTimeKept` | one activation per order, `LedgerOnceSpec`, one running row, `users.plan`, no time lost | `OneRequest` |
| `SessionsProofs` | `TypeCorrect`, `RotatedRefused` | types; a rotated refresh token is refused | |
| | `AcceptedIsCurrent`, `OldPasswordRefused` | sign-outs everywhere and password changes close what was open | `~Overlap` |
| `AlertsProofs` | `TypeCorrect`, `DeletedForGood` | types; a deleted row stays deleted | |
| | `DeletedStays` | it stays inactive too | `OneAsk` |
| | `MailsSpaced`, `CountsRight` | the cooldown between mails; `trigger_count` | `OneRun` |
| `SearchDataProofs` | `TypeCorrect`, `UnlabelledFresh`, `RefreshReaches`, `CommittedAnswersStay`, `QuestionsPaidOnce` | types; freshness, propagation, stale cover, paid once | |
| `CatalogueProofs` | `TypeCorrect`, `OffersHaveRows`, `WinnerFound`, `BatchesConflictWithOthers` | types; offers on rows that exist; what a conflict finds and with whom it is | |
| `OffersProofs` | `LookupsFind` | a lookup finds its product | |
| | `LookupsAreSpaced` | lookups a retry interval apart | `OneRequest` |
| | `OneRowPerSource`, `HistoryOnOffer` | one row per source, no observation of a retired offer | (the properties say "not overlapped") |
| `TrustProofs` | `FlagsCountUsers` | no flag counted twice | |
| | `AccusedOnlyIfCorroborated` | no flag on thin evidence, nor on discounted pages, whatever an AI provider answers | |
| | `AssessmentsAreInRange` | scores in 0..100, confidence in 0..1 (no run checks it) | |
| `ShoppingProofs` | `StoredIsTyped` | what is stored stands under its own shop and condition | |
| | `UnpaidSeesNoPrice`, `PreviewGivesNothingAway`, `FlaggedStayOut` | prices withheld, and shops but on the trust page; the preview hides the picks; flagged shops not compared | |
| | `CardPricesStand`, `CardsAreDistinct` | card prices are on offer; one card per product | |
| | `UsedIsStoredApart` | used apart from new | |

`OneRequest`, `OneAsk` and `OneRun` say that a set of slots has one member at most
(of all billing requests; of requests and jobs for one product, the lookups running
beside them; of requests for one account; of check runs). They are the conditions
under which the runs check the same properties, for the reasons given in "Checked
with requests that do not overlap"; `BillingDouble` shows what happens to
`ActivatedOnce` without.

### The invariants, and why they are needed

* **Billing.** `TypeOK` alone is not inductive: a commit applies a write set, and
  that an index in it is a row of the table and that a create never carries "paid"
  follow from where the slot is (`SlotOK`). `AuthInv` adds that a slot which may mark
  an order paid handles an authorized payment, and that capture events are pending
  only for captured orders; authorized is for ever (`AuthMonotone`), so this survives
  the steps of others. `EventInv` ties the record of an event id to the delivery that
  inserts it. `RecordInv` says of a slot that is about to record a capture that it
  credits the order with it, or found it credited: an order marked paid has its credit, and
  credits are never taken back (`CreditsStay`). `RowInv` says of a slot about to write "paid" that it also writes, or
  finds, the row. `OnceInv` and `SerialInv` use that nobody else commits between the
  read and the commit of a request. `TimeInv` and `KeepInv` bound the end of a
  row from above and below by the sum of the periods credited, with what a slot is
  about to add (`SlotTime`, `SlotKept`). `PaidTimeKept` is about accounts that are not
  deleted and bought one plan only, as `NoPaidTimeLost` is.
* **Sums.** The sum over a set of orders, or of evidence, is a fold in the order in which
  CHOOSE takes the elements. That it exists for finite sets, is a number and does not
  depend on the order is proved by taking a least counterexample (`LeastNumber`), for
  which no induction theorem is needed. `BillingProofs` has all of these lemmas and
  `TrustProofs` the first two.
* **Sessions.** `RotationInv`: a session that a refresh has used is revoked as long as
  it has a row. `SerialInv`: `token_version` counts the sign-outs everywhere, and each
  token, and each request about to issue one, carries the number at which the
  credentials behind it were checked; `Fresh` says with which password.
* **Alerts.** `RunOK` says of the rows a run still has to write that what it selected
  is what they hold, and of the mails it has sent that they kept the cooldown to the
  notification it selected; `NoteOK` ties committed notifications to the row.
* **SearchData.** `SlotOK` says that an answer a request holds is as old as its
  lifetime allows wherever it came from. `StaleCovers` is inductive as it stands,
  given the types: the table covers every committed answer within its grace.
* **Catalogue.** `Inv` says of each point of a search where the rows it refers to are:
  committed, inserted by itself, or still to be flushed. That a savepoint takes its
  rows away again, and that nothing refers to them afterwards, is what makes
  `OfferOfItsProduct` inductive.
* **Offers.** `AttrsInv` says what a session holds at each point, and that one past the
  mark has committed the product. `SpacedInv` follows the mark of the last attempt:
  in the stored attributes it is no older than the last launch, and in every session
  that may write attributes back as well, the lookup's included, since a lookup marks
  its own attempt when it opens. `CalmInv` is about requests that never overlapped: of
  two sessions in use one is a lookup's and the other a request's that has nothing
  left to write; the session at work sees the rows as stored or as it has changed
  them (`InStep`); rows are the first of their source (`Single`); and what the session
  would leave as history is on offer (`Fresh`).
* **Trust.** `FlagInv` ties the flag count a transaction loaded to the flags there
  are. `BasisInv` follows each piece of evidence from where it is found, through the
  batch, the insert and the recovery after a refused flush, to the score: it is sound
  (one that a leading query found is spared or below the confidence that counts), and
  there are finitely many. One row of an answer lifts a discounted page to 0.45 at
  most, so nothing need be assumed of the provider. `AssessmentsAreInRange` needs no
  assumption: that weights are not negative makes the mean's denominator positive and
  the clamp of the factors' scores carries over to it. It is what `Shopping` assumes
  of the trust scores it reads.
* **Shopping.** `IInv` is the type of what is stored, and the five invariants of the run.
  Requests do not overlap, so each reply is the matter of one step; what makes the
  proof long is what the step does. The type says what the steps need of each other: an
  offer stands under the shop and condition it names (`UnderSource`), there are finitely many of
  everything, and only new products have identifiers (`Products`), without which a used listing
  could find a new product by its ASIN. Grouping, storing and comparing are folds over
  listings. A fold is a function on the sets of places done so far, which exists for the
  same reason as a sum does (`FoldExists`), and stays in any set of good values that
  its step stays in (`FoldStays`): groups whose listings have the group's condition
  (`Group`); products among which nothing new is mixed (`Unmixed`) with a list that names
  each once (`Stages`); the offers the agent compared, none of a flagged shop
  (`AgentStages`). `Healed` leaves exactly the plain offers active (`HealedType`), so the
  price of a card is that of one. Of `Picks` only that each pick is one of the offers
  compared is needed (`PickedAreOffers`), for which each of its choices must be from a
  set that is not empty; of the preview, that it is chosen among the open offers
  (`PreviewsType`).

### Only model-checked

* Liveness under fairness, which needs ENABLED: `CapturedIsCredited`, `SearchesEnd`,
  `SearchAnswers`, `WebEvidenceArrives`.
* What recursive definitions compute for every input.

## Not modelled

* Registration, the OAuth redirect and admin-role synchronisation: sign-ins
  enter `Sessions` with their credentials checked.
* The optional Redis tier, retries inside one HTTP call and statistics in the
  cache and clients. A cache access is taken to be shorter than a clock unit.
* Amounts and currencies of plans beyond "the amount differs" (`BadEvent`).
* Parsing of vendor JSON, and the regular expressions and word lists that find
  things in titles and pages: a title, a shop and a page are records of what was
  found. Half of `product_normalizer` and most of `market_filter`, `data/` and the
  vendor engines are such tables.
* Price statistics and the buy/wait signal: read-only arithmetic over timestamps.
* What language models write, and their reading of a question; review summaries.
* Of the routes that show products or shops to anybody: the list and the pages of
  retailers and sellers with their trust (`api/v1/retailers.py`), the redirect of an offer to its
  shop (`/go/{offer_id}`, `api/v1/affiliate.py`), review summaries
  (`/products/{id}/reviews`). They hold no price; the redirect names the shop of an offer
  whose id one has.
* Saving products, the dashboard, uploads, search history, demo
  mode, paging, price bounds, warnings.
* Sellers and variants: rows that no modelled rule depends on.
* The comment at `core/cache.py:227` (a refreshed answer reaches every process
  within the hour) does not hold for copies taken while the database was down,
  which live for the full lifetime (line 232); `RefreshReachesWorkers` is about
  the other copies. A stale read prefers the copy in memory to a newer row
  (line 199).

## Plan

1. `Offers` as the source of prices in `Alerts`, in place of its free `PriceChange`.
2. Saved products with their limit; the optional Redis tier.
