# A verification project for asterisk-token-router

TLA+ models, TLC configurations and machine-checked proofs for the program in this
repository: a gateway in Go (a fork of One API) that relays requests for language models
to providers, meters and limits what its users spend, and is administered from a web
front end in three themes.

The models follow the source (`model/`, `relay/`, `common/`, `middleware/`,
`controller/`, `web/default`, `web/air`, `web/berry`). `PROJECT.json` maps every
definition to the lines it stands for and lists the runs, mutants, findings, hazards and
theorems.

Run a model with `tlc -config <X>.cfg <Module>`, check proofs with
`tlapm <Module>Proofs.tla`.

## 1. The system

One process (or several) serves HTTP; state lives in an SQL database, optionally in
Redis (caches, usage counters, limits), and in process memory (batched updates,
channel cache, ban list, codes, metric windows). A request for a model passes

    rate limit -> TokenAuth -> (auto routing) -> Distribute -> QuotaCheck
      -> Relay/relayHelper (with retries) -> a helper for text, audio or image

and leaves goroutines behind: one that settles the price, one that counts the usage
towards the user's alerts, one that feeds the channel metric. Nothing waits for these.
Administrators and users change the same rows through handlers of `controller/`, and see
them through React pages that keep copies of their own.

| Component | State | Operations | Talks to | What is hard |
|---|---|---|---|---|
| Quota columns and batch updater (`model/utils.go`, `user.go`, `token.go`, `channel.go`) | quota columns of users, tokens, channels; five in-memory maps | Increase/Decrease/Update..., the updater's pass | called by billing and administration | calls racing with swap and apply; crash with updates in memory; failed UPDATEs |
| Relay billing (`relay/controller`, `relay/billing`, `model/token.go`, `model/cache.go`) | balance, `user_quota:<id>` in Redis, request locals | check, pre-consume, settle, roll back, count | quota columns, QuotaCheck | check and charge far apart; rollback and settlement in goroutines; two rows charged in two UPDATEs |
| QuotaCheck (`middleware/quota.go`) | none | blocked key, total quota, monthly quota, specific channel | balance, usage counters, channel billing | checks a state that changes before the charge |
| Usage alerts and breaker (`common/quota.go`, `common/alert.go`) | monthly counter, blocked key, alert marks (Redis); alert rows | count, compare, alert, mark, block | after each request; obeyed by QuotaCheck | racing trackers; month change in the middle; expiry; crash before the block |
| Token quota administration (`model/quota_request.go`, `controller/token.go`, `main.go`) | `remain_quota`, `status`, `quota_requests.status` | create, approve, reject, edit, switch, validate, monthly reset, delete | beside the relay's reservations, charges and refunds | read-modify-write of the same columns |
| Channel tables and cache (`model/channel.go`, `ability.go`, `cache.go`, `controller/channel.go`, `monitor/channel.go`) | channels, abilities, in-memory copy by group and model | insert, edit, delete, disable, enable, rebuild | administrators, channel test, metric and relay write; relay chooses | two statements per write; stale copies; a rebuild that panics on half a write |
| Accounts (`controller/user.go`, `controller/misc.go`, `model/user.go`, `common/verification.go`, `common/blacklist`) | users' status, address, password, quota; codes and ban list in memory | codes and links by mail, reset, registration, binding, self-service, editor, switches, deletion | the relay, which reserves, charges and refunds; account pages | handlers put whole old rows back; ban list and row in two steps; codes that stay valid; restarts |
| Tables of the front end (`web/*/...ChannelsTable`, `TokensTable`, `UsersTable`, `LogsTable`) | arrays of row objects, page, query, spinner | load, turn, search, switch, delete, measure, sweep, sort, resize | the server's lists, other administrators | answers continue closures over old arrays; pages spliced in any order |
| Editors (`EditChannel`, `EditToken`, `EditUser`, `AddUser`, `EditModal`) | the form, the spinner, timers | open, load, type, submit, close | the server's rows | loads and timers that end late; conversions in place; buttons that stay enabled |
| Settings (`SystemSetting`, `OperationSetting`, `OtherSetting`) | the form, what was loaded, a warning | load, type, switch, save a group option by option | `controller/option.go` | secrets that come back blank; chains of requests; failures in the middle |
| Account pages (`PasswordReset*`, `Register*`, `PersonalSetting`, `EmailModal`) | countdown, spinner, what was told | ask for codes and links, confirm, register, bind | accounts | double clicks, lost answers, codes replaced meanwhile |
| Channel choice and retries (`middleware/distributor.go`, `controller/relay.go`) | blocked channels | choose by priority, skip blocked, retry | cache, billing | random search; retries without checks |
| Channel metric (`monitor/metric.go`, `manage.go`, `channel.go`) | window of outcomes per channel | emit, consume success, consume failure, disable | fed by relay, writes status | two goroutines on one map without a lock |
| Channel test (`controller/channel-test.go`) | snapshot of the channels | test all, disable, re-enable | channel tables | acts on an old snapshot, beside metric and administrators |
| Health checker (`model/health_checker.go`) | failure counts | probe, alert | notifications | writes no status |
| Channel billing alerts (`common/alert.go`, `middleware/quota.go`) | channel usage, alert marks | subscription, prepaid, monthly thresholds | notifications | thresholds, boundaries |
| Rate limiter (`middleware/rate-limit.go`, `common/rate-limit.go`) | Redis list, or queues under a mutex | admit | every route | check and push in two commands |

What makes each component correct:

- *Updater*: every update takes effect exactly once, whenever it was called; what is in
  memory reaches the database; only a crash or a failed UPDATE loses anything, and then
  no more than what was in hand.
- *Billing*: what a user has and what counts as used add up to what was granted; tokens
  and users agree; debt is bounded by the requests that overlap; nothing a request held
  back is kept or given back twice; every request is refused or gets to the upstream, and is
  settled or rolled back once that has answered or failed.
- *Alerts*: usage exceeds a limit by a bounded amount only; no crossing is missed;
  alerts do not repeat without bound.
- *Token administration*: what is left and what is reserved exceed the grants by no more
  than the reservations that writers with old copies wrote over; `used_quota` loses no
  debit; an approved request has been credited.
- *Channel tables*: channels and abilities agree when writers are done; the process can
  build its first cache, if its query for the abilities succeeds; the cache ends up with the
  last status and groups.
- *Accounts*: the same bound for a user's quota; bans follow the status of users; an
  address has one owner; what a page tells its user is so.
- *Tables*: the outcome of an operation lands on its row; a page at rest shows records
  as they are; pages are spliced in the server's order; spinners end.
- *Editors*: a save writes the record it is about with what was typed for it, units
  converted once; one click adds one record; a form at rest shows its record.
- *Settings*: no secret is overwritten with nothing; nothing is written that nobody
  changed; what a page shows after a save is stored; password sign-in goes off only
  through its warning.

## 2. Modules

| Module | Models | Depends on |
|---|---|---|
| `QuotaStore` | columns, update functions, batch updater | |
| `BatchUpdater` | `QuotaStore` closed with arbitrary callers | `QuotaStore`, refines `DirectUpdates` |
| `DirectUpdates` | abstract: every update executed when called | |
| `RelayBilling` | QuotaCheck's total check, balance cache, three helpers, pre/post-consumption | extends `QuotaStore` |
| `UsageAlert` | monthly counter, thresholds, breaker, QuotaCheck's blocked and monthly checks | |
| `TokenQuota` | all writers of a token's quota and status, the relay as relative UPDATEs | |
| `ChannelTable` | writers of channels and abilities, rebuild of the channel cache | |
| `Accounts` | all writers of a user's row, codes by mail, the ban list | |
| `AccountPages` | the pages that ask for codes and use them | extends `Accounts` |
| `WebTable` | server, arrays of rows, pager, and the handlers that tables share | |
| `TablesDefault`, `TablesAir`, `TablesBerry` | the handlers of each theme's tables | extend `WebTable` |
| `WebTables` | any of the twelve tables, beside other administrators | the three |
| `WebForm` | server, form, loads, saves, timers | |
| `FormsDefault`, `FormsAir`, `FormsBerry` | the editors of each theme | extend `WebForm` |
| `WebForms` | any of the editors | the three |
| `WebSetting` | `GetOptions`, `UpdateOption`, a page of options | |
| `SettingsDefault`, `SettingsAir`, `SettingsBerry` | the pages of each theme | extend `WebSetting` |
| `WebSettings` | any section of any page | the three |
| `MC*` | constants for TLC | |
| `*Proofs` | theorems | |

### QuotaStore and BatchUpdater

`db[c][i]` is column `c` of row `i`; `store[t]` is `batchUpdateStores[t]` made total
(adding to a missing key and adding to 0 are the same in the Go code). The updater's
goroutine is always either before the lock of type `type` (`stage = "swap"`) or in the
loop over the map it took (`"apply"`, keys left in `todo`, visited in any order as
`range` does). `Swap` is the critical section, `Apply` one UPDATE, `Advance` the loop
step. `Update` is any of the Increase/Decrease/Update functions: a record when batching
is on, one UPDATE otherwise. `ApplyFails`, `UpdateFails` and `Crash` add what they drop
to `lost`; `Effective` is the database plus what is in memory plus `lost`, and is the
refinement mapping to `DirectUpdates`. The mutex makes `addNewRecord` one step; the map a
batch was taken from is replaced under the same lock, so no caller can still write it.

### RelayBilling

A *slot* is one call of `relayHelper` and the goroutine it leaves. `pc[s]` is the next
SQL statement or Redis command:

    quota -> used -> balance [-> fetch -> fill] [-> reserve]
      [-> preToken -> preUser -> takeToken -> takeUser] -> upstream
      -> settle -> chargeUser -> chargeToken
      [-> refresh [-> refetch -> refill] -> store] -> count -> channel

`Sufficient` is the helper's own comparison (text `<= 0`, speech and image minus the
price, transcription minus 0). Only speech pre-consumes, and only of users with at most
100 times the price. `Fail` starts the rollback goroutine of `RelayAudioHelper` if there
is something to give back. `FindToken` is the lookup that lets a settlement fail for a
token deleted meanwhile. With Redis on, a request may come with a token that the cache
still knows as good, so `TokenAccepted` is then true. Prices are chosen when a request
arrives; what the upstream answered matters only through them. `Step` is `Proceed`, what
the process does by itself, or `Upstream`, the answer or failure of the call, which may never
come.

`offBook` and `leak` are history: what a deleted token or a crash kept from being
counted, and what a token lost without its user. They make the ledgers exact instead of
excusing them.

### UsageAlert

One user (all keys carry the user's id). Usage is in yuan as the counter is, limits in
quota as the code compares them; `Unit` quota make a yuan. A slot is a text request and
its tracking goroutine. `IncrUserQuota`, `IsUserBlocked`, `BlockUser`, `IsAlertSent`,
`recordAlert` and `MarkAlertSent` are steps; each evaluates the month itself, as
`CurrentMonthKey` does. The blocked key lives 45 days: `BlockedExpires` from the next
month on, and `NextMonth` waits for it before the third.

### TokenQuota

The relay's requests are not told apart. `PreConsume` is the one UPDATE of
`PreConsumeTokenQuota` that takes a reservation from `remain_quota` and counts it in
`used_quota`; `reserved[t]` is what is taken and not settled. `Settle(t, v, q)` ends a
reservation of `v` that costs `q`: the rollback when `q` is 0, and `PostConsumeTokenQuota` with
the difference otherwise, which is an increase when `q < v`; with `v = 0` it charges a request
that has reserved nothing. A settlement that fails, or finds its token gone, gives nothing back
(`SettleFails`).

Handlers execute one SQL statement per step and keep the row they read in `mem`.
`Token.Update` writes `remain_quota` and `status` from the copy; an approval writes the
copy's `remain_quota` plus the amount. A switch to "enabled" of an exhausted token is refused;
an edit is not, for the form may leave the status out. A statement may fail
(`StatementFails`: the handler returns the error) and the process may die (`Crash`).
Deletion removes the row: later UPDATEs then match nothing and report no error.
`ceiling`, the most ever granted, and `erased` are history. A writer that read the balance
before a reservation and writes it after puts the reserved quota back, and the refund adds it
again: `held` is what was reserved when a copy was read, and `erased` grows by what has been
reserved since. So `NothingBeyondGrants` does not say that racing writers create nothing,
which would be false, but exactly how much they can. The status "expired" depends on the clock
alone and is left out.

### ChannelTable

A writer is a handler of the administration or a goroutine that disables or enables a
channel; `pc[h]` is its next SQL statement and `op[h]` the `Channel` value in its memory:

    AddChannel: Insert -> addAbilities          DeleteChannel: Delete -> deleteAbilities
    UpdateChannel: Update -> reread -> updateAbilities   (one transaction)
    Disable/EnableChannel: UpdateAbilityStatus -> setStatus

`DeleteDisabledChannel` is one statement and leaves abilities behind, as the code does.
`TestChannels` keeps in `seen` the channels that were disabled when the test read them:
`EnableChannel` acts on that snapshot. `ReadChannels` and `ReadAbilities` are the two
queries of `InitChannelCache`, which looks at the error of neither: `ReadChannelsFails` goes
on with some of the channels or none, `ReadAbilitiesFails` with some of the abilities or
none. `Build` makes the cache of both answers; a channel in a group without abilities makes
the process `Die`, since it is an assignment into a nil map that no `recover` covers, in
`main` at the start and in the goroutine of `SyncChannelCache` later. `serving` is false
until `main` has built the first cache.

`torn` is history: channels two of whose writers overlapped, or one of which was cut short
by a failed statement or the end of the process. The properties hold for the others; an edit
after a deletion, a test of an old snapshot and a deletion of disabled channels all count as
whole writes. A channel that is inserted gets an id that no abilities are left of; a
database that gives out the id of a deleted channel again (SQLite may, without
AUTOINCREMENT) is not modelled.

### Accounts and AccountPages

`row[u]` is a user's row (status, e-mail, password, quota), `banned` the ban list,
`code[p][e]` the code that is registered for an address and purpose, `mail` what was
sent. A handler is at the step `pc[h]` with its request, its copy of the row and its
answer in `job[h]`:

    SendEmailVerification, SendPasswordResetEmail:  check -> mint
    ResetPassword:   verify -> setPassword -> deleteKey
    Register:        verify -> insert              CreateUser: insert
    EmailBind:       verify -> read -> ban -> write
    token, password, enable, disable:  read -> ban -> write
    editor:          read -> form -> ban -> write
    UpdateSelf, DeleteUser:  ban -> write          remove: ... write -> rewrite

`Ban` and `Write` are `User.Update` and `User.Delete`: the ban list first, then every
column of the copy that is not zero, which is what GORM's `Updates(struct)` writes.
`FillUserById` forgets the error of its query, so that a binding whose read fails writes a
row that says nothing but the address. `Crash` empties codes, bans and handlers. A code
for an address is not deleted once it was used; `CodeExpires` ends it at any time.
`IsEmailAlreadyTaken` is a `Find` into one struct, which says "taken" for one owner and for
several; when its query fails, nobody has the address. `PreConsume`, `Settle` and `SettleFails`
are the relay's UPDATEs of the balance, as in `TokenQuota`, and `reserved`, `erased` and a
copy's `held` mean the same.

`ceiling` (granted so far), `setBy` (who set the password), `torn` (users whose writers
overlapped, or whose ban list was changed and row not), `spent` (codes that were verified)
and `mixed` (addresses with overlapping requests, a code used again, or a failed check of
who has them) are history.

`AccountPages` puts one page of one theme in front: the request for a link, the page it
opens, registration, and the binding of an address. A page's request waits in "done" until
`Arrives` hands it to the page, or `GoesMissing`. The buttons differ by theme, in what
disables them (`disabled`, the countdown; `loading`, the spinner) and in what gives them
back, and each theme's buttons are actions of their own.

### WebTable, Tables* and WebTables

One table is open in one browser tab. A React handler runs to its first `await`, where its
request goes out, and continues with the variables it captured when the answer arrives:
the array (`cap`), the page, its size and the query. Row objects are shared by arrays, so
a row is a reference `<<g, id>>` to the object that the `g`-th answer made in `heap`, and
arrays are numbered in `arrays`, for handlers write into the array that they captured. A
berry row has its own copy of the status in `switch`, set when the row is mounted.
`net` holds the requests; the server answers them in any order (`Serve`, by `PageOf`,
`ServeDelete`, `ServeUpdate`, `ServeAbsent`), refuses, or an answer is lost and the handler
dies (`HandlerDies`); others add, delete and change records. `Tables*` holds one action for each
button and each handler of each component.

### WebForm, Forms* and WebForms

The values in a form are told apart by where they come from: the record and version they
were loaded from, what was typed, the unit a quota is in (`scale`), whether something is
missing or invalid, and of which type the key of a channel was composed. An editor is opened
and closed while loads and saves are under way; requests carry the session they belong to
where the code's closures do. `LoadEnds(catches)` is the default theme's load: the token
editor catches the error of a lost answer and is usable with blanks, the others keep their
spinner. Once a group was chosen there (`mode = "group"`), models may be empty. Timers
(`setTimeout(navigate, 800)` after a save in the default theme, 500 ms in air's token
editor) run out at any time.

### WebSetting, Settings* and WebSettings

Of an option's value only the origin counts: the server's at the start ("old"), typed
("new", with a slash at the end, invalid, or empty), or written by another administrator. A
button's steps are a sequence of options, each written after the answer to the one before,
and each under its condition (always, when changed from what was loaded, when filled). `Due`
decides what is sent. A request carries the set of all writes that are left, with their
places in the sequence; it makes the first of them (`Now`), and `UpdateEnds` continues with
the others. Each theme's module says which button does what. The server's `UpdateOption`
refuses what its code refuses.

## 3. Runs

| Run | Question | Result |
|---|---|---|
| `batch_updater` | Does the updater implement immediate updates, and flush? Two rows, all five types, amounts -1 and 3, two calls, one fault. | holds |
| `relay_direct` | Types, bounded overdraft, both ledgers. Two slots, three requests of all kinds, prices 1, 100, 200 on a grant of 150, deletion, one fault; no Redis, no batching. | holds |
| `relay_batched` | The user ledger through the batch updater, with a crash or failed UPDATE. Two slots, two requests. | holds |
| `relay_cached` | With balances in Redis: is quota created by reserve, rollback, refresh, expiry; is every audio request refused, or settled once the upstream has answered or failed? | holds |
| `usage_alert` | Overshoot of limit and monthly quota, missed crossings, repeated alerts. Two slots, prices 0, 4 and 5, limit 10, monthly quota 13, two months, one crash. | holds |
| `token_quota` | How much quota do racing writers create, are debits lost from `used_quota`, are there approvals without credit? Two handlers, one request, a relayed request that reserves, an edit, the monthly reset, deletion, one fault. | holds |
| `token_lost_debit` | Does an approval add its amount? | violated: it writes the sum of an old balance, and what the relay took in between comes back |
| `channel_table` | Do channels and abilities agree, does the process start, does the cache follow? Two channels, two groups, two handlers, three writes, one fault (a write, a read of the cache, a crash). | holds |
| `accounts` | Bans beside the status, addresses with two owners, pages that tell what is not so; how much quota do writers of whole rows create? Two users, one address, two handlers, one fault; no page, with three requests, relayed ones and top-ups included, or each of the twelve pages, with three requests. | holds |
| `web_tables` | Does an outcome land on its row, is a page at rest right, are pages in order, do spinners end? Twelve tables, three records on pages of two, one more by somebody else, three requests (two at once), one fault or change by others. | holds |
| `web_forms` | Does a save write its own record, with units converted once; one record per click; does a form show its record and return from waiting? Eleven editors, two records and the own account, two openings, three requests, one fault, one change by others. | holds |
| `web_settings` | Secrets kept, nothing unasked, what is shown is stored, the warning, spinners. Every section of nine pages with one or two options of each kind, two fields typed, three requests, one fault, one change by others. | holds |

**Bounds.** Two slots or handlers are what a race between a check and a write needs, and
the invariants count slots, so a third adds states of the same shape. Prices and grants
are chosen around the code's boundaries: with a grant of 150 a speech request for 1 is
not pre-consumed and one for 100 is, 200 is refused; prices 4 and 5 reach 80, 90, 100 %
of 10 (8, 9, 10) and jump past it; 0 is the price of a channel not billed by the token.
Amounts are pairwise different so that no two errors cancel.
`MaxFaults = 1` is a crash, a lost answer or a failed statement anywhere; the other `Max*`
constants only end behaviours. They are guards of history counters; TLAPS removes the
bounds for the properties proved. `CHECK_DEADLOCK FALSE` is set where behaviours end
at such a bound.

In `accounts` two users are the one a request is about and one who may get the same address;
three requests are a code, its use and a writer beside it; in the form of the editor 0 is
the number that GORM does not write. While a page is open, others only mail and use codes,
change the user's password, generate a token, crash, and let codes expire; without a page
all requests are possible. Turnstile is varied only where a page looks at it beyond waiting
for its check (berry's binding). `MaxHasty` counts clicks while an answer is under way. In
`web_tables` a page of two makes three records fill one page and begin another, so that the
pager, the next page and a row that moves between pages occur; a handler beside one load or
operation needs two requests, and a third shows what the first two left. (The exceptions
that the properties name were found with six requests on five records, one table at a time.)
In `web_forms` the second opening is what meets the late answers of the first; records are
alike, so that the first may be any of them. In `web_settings` an option of each kind
(switch, text, number, secret, address, JSON) stands for those that the same code treats the
same way; all have been configured once.

In `token_quota` one relayed request of 2 is all that is needed for a copy read before its
reservation and written before its refund; the monthly quota is the start's 2 and the editor
sets 1, below it. In `accounts` relayed requests and top-ups count among the three requests
(`MaxBeside`): two writers of one row beside a reservation, or one writer beside a
reservation and a top-up.

Symmetry is used over interchangeable slots or handlers, and only without liveness.

**Fairness.** `BatchUpdater!BatchFairSpec`: the loop of `InitBatchUpdater` runs for ever, it
sleeps and then passes over the types; weak fairness of its steps, none of callers.
`RelayBilling!FairSpec`: weak fairness of each slot's `Proceed`; a goroutine that can run does,
and a database answers or fails. None of `Upstream`: `RELAY_TIMEOUT` is 0 by default
(`common/config/config.go:120`), with which `relay/client/init.go` builds a client that waits
for ever, so `EventuallySettled` promises an end only after the answer or the failure.
`ChannelTable!FairSpec`: weak fairness of the rebuild alone, a loop that sleeps
`SyncFrequency` seconds, and the start of the process; writers may stop anywhere.
The front end's specifications: weak fairness of "a request is answered, refused or found
lost, or the browser's event loop continues a handler whose answer is there" (`Serve`,
`Refuse` or `Fault`, and `Continue`, `GoesOn`, `Continues`); a browser ends every request
and runs its callbacks and timers. Clicks, arrivals, deletion, expiry, month changes and
faults are never fair.

**Mutants.** Each module holds, next to the definition it replaces, the slip that the
corresponding property must catch (a dropped guard, a swapped key, a rollback that stops
half-way); `PROJECT.json` pairs them with properties.

## 4. Theorems

| Theorem | Says, for all constants |
|---|---|
| `RelayBillingProofs!TypeCorrect`, `StoreInvariant` | types; no record is in the updater's hands between types |
| `RelayBillingProofs!BatchingIsTransparent` | the updater implements `DirectUpdates` |
| `RelayBillingProofs!RelayTypeCorrect` | types, Redis and batching on or off |
| `RelayBillingProofs!QuotaIsConserved` | balance, used quota and what is on its way add up to the grant |
| `RelayBillingProofs!TokensFollowUsers` | limited tokens are drawn by what the user has paid |
| `RelayBillingProofs!NothingIsCreated` | no balance and no copy of it exceeds the grant, if no debit is lost in the updater's hands |
| `RelayBillingProofs!OverdraftIsBounded` | a balance is never below minus the highest price times the overlapping requests (no Redis, no batching) |
| `UsageAlertProofs!UsageTypeCorrect` | types |
| `UsageAlertProofs!MonthlyOvershootIsBounded` | monthly usage stays below quota plus one price per slot |
| `UsageAlertProofs!OvershootIsBounded` | usage passes the tokens' limits by less than one price per slot and chance |
| `UsageAlertProofs!CrossingIsNotMissed` | whoever has crossed the limits is blocked, or about to be |
| `UsageAlertProofs!AlertsAreBounded` | how often a level can be alerted in a month |
| `TokenQuotaProofs!TokenTypeCorrect`, `UsedCountsDebits` | types; `used_quota` equals the debits |
| `TokenQuotaProofs!GrantsBoundQuota` | what is left and what is reserved exceed the grants by no more than the reservations that were written over |
| `TokenQuotaProofs!ApprovalIsCredited` | no approved request without credit |
| `ChannelTableProofs!ChannelTypeCorrect` | types; an enabled ability is an ability |
| `ChannelTableProofs!TablesAlwaysAgree` | channels and abilities agree unless writers of the channel overlapped or failed |
| `ChannelTableProofs!StartsIfNotTorn` | the first rebuild does not panic unless a write was torn or its query for the abilities fails |
| `AccountsProofs!QuotaIsGranted`, `PagesGrantNothing` | a user's balance and reservations exceed the grants by no more than the reservations that were written over, alone and behind the pages |
| `AccountsProofs!BansFollow`, `PagesKeepBans` | bans and status agree once the writers of a row are done, unless they overlapped or failed |
| `AccountsProofs!AddressesAreApart`, `PagesKeepApart` | two users share an address only after overlapping requests or writers, a check of the address that failed, or a code used twice |
| `AccountsProofs!PagesTellTheTruth` | the password or the address that a page has told a patient user is so |
| `WebFormsProofs!KeepsColumns` | no editor writes one record's values over another's, and adds only from an empty form |
| `WebFormsProofs!ConvertsOnce` | quotas are saved in the database's unit, composed keys under their own type |
| `WebFormsProofs!AddsOnce` | an editor opened once adds what one click asked for |
| `WebFormsProofs!ShowsRecord` | at rest a form is about its record and shows what is stored |
| `WebTablesProofs!LandsOnItsRow` | the result of an operation lands on the row of its record, in every table, whatever happened meanwhile |
| `WebTablesProofs!ShowsWhatIs` | to a user who waits a table shows records that exist, with the status they have |
| `WebTablesProofs!PagesStayInOrder` | ... loaded pages are the server's list from its beginning, in the order chosen, and the pager offers the next one |
| `WebSettingsProofs!SecretsStay` | no page ever overwrites a secret with nothing |
| `WebSettingsProofs!NothingElseChanges` | a patient user changes only what was typed or switched |
| `WebSettingsProofs!SavedIsShown` | what such a user saved is stored as it is shown, at rest |
| `WebSettingsProofs!OffIsWarned` | password sign-in is not switched off but by one who confirmed the warning |

*Assumptions* are the named `ASSUME`s of the modules, evaluated by TLC in every run: amounts
are naturals, sets of slots, tokens and users finite and of tokens not empty, owners are
users; no record is listed twice; the other page size of air is not below `ITEMS_PER_PAGE`
(`pageSizeOpts` is 10, 20, 50, 100 and the constant is 10; with a smaller one the pager
would turn into rows that it has not loaded); the sections of the settings are those the
pages have, and the options that a handler consults for another one are among those told
apart. Two theorems have a hypothesis of their own: `NothingIsCreated` (`NoDebitLost`,
below) and `OffIsWarned` (the switch is among the options that are told apart).

*Batching.* `Effective` is written cell by cell (`Cell`). Under `StoreInv` (a batch is in
hand only in stage "apply") each updater step moves an amount between `store`, `batch`,
`db` and `lost` and keeps every cell; a call changes the cells of its type by its amount.
The argument does not use that batching is on; with batching off an update is executed at
once and there is nothing to swap.

*Ledgers.* `BooksInv` restates both ledgers user by user (`Balanced`, `TokensBalanced`):
the effective columns, what slots have taken from one column and not yet put into the next,
and the history `offBook` or `leak`. A step of a slot changes the terms of that slot and
the cells of one user by the same amount; `Settling` adds that no rollback reaches the
consume log. The sums over slots and tokens are `SumFunction` of the community modules.
What the proofs need of them (a sum changes by what one summand does, sums add up, a sum of
zeros is zero) is proved in lemmas; since an induction theorem cannot be instantiated here,
they take the least cardinality of a counterexample and contradict it.

*Nothing created.* That a balance is at most the grant is not inductive: a rollback
gives back. `CapInv` bounds balance, batch and store together with all that running
requests may still give back (`HeldBy`), and whatever was read and may be written to
Redis. It needs `NoDebitLost`, that is no batching or no fault: a failed UPDATE of the
updater, or a crash, drops a debit that was called, and its refund may still come. With
batching off every statement may fail.

*Overdraft.* `OverdraftBounded` counts the requests still to be charged, which makes it
inductive: a request enters `Charging` while the balance it has just read is not
negative, and leaves it when it has taken its price. `DirectInv` adds that the cache's
labels are unreachable without Redis and that what is pre-consumed is the price.

*Monthly overshoot.* `MonthlyInv` has the same shape: usage is at most quota - 1 plus one
price for each slot not in flight beyond the check; a request enters only below
the quota. The products are handled in lemmas of their own.

*Limits and the breaker.* `MissInv`: usage that has crossed every limit has the user blocked,
or somebody on `Watch`, a slot whose tracker has counted a usage at the limits and is not
done. A tracker that read old usage is not on watch, and need not be: the one that
crossed is. `OvershootInv` counts both phases: while the breaker is open every price beyond the
limits is that of a slot on watch or of an earlier chance (`OpenRoom`), and once it is closed
only requests already past it add theirs (`ClosedRoom`); a crash or a key that lapses is a
new chance for each slot. `AlertInv` does the same for rows of alerts: an early row has its
marker until the month's key is there (`EarlyRows`), the block's rows are those of slots
that found the user not blocked (`BlockRows`). Products of two variables are kept in lemmas.

*Token quota.* The bound is on `remain + reserved`, which a reservation and its refund leave
alone. A copy held by a handler, together with what was reserved when it was read (`held`), is at
most `ceiling + erased`: it was when taken, and both only grow (`CopyInv`, for every handler and
label). When it is written, what has been reserved since is counted in `erased`, so the bound
holds again; an amount is added to the balance and to the ceiling together. An edited value
covers all that is reserved, which `WritesOver` counts with `Larger`.

*Channel tables.* `ChannelInv(c)` holds for each channel that is not torn: at most one
handler writes it, and `Holds` says what the next statement of that handler relies on (a row
just created has no abilities, a copy of the row is current, the abilities already have the
status that is about to be written). A step touches one channel (`AloneInv` keeps the
invariant of the others). `Starting` adds that before the first cache nothing runs but the
rebuild, so that both of its queries see the same tables; with agreement, and a query that
does not fail, every group has an ability. If the first query fails there are only fewer
channels to look up.

*Quota of users.* `Good` says of a copy on its way to be written that it is the editor's,
which grants what it writes, or has quota 0, which GORM does not write, or is, with what it
holds, at most ceiling and erased together, as for tokens. The pages add that the link they
follow has been mailed (`PageInv`).

*Bans.* Ban list and row change in two steps, so neither the property nor the agreement
of the two is inductive. `RowInv` says of a row that is not torn: it matches the ban list
if nobody is between the two steps (`Settled`); if exactly one handler is, and it was
not overtaken, the row will match after its write (`Settles`); and a copy that was not
overtaken has the status of the row unless its request names another one (`Fresh`).
The first of several handlers to write overtakes the others, whose writes tear the row.
`Named` and `Known` add what the request says of the copy, and that only users who have
a row are read. `RowKept` and `MovesBan` reduce every step that is not a `Ban`, a `Write`
or an `Insert` to the handler that takes it.

*Addresses.* `OwnerInv` says of an address that is not `mixed`: if a code for it may still be
sent or verified, or a handler claims it after its code was right (`Ticket`), nobody whose
row is not torn has it (`Free`); whoever claims it is the only one who can get it
(`Alone`); and it has at most one such owner. `Addressed` says what each handler
may write into the column of the address: the binding its own, everybody else what
the row has, as long as the copy was not overtaken. Verifying a code spends it and makes
the handler its claimant: the ticket passes from the code to the claim, and there is one.

*What pages tell.* `OpenInv` says of a page and its requests what an answer under way is going
to tell. For an address this is `Bound`: the row has it, and whoever writes the row later has
it too, or has an old copy and tears the row (`Addressed`). For a password it is `Works`, and
`LinkInv` says why it stays so: `ResetPassword` deletes the code only after it has written the
password, so a code that is still there (`Spare`) has no answer yet, and a handler between the
two statements is the only one that uses it, as a patient user has one request under way.
Codes grow, so no later code is the link's again; and the copies of other writers
have the row's password or none, unless they were overtaken (`Copies`). A step is reduced to
what is stored (`Stored`) and to handlers that rest or move (`Rests`, `Moves`).

*Editors.* The three themes are instances of `WebForm`. Their actions are first reduced to
a few kinds of step that the themes share, each saying as much as the invariants need:
`UserStep` (opening, typing, turning a switch or a unit, submitting, closing, leaving),
`AnswerStep` (the handler of a load or of a save goes on), `Serving` (the server answers,
refuses or an answer is lost) and `Touching` (others change a record). For each kind one
lemma per part of `Inv` says that the part is kept, in the theme it is about; where a
part speaks of other themes only, it is kept because none of its hypotheses can come true.

Three parts hold however fast the user is. `ScaleInv`: requests, records and what is added
are in the database's unit, and the form is in its own, but for the default token editor,
whose conversion in place needs a calm user and a form that is not being saved. `KeyInv`:
a key on its way that was composed of a config is that of the type on its way, for which a
berry form must hold configs of its type only and compose nothing while it is typed into.
`DefaultInv`: a load of the default theme is about the record the form is open on, for
closing takes the component with its closures away. With `AddInv` (what was added came
from an empty form) that is `OwnColumns` of the default theme; `BerryInv` follows one click
of berry's button through the request, the addition and the close.

`PatientInv` is for a user who waits: one request at a time and none beside a timer, an
addition whose session is still open has its answer under way or its timer running
(`AddingOnce`), and the sheet for air's tokens never adds (`TokenSheet`: it is in mode "add"
with an empty form that has no models to choose, and an addition without models is not
accepted). `CalmInv`, with nothing failed, says of every load and save that it is about the
record on show and has its current version, which is why the form, when it comes to rest,
shows what is stored.

*Tables.* `IInv` types the server, the heap of row objects, the arrays and the requests, and
says what the property needs of each. The server: a record has a status that it has had, and
one that is gone stays away (`Known`, `Fates`). A row object's marks are its record's, so it is
enough that a handler writes into the right object. A request about a row (`TargetInv`) knows the
reference that was clicked, and its handler finds this one again: in air it is given the row
object, in the default theme it counts from the captured page in the captured array, and
arrays are never changed but at their end (`ArraysGrow`), by the tables that push. So a sort,
a search or a load in between makes another array and leaves the captured one. `AnswerInv` says
what an answer knows of its record, whatever becomes of the record after it. Each button and
each handler of `Tables*` then is one of a few kinds of steps (`AskStep`, `DoneStep`, `FollowUp`,
`QuietStep`). `Keep` counts positions, and `KthKept` finds the k-th by a least counterexample.

`CInv` is for a user who waits. That every shown row is right is not inductive: a write makes
rows wrong in the server first. `Standing` says of every row that it is hidden as deleted, or
right, or that the one request under way will put it right (`Doubts`): the answer of a write
of its record, of a deletion, of a sweep, or a load that replaces it. `Truth` says that an
answer still tells how the records are, as nobody else writes. No record has two rows
(`Unique`), so marking one row is enough; a load keeps this because `Disturbs` names the
pages that bring a record which stands before them. Berry's rows carry their own status: a
switch has the record's, or waits for the answer or the load that will set it (`Switched`),
a row that is mounted anew reads what the load has just brought for the active page
(`OfBerry`, `FilledPage`), and what a remount would forget is `Forgets`. Berry's log sends two
loads at a time, both of the first page (`Plain`); until the second is there the rows of the
first may be without a switch (`Mounted`).

`OInv` is about the places of rows. A row has a tag: the load that brought it, and where its
record stands in the server's list of that order (`TagOf`). `Placed` says that a row of the
present epoch follows the rows of its page (`InRun`), that the first page stands at the head,
and that a row in its place is the last of its page or is followed by the next (`GoesOn`). In
default and berry a splice may put a page before its place when the array is shorter, never
behind it (`NotBehind`); in air the pager never offers a page beyond the next (`AirPager`), so
each page is in its place (`InOrder`). When no page is left out (`Closed`), a least row out of
place would leave its place to nobody (`NobodyBehind`), so the rows are the list from its
beginning. A splice is replacement, extension or shortening of the tags at the page's start
(`PageAdded`), and each of the three facts is proved for it once. That the rows are of the
order chosen holds but for the time when a load of the first page is `Awaited`. The rows fill
whole pages unless they are the whole list (`FullPages`), which is why the pager's count, and
air's count of rows, offer a page whose load begins where they end.

*Settings.* The themes are instances of the common module, so for each of them lemmas first
show that its words mean the common ones (`DefaultWords`) and that its actions are a button
with `GoodSteps`, a field, a switch, the warning, or one of three special cases
(`DefaultSteps`, likewise for air and berry). `GoodSteps` is what the rest needs to know of a
handler: that it writes secrets only when filled, and what it writes unconditionally or as a
list.

`SafeInv` holds however fast the user is and whatever fails. A request carries all that its
handler will still write, fixed when it begins, so `Fits` speaks of requests and not of the
form, which may be loaded again meanwhile: none writes an empty secret, and none but a
confirmed one writes "false" to password sign-in (a switch is sent as the opposite of what
it shows, and "true" opens the warning).

`Patient` is the invariant of a user who waits, while nothing fails. Then at most one request
is under way (`Quiet`). `AskedInv`: whatever differs from what was loaded, whatever a request
will write and whatever the provider's page will add was asked for. `SavedInv` says of each
saved option that it is stored as shown, or is known not to be sent, or a write of it is
`Pending`. It needs that the writes of a request are those that the form shows, that the options
on which it depends what is sent (`Watched`) do not change under it, and that a fetch still has
the object, values and origin it captured. That a button sends all but `NotSent` is
`SentOrNot`; it holds for any steps.

**Only model-checked.** All liveness (`EventuallyFlushed`, `EventuallySettled`,
`ViewConverges`, `LoadingEnds`, `EditorReturns`, `SavingEnds`) is outside the prover. The
safety properties of the passing runs are all proved for every value of the constants; but
note that `OverdraftIsBounded` is proved for `RedisEnabled = FALSE` and `BatchUpdateEnabled
= FALSE`: with either, the balance that is checked is a copy, and there is no such bound
(`OverdrawnIsRefused` in section 5).

## 5. What is abstracted or missing

**Server**

- The tokens of `UsageAlert` keep their limits and are not deleted: a tracker that does
  not find its token ends, and the next one notices a crossing.
- Redis commands do not fail; the fall-backs for a Redis that is down are not modelled.
- Consume-log rows, e-mail reminders and notifications.
- Retries: `Relay` calls `relayHelper` again without `QuotaCheck`. An image request whose
  response cannot be read is charged in its deferred function and, on a retry, again.
- `RelayImageHelper` charges inside a deferred function, in the request's own goroutine;
  the statements are those of the other helpers.
- Integers do not overflow (64 bits in Go, yuan as floating point): amounts are far from it.
- Several processes: each has its own updater, so a second one is a second caller of
  the same UPDATEs; slots already interleave at statements.
- Of a channel: keys, prices, priority, several models (an ability is per group here), the
  two kinds of disabled, and the Redis list of a group's models that status changes delete.
  A form that edits only the status leaves the groups as they are, which is one of the
  edits of `Update`.
- A rebuild between the insertion of a channel and of its abilities, in a group that has no
  others, ends the process, and then every later start panics until the row is mended; so
  does a crash there. `StartsUnlessTorn` names this exception (`torn`) and excludes others.
- Of users: names, groups, roles, external accounts, sign-in, the cap on the number of
  codes (it only expires them earlier) and the white list of mail domains. External
  sign-in with OIDC sets an address without a look at other accounts.
- The choice of channels and retries, the metric, the rate limiter, the health checker,
  the Redis copies of tokens and of a user's status: small state around probability, a
  data race that ends the process, or thresholds of single numbers; see `PROJECT.json`.

**Front end**

- Chat links, copying, charts, the sum of the logs, column layout; dashboards, sign-in and
  static pages: one request each, shown once. The pages for redemption, top-up and
  drawing talk to routes that the server no longer has.
- Of a row: its status, the time of the last test, the balance, and whether it is hidden.
  Of a form: one field of each kind that the code treats differently; `MaxScale` bounds
  repeated conversions to one.
- Typing while a spinner covers the fields, except for air's pusher, which saves with each
  key. Numbers before the options are loaded are bad requests in air and berry. Deleting old
  logs and the check for updates are not modelled.

**Documents the code does not keep.** One such disagreement is a run
(`token_lost_debit`). For four others the modules hold a property that TLC refutes when it is
added to the named configuration:

- `RelayBilling!OverdrawnIsRefused` (`RelayCached.cfg` with `Spec`, `AllKinds` and
  `ThreeCosts`): `CacheUpdateUserQuota` writes the cached balance back with a new lifetime,
  so a positive copy outlives the balance, while `docs/USER_QUOTA_DESIGN.md` calls the
  total a hard limit.
- `RelayBilling!SurelyExhausted` (`RelayDirect.cfg`): `ValidateUserToken` marks a token
  exhausted "for sure" whose quota is only pre-consumed; the rollback does not unmark it.
- `UsageAlert!BlockedAtFullQuota` (`UsageAlert.cfg` with `LimitOf10Yuan`):
  `trackUsageForQuota` counts yuan and compares with millionths of a yuan, so that a user
  spends the whole quota without tripping the breaker that `README.md` promises at 100 %.
- `ChannelTable!DisabledNotRouted` (`ChannelTable.cfg` with `Spec`): an edit that overlaps
  with a disabling leaves the abilities of a disabled channel enabled, from which the relay
  chooses without the cache; `docs/TEST_CASES.md` (TC-CH-08) says it is out of the routing.

**Other observations on the server**, met while modelling: an upstream that never answers keeps
its request, and what it has reserved, for ever, as the client has no timeout by default and the
request no context; a status switch, an approval, a token generated or any other writer of an old
balance that falls between a reservation and its refund leaves more than was granted
(`NothingBeyondGrants`, `QuotaWithinGrants` say by how much); a query for the abilities that fails
at the start is taken for an empty table, and the process panics; two racing trackers alert twice
for one level (`docs/REQUIREMENTS.md` says once a month); each step of a tracker evaluates
the month anew, and a mark set after midnight belongs to the new month and suppresses its
first alert; the blocked key carries no month, no caller removes it by hand, and it stops a
user in the month after; a settlement for a deleted token is counted as used but charged to
nobody; two administrators may handle one quota request, which is then credited and ends
rejected; QuotaCheck compares used quota with what is left, not with the total its message
names, and so refuses at about half of the grant; a speech request's reserve in the cached
balance is not returned on every path; a failing query leaves `testAllChannelsRunning` set,
and no test runs again until a restart.

On accounts: binding, tokens, the editor, the switches and external binds write a whole old
row back, and so undo a password reset, a disabling, or debits in between (`torn` in
`BanFollowsStatus` and `OneOwner`; a quota of 0 in the editor's form is not written at all);
one code binds an address to two accounts within its ten minutes, although the comment at
`controller/user.go:856` says that no check is needed; a check for the address that fails
counts as "free"; the ban list is empty after a restart while sessions live on; a link that
is sent again between the check of the code and its deletion is lost; a double click on
berry's confirmation shows a password that may be the older one; berry's binding cannot ask
for a code when Turnstile is disabled (`EmailModal.js:74`); air's request for a link keeps
its button disabled after a refusal until the countdown ends; a lost answer leaves the
spinner on in default, air and berry's binding.

**Observations on the front end**, each named at the property that excepts it:

- *Lost answers.* The interceptor of `helpers/api.js` swallows a network error, and the handler
  dies at `res.data`: the spinner of most pages then goes on for ever. The liveness properties
  excuse a lost answer; the default token editor catches it.
- *Tables.* Default's balances always land on the first row, and the reload on focus of its
  tokens leaves a later page empty; air hides a row although its deletion was refused, counts
  its pager with the old size after a change, searches users blank from a later page, and
  turns the pages of a log without the type; a later page that comes back shorter leaves a
  stale tail; users whose page is loaded twice appear twice, and so do rows that the next
  page behind search results or sorted rows brings again; a later page that is loaded behind
  an array which has shrunk (after a reload of the first page, or when all rows were removed)
  stands where an earlier one belongs; the own deletion makes the next
  page skip a row; a sweep leaves rows that are gone, also when started on a later page; berry's switch forgets a change when
  pages are turned, and two loads of its log may arrive in the other order.
- *Editors.* Default's token form converts in place, and converts again after a refusal; its
  channel form composes the key in place before it validates; after a load that was
  refused its submission writes blanks; `navigate` 800 ms after a save closes the editor
  opened meanwhile; air's token form turns into an addition 500 ms after it was opened, and
  its channel form shows the former values when it is opened again, or submits a late load
  of one channel onto another; air's form for new tokens has no models to choose, its form
  for users spins for ever on a blank name, and berry's does not let a new Vertex channel
  pass; a load in berry that ends late turns an addition into a PUT.
- *Settings.* Default never sends the white list of domains; the check that it is not empty
  never refuses; a value set back to the loaded one is not sent; what is saved before
  the load blanks options; air's pusher is written with each key; berry reports success
  after a refusal, and groups are half saved after one; a double save may be served in the
  other order; the warning's confirmation toggles what is loaded by then. The server writes
  an option's row and its variable in two steps, and `SyncOptions` may put the old one back.

## 6. What is left

Not modelled, in the order in which it would be worth it: the choice of a channel and the
retries around billing (what is charged at most once); the limiter against "at most n per
window"; the metric's window; the Redis copies of tokens and status beside the ban list.
Open proofs: liveness only (end of section 4).
