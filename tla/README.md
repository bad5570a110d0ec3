# Formal models of the tastetionary server

TLA+ models of the server's own logic, TLC runs that check them on small
instances, and TLAPS proofs for every value of the constants. Paths below are
relative to the repository.

## How the system works, and what makes it hard

The server is a NestJS application over PostgreSQL (Prisma) and Redis. A route
calls a facade, the facade calls services, and the services call repositories,
one awaited call after the other. Three facts shape every model here:

- **There is no database transaction around a route.** Every awaited Prisma or
  Redis call is atomic by itself, and handlers of other requests (in this
  process or another) run between any two of them. What a handler read may be
  gone when it writes.
- **A handler can stop anywhere.** An awaited call throws, or the process dies;
  what was written stays and nothing is compensated.
- **Some work is not awaited at all.** Reactions, metric counters and uploads
  go on after the answer, with their errors ignored.

In the models a *request slot* holds one handler in flight: its program counter
(`pc`, the next awaited call) and what it has read. Each awaited call is an
action named after the function that makes it; `Abort` is a call that throws or
a crash. Tables are functions and sets, unique indexes are guards of the insert.
Texts, hashes, coordinates and messages are left out; strings that matter are
model values.

## Inventory

| Component | State | Operations | Hard behaviour | What makes it correct |
|---|---|---|---|---|
| E-mail verification (`src/src/domain/authentication`) | `authentications`, `authentication_histories`, codes with an expiry | begin (mail a code, replace the row), finish (check the code, mark the row, bind a user), reset, removal at withdrawal | begin, finish and reset of one address race on rows found by key and changed by id | a row is changed only by a handler that read that row; an id that was answered vouches for the address it was answered for |
| Membership (`domain/user`, `domain/account`) | `users`, `accounts`, `user_tokens`, `user_opinions` | register, login, logout, rename, withdraw | a registration writes five tables, a withdrawal five; retries, crashes, ignored errors; nicknames without a unique index | a registration holds the row of its own address; accounts are of one user each; what a failed registration leaves is nobody's; what was withdrawn is gone; nicknames differ unless two raced for one |
| Social login (`account.service.ts`) | `accounts` by provider id, or by address in old rows | match, refresh the address, migrate an old row, create | two first logins race; old rows move | racing logins agree on the user; identities move only to a verified owner |
| Passwords (`account.facade.ts`) | password and `requirePassChange` of an account, a verification | reset by mail, change | stored before mailed; the account may be replaced in between | the stored password can reach the member |
| Preferences (`user.service.ts`) | two array columns of one row per member | add, remove | read-modify-write of arrays | arrays are sets that change one element at a time |
| Areas (`user.service.ts`) | `user_areas` | change (delete, insert) | crash or race between the two | a member keeps an area |
| Reviews and restaurants (`domain/restaurant`) | `restaurant_reviews`, `external_restaurant_informations` | register, update, delete | a restaurant is registered by its first review; the author is checked before the write | one row per restaurant, reviews have theirs, only authors change them |
| Search (`restaurant.service.ts`, `restaurant.facade.ts`) | none of its own | recommend, nearby, page of reviews, reviews of a member, newest reviews | several reads of tables that change between them; boundaries of filters, ratios, means and slices | what is told was true during the request and fits what was asked |
| Reactions (`restaurant.service.ts`) | `restaurant_review_reactions` | put | fire and forget | the last reaction counts |
| Reports (`restaurant.service.ts`, `third-party/aws`) | `review_reports`, an S3 bucket | report, upload | an upload nobody waits for, under a key that was saved | a report's image is the reporter's |
| Rate limit (`common/rate-limit`) | a Redis counter with a lifetime | INCR, EXPIRE, judge | two calls, window boundary | a bound on what passes, and no block for ever |
| Recent foods (`food.service.ts`) | a JSON list in Redis | recommend, list | GET, SET, EXPIRE of one key | the last foods are shown, the list expires |
| Metrics (`common/metrics`) | counters per type and day in Redis | increment, query | midnight, retention, slicing of a flat answer | a query is answered all increments of its days |
| Shop register import (`sbiz-import.service.ts`) | restaurants with source SBIZ | import, close missing | batches, files, crashes, overlapping runs | an import is complete, closing takes only what is missing |
| Redis clients (`common/redis`) | two connections, one of them made on first use | boot, call, quit, disconnect | the client is kept only after an await; Redis goes away; shutdown under calls | one client, and every call ends |
| Log (`common/logging`, `common/exception`, `utils/winston.config.ts`) | a store per request | open, set user, set error, write, redact | requests interleave at every await; answers that fail half way; clients that go away | a line tells its own request; failures of the server's logic and of suppliers are reported, wrong usage and refusals are not; nothing secret is shown |
| Health checks, Prisma, configuration, validators, third-party adapters, bootstrap | library or environment state | | | see *Not modelled* |

## Modules

`AuthRows` is the table of verifications as the other domains rely on it: at
most one row per address and category, opened, verified, bound and dropped,
each in one step. `Verification` is the domain itself, await by await, and
implements `AuthRows` (`RowsSpec`, which `Accounts` names `RowsAsPromised`).
`Membership` extends `AuthRows`: it takes the verification domain for what that
theorem promises, and adds registration,
login, profile and withdrawal await by await. `Marks` is the abstract
specification of `Preferences`, through the refinement mapping that reads the
arrays as sets.

`Search` composes with the writers in the same manner: its handlers only read,
so it has one of them in flight, await by await, while the writes of `Reviews`
(write, edit, delete), `SbizImport` (close, open) and `Membership` (withdraw)
are single steps between its reads.

| Module | Models | Correspondence |
|---|---|---|
| `AuthRows` | `authentication.repository.ts` | `auths[k]` is the row of a key, `issued` the ids a finish has answered |
| `Verification` | `authentication.facade.ts`, `authentication.service.ts` | `SendCode`..`CreateHistory` are the awaits of `beginAuthProgress`, `LookupRow`..`BindUser` of `finishAuthProgress`, `ResetFind`/`ResetDelete` of `resetNotRegisteredUserAuth` |
| `Membership` | `user.facade.ts`, `user.service.ts`, `account.service.ts`, `auth.guard.ts` | `CheckNickname`..`SyncRow` are `registerProfile`, `SaveOpinion`..`RemoveAuths` are `withdrawProfile` |
| `SocialLogin` | `createToken`, `resolveSocialAccount` | one provider; `Match`, `Refresh`, `FindLegacy`, `Migrate`, then creation |
| `Passwords` | `resetPassword`, `changePassword` | one address; passwords are numbers, `known` is what the member can know |
| `Preferences`, `Marks` | the preference routes | `req[r].row` is the row that was read |
| `Reviews` | writing reviews, restaurants, areas | tables as counts or sequences of rows |
| `Search` | `getRecommendations`, `getNearByRestaurants`, `getRestaurantReviews`, `getRestaurantReviewsByUserId`, `getRecentReviews` | `ReadNear`, `Match`, `DrawShop` recommend; `ReadList`, `Summarize` list a page; filters and aggregates are operators |
| `Feedback` | reactions | a task is work left behind |
| `Reports` | `reportRestaurantReview`, `uploadFileToS3` | `uploads` are the promises nobody holds, `images` the bucket |
| `RateLimit` | `rate-limit.guard.ts` | the counter, and its time to live in ticks |
| `RecentFoods` | `saveFoodRecommendation` | the list as the time of each food |
| `Metrics` | `metrics.operations.ts` | counters with the tick at which they die |
| `SbizImport` | `sbiz-import.service.ts` | one action per statement; an edition is a sequence of files, a file a sequence of kinds of lines, a batch the set of its lines |
| `CsvLine` | `parseCsvLine` | the loop, a character a step, on what a writer of CSV writes |
| `RedisClient` | `redis.client.ts`, `redis.module.ts`, `redis.service.ts` | `current` is `redisClient`, `open` the singleton clients that are connected |
| `RequestLog` | the middleware, `RequestContext`, the exception filter, `winston.config.ts` | `store[r]` is the store of a request, `log` the lines with the context they were marked from |
| `Redact` | `redactSensitive` | `Redaction[depth][v]` is the answer of the call with `v` and `depth`; values are trees that grow a level at a time |
| `Accounts` | `SocialLogin`, `Passwords`, `Preferences`, `Verification` | one of them |
| `Restaurants` | `Reviews`, `Feedback`, `Reports`, `SbizImport`, `CsvLine` | one of them |
| `Recommendations` | `Search`, `RecentFoods`, `Metrics` | one of them |
| `Common` | `RateLimit`, `RedisClient`, `RequestLog`, `Redact` | one of them, with the fairness of each |

The last four compose components that share no row and no key: a behaviour is
one of a single component (`part`, chosen at the start), never a product of
them. They name the properties of their components, so that a run and a theorem
speak of the same definition. `X_proofs` holds the proofs about `X`.

Variables marked *observation* record what happened for the properties to speak
about; no action of the code reads them. Definitions marked *Faulty variant*
are not part of any specification: each stands for a plausible mistake, and the
property it is listed with in `PROJECT.json` fails when it replaces the
definition after it.

## Runs

`tlc -config X.cfg M` checks one run. `MC*` modules give the constants values.

| Run | Instance | What it shows |
|---|---|---|
| `membership` | two handlers, two addresses, two users, two nicknames, one failure (a death, a call that throws, or an error that is ignored) | whatever id a client sends, a registration holds the row of its own address; one user per account, nicknames, users left by failed registrations, withdrawals that take everything except what an ignored error or a late login leaves |
| `accounts` | two handlers each: two people and an old account; four passwords and two accounts; two columns, two restaurants, six requests; one address in two categories, one code and a wrong one, two rows | agreement of racing logins; passwords; arrays as sets; what a finished verification vouches for, and the refinement of `AuthRows` |
| `restaurants` | two handlers, two members, one restaurant, three reviews; two reactions; two reports in two milliseconds; two slots, three import runs, batches of two, four editions, one of them empty; rows of two fields of three characters | everything that is written of restaurants |
| `recommendations` | one request over two reviews, two changes, three restaurants of which two are near; two requests over three foods, two shown; two types, two days of two ticks | recommendation, listings, recent foods, counters |
| `common` | three requests, limit 2, lifetime 3, one dead request; two calls, three clients; two requests on three kinds of routes; values of three levels, shown to a depth of two | rate limit, Redis clients, log, redaction; liveness of the first three |
| `withdrawal_retry` (violated) | one user | a member whose withdrawal died after its opinion was saved is refused for ever |
| `unfinished_registration` (violated) | two handlers, one address | an account of an address whose verification was never finished |
| `reviews_listing` (violated) | two reviews, one change | a withdrawn reviewer breaks the listing |
| `preferences_lost` (violated) | two requests | a removal undoes a change that came in between |
| `rate_limit_block` (violated) | one dead request | a counter without an expiry blocks for ever |
| `latest_reviews` (violated) | two reviews, one shown | the older one may be shown |
| `revisit_ratio` (violated) | two reviews | a listing without opinions has no ratio |

**Why these bounds.** Every hazard of the writers is a matter of two handlers,
one reading before and writing after the other, so two slots (three for the rate
limit, where one request creates the key, one is blocked and one tries again)
reach it. Two rows of a kind let a stale id meet a fresh row. `MaxRows`,
`MaxHistories`, `MaxReviews`, `MaxReceived`, `MaxTotal`, `MaxStarts`,
`MaxAborts`, `MaxClients`, `MaxChanges` and the clocks (`MaxTime`, `MaxNow`)
bound counters only; they are large enough that each action fires, also after a
crash. A registration may send any id up to `MaxRows` with any address, drawn or
not, answered or not. A code of a verification is compared with the one that was
sent and nothing else, so that one code and a wrong one stand for all. In `Search` a
request makes at most three reads of the tables, and two
changes fall in any way between them; two reviews, of one restaurant or of two,
by one member or by two, make pages that are full, partly filled, empty and
beyond the end, with limits of one and two; the texts have prices whose mean is
rounded up and down, and opinions yes, no and none; the filters have the option
for all alone, beside another, and no option at all. The limit of reviews shown
with a recommendation is 1 instead of 10, the number of newest ones 2 instead
of 3. Pages are numbered from 1. The batch size of the import is 2 instead of
1000, so that an edition has full, partly filled and empty last batches; the
recent list shows 2 instead of 8 foods of 3. Rate limit and retention are small
numbers of ticks; values of a counter above the limit are one value, since the
guard does not tell them apart. Redaction is tried on values one level deeper
than its limit, which is 2 instead of 5, with a sensitive label, another one and
an index: every value that can be built of them, so that secrets lie under objects,
under arrays and under what is too deep. Handlers are
interchangeable, which makes the symmetry of slots sound; no run with liveness
uses symmetry. Deadlock checking is off where a bound on received requests,
reports or import runs stops the model (`MCAccounts`, `MCRestaurants`,
`MCPreferencesLost`).

**What the code does not promise is left out of the properties, not of the
models.** Two requests on one array, two overlapping reactions, two racing
recommendations, two racing first calls of Redis, two that race for a nickname
or two overlapping imports can undo each other; the properties of those runs
say that *nothing else* can, through observations (`contended`, `wished`,
`uncertain`, `raced`, `met`, `alone`). Nor do these properties say
that the racing ones end well: a late reaction may win, a client that lost the race stays open,
an import may close what an overlapping one is about to write. In `Search`, `seen`
holds what the tables held at
some time of the request and what they held all the time: an answer made of
several reads is true when it lies between the two.

**Fairness.** `RateLimit!FairSpec`: time passes, and a request in flight goes
on, since it waits only for Redis. `Membership!FairSpec`: a handler that can go
on does (the event loop), and a member whose withdrawal got as far as its
opinion asks again (strong fairness, because no slot may be free each time).
`RedisClient!FairSpec`: a call goes on whenever it can; that Redis comes back is
a premise of `CallsAreAnswered`, no fairness. `RequestLog!FairSpec`: the guard,
the handler, the filter and the end of the answer come, one after the other,
since every handler ends somehow. `CommonFairness` states these for the part a
behaviour is of. No fairness is assumed of requests, mails, Redis
or deaths.

## Findings

1. *A registration without a verification*
   (`src/src/domain/authentication/service/authentication.service.ts:40`). The id that
   was sent is compared with the id of the address's row, whose state nobody reads. Ids
   are counted up, so that whoever began a verification can name its row before any
   code was entered. `authentication.service.spec.ts:76` is named *with not done, should raise
   error*, and tries an address without a row.
2. *Withdrawal cannot be retried* (`src/src/domain/user/facade/user.facade.ts:57`).
   The opinion is inserted first and is unique by user, so after a failure
   further on each retry fails at the first call.
3. *A withdrawn reviewer breaks the listing*
   (`src/src/domain/restaurant/service/restaurant.service.ts:489`). Reviews stay
   when their author withdraws, and the listing requires the author's profile.
   A recommendation whose first reviews have such an author fails the same way.
4. *Lost preference updates* (`src/src/domain/user/service/user.service.ts:238`).
   The array that was read is written back.
5. *Rate limit without expiry* (`src/src/common/rate-limit/rate-limit.guard.ts:44`).
   Death between INCR and EXPIRE leaves a counter that never ends.
6. *Latest reviews in any order*
   (`src/src/domain/restaurant/repository/restaurant.repository.ts:293`). The
   reviews shown with a recommended restaurant are documented as the latest, but
   are the first of an unordered query.
7. *A revisit ratio that is no number*
   (`src/src/domain/restaurant/service/restaurant.service.ts:608`). A listing
   without an opinion divides zero by zero.

Seen on the way, and modelled as the code has them: the reviews of restaurant 0
are the reviews of all (`restaurant.service.ts:387`); a reviewer's count includes
deleted reviews (`restaurant.repository.ts:116`); a recommendation counts a review
without an opinion in its ratio (`restaurant.service.ts:90`), a listing leaves it
out; a restaurant recommended for its reviews may be closed, only imported ones
are asked whether they are open; `searchUser` never answers `undefined`, so that
it is the account, not the user, whose absence makes `searchProfile` throw; a domain
rule that a caller broke, a mistyped code for one, is reported to the log and to Sentry
(`exception.filter.ts:124`), while `ErrorCategoryEnum` names it
`caller_wrong_domain_error` and `logging.module.spec.ts` has caller errors skip
Sentry (*should log caller errors as warn with error code and skip sentry*, with an
exception of wrong usage). `LogIsTrue` asks neither of such an exception.

## Proofs

`tlapm M.tla` checks a proof module. A theorem is about every value of the
constants that satisfies the named `ASSUME`s of the modules, which TLC evaluates
on every run. They say that bounds, limits, lifetimes and batch sizes are natural
numbers (positive where zero means nothing), that ids of users are positive
numbers, that "no nickname" is none, that a draft of a review is of a member and
a restaurant and has finitely many prices (the numbers of `PriceMapping`), that pages
and their limits are positive, that there are finitely many foods, at least one type
to count, that a letter of a field is neither a quote nor a comma, that
an edition is a sequence of files of lines, and that no index of an array matches
SENSITIVE_KEY. Nothing limits how many
handlers, members, addresses, restaurants, reviews or clients there are.

Every proof has the same shape: an inductive invariant, one step of the proof per
action, and the property from it. What has to be added to a property is nearly
always the same kind of fact, *what a handler in flight may still rely on*: a
handler acts on what it read some awaits ago, so the invariant says which of it
is still true, and the proof of each other handler's action shows that it stays
so.

**`Verification_proofs`.** `IssuedIsDone` is not inductive: a handler that holds an
id from before could delete or mark a row that reuses it, and a new row could get
an id that was answered. `IInv == TypeOK /\ RowIds /\ IssuedIds /\ HeldIds` says
that ids of rows were drawn and differ, that issued ids were drawn, and that an
id a handler holds is, if its row is still there, of the row of the handler's key.
Then an update or delete by id hits the row that was read, or none.
`ImplementsRows`: every await is a step of `AuthRows` or none, so that
`Membership` may be read on top of any number of verifications. These theorems stand
under `VerificationAssumption` and are instantiated by `Accounts_proofs`, for a
behaviour of `Accounts` whose part is the verifications.

**`Membership_proofs`.** `IInv` joins the rows of verifications (`RowIds`,
`IssuedIds`) with what registrations and withdrawals hold: `OwnRows`
(past its validation, a registration holds an id that was drawn, and the row that has it, if
any, is its own address's; the binding by id at the end then hits this row or none),
`NewUsers` (a user without an account
is known to the one registration that made it), `Orphaned` (a user whose registration
failed before its account is known to no handler), `OneAccountPerUser`,
`Withdrawing` with `AccountsGone` and `TokensGone` (what a withdrawal has removed
stays removed, except after the errors and late logins that `WithdrawnIsGone`
names), `FreeUnlessRivals` (a nickname found free is free until it is written,
or a rival looked for it too), `WithdrawsOnce` (two withdrawals of one user never run
past the opinion together, none after it was answered, and every opinion belongs to a
withdrawal that runs or was answered, unless something failed). `WithdrawsOnce` and
`StrandedForGood` are the two sides of the finding about withdrawals: the unique opinion
keeps a withdrawal from running twice, and a withdrawal that is lost after its opinion is
never taken up again. `KeepsRowsPromise` shows that `Membership` with the
steps of its environment still is `AuthRows`: it does not use more than was
promised to it.

**`Accounts_proofs`**, with `Passwords_proofs` and `Preferences_proofs`.
`LoginsAgree` rests on `AccountsOK` (the unique index), `GrantedOK` (the account of
a user a token was answered for has the identification of that answer, or is gone) and `HeldOK`
(an account that was found has the id it was found by; one that is about to be
migrated may have been migrated meanwhile, but only to the same id, since one
person at most can have verified the address). `PasswordIsKnown` needs that ids
are never reused (`IdsOK`) and that a member knows what it changes to
(`ChosenIsKnown`). `NoDuplicates` and the refinement of `Marks` (`OneMarkAtATime`) need
that a handler alone on an array holds what the array is (`Alone`), and rest on
lemmas about filtering and appending. The proofs about `Passwords` and
`Preferences` stand under those modules' own assumptions and are instantiated by
`Accounts_proofs`, where a behaviour of `Accounts` is shown to be a behaviour of
each of its parts.

**`Restaurants_proofs`.** `ReviewHasItsPlace`, `AreaSurvives` and `ReviewsStayTheAuthors`
from `RowsOnce` and `HeldOK` (a restaurant that was found stays; a review that was
read has the same author and restaurant when it is written). `LastPutCounts` from
`FeedbackInv` (a task that is alone leaves what its user wished), and
`ImagesAreTheReporters` from `ReportsInv` (a report is sent once, under a key
nobody else has unless in the same millisecond). The import (`ImportInv`) is the longest: at every
point of a run the lines before the reading position are counted, and those that are
not in the batch are in the table, where a shop carries the data of the last line about it, as
long as the run is alone; in a batch, the set of its lines holds the latest line
of each shop (`RunOK`, `Written`). `ImportIsComplete` and `OnlyMissingAreClosed`
then hold for any number of runs, editions and any batch size. For
`ParsesWhatWasWritten` the proof first finds where the writer puts every character
(`Layout`: the fields with a comma between each and the next, each as it is or
between quotes with its quotes doubled), by induction over the concatenation; then `CsvInv`
says at which position of the layout the parser is with what it has of the field (`Progress`).

**`Recommendations_proofs`.** `RecommendationFits` from `SearchInv`: what the request has
read was in the tables at some time since it began (`SeenOK`), and what it has
asked and chosen is drawn from it (`AskOK`, `RecommendOK`). `ListingsAreTrue` from
`ToldInv` beside it: what a listing says of the rows it was given is true whatever is written
later (`ListSays`: length of the page, rounding of ratio and mean), its rows are between those that were
always and those that were ever there (`ListHas`), and its counts between the first and the
latest count of the member (`ListCounts`), which are compared by the ids of rows: edits and
deletions leave them alone, and inserts only take new ones (`Grows`). The same `ToldInv` says
how far the findings about listings reach. `OwnReviews`: the listing of a
recommended restaurant is a true one of it; `LatestIfAllFit`: its reviews are the latest
as long as they fit one page; `NoRatioWithoutOpinions`: a ratio is no number exactly
without opinions; `RefusedOnlyForWithdrawal`: only a withdrawal breaks an answer, of an
author whose review was there to be listed, or of the member that was asked for (nearby,
it is the area that is missing). `ListExpires` and `LastAreRecent` from
`FoodsInv`: a request that is alone writes back the list it read with its own food
in front (`AloneOK`, `OwnOK`), and a food whose place is certain is older than at most those
recommended since (`CertainOK`). `AnswersAreTrue` from `CountersInv`: a counter that is
within its retention is the number of increments of its day. It rests on a
theory of two folds of the libraries, sums over finite sets and concatenation of
a sequence of sequences, proved from their definitions.

**`Common_proofs`.** `KeyExpires` is inductive beside `TypeOK`: only the request that
saw count 1 can find a key without expiry, and it is in flight until it has set
one. `AtMostTwiceLimit` needs `TwoKeys`: the requests of the last `Ttl` ticks were counted
by two keys at most, the one there is and the one before, and what each let pass is at most the limit.
`BlocksGetShorter`: while no request dies, no step puts off the end of a block.
`OneClientUnlessRaced` from `ConnectionsOK`, `LogIsTrue` from `LineOK` and
`RequestOK`: a request's store is written by the request alone, a line is
written from it, and the filter has reported, or not, by the time the answer ends.
`EveryAnswerIsLoggedOnce`: a request whose answer was sent has exactly
one access line, a healthy health check none. `SecretsAreHidden` needs of the values only that they are built of
what is nested in them. Then, key by key along any path (`WalkOfShown`), the
redaction has the redaction of what the value has there, until a sensitive key or
the depth ends it. A recursive function is a CHOOSE to the prover, so `Redaction`
and `Walk` are shown to exist first (`RedactionExists`, `WalkExists`), by induction
over the depth and over the length of the path.

**What only TLC checks.**

- *Liveness*: `NoPermanentBlock`, `CallsAreAnswered`, `RequestsAreLogged`. Fairness and
  ENABLED are out of the prover's reach. The safety they rest on is proved where it can be
  stated (`BlocksGetShorter`, `EveryAnswerIsLoggedOnce`).
- The seven properties that are violated. What holds in their place is proved:
  `HoldsItsOwnRow` and `IssuedIsDone`, `StrandedForGood`, `RefusedOnlyForWithdrawal`,
  `BlocksGetShorter` with `KeyExpires`,
  `LatestIfAllFit`, `NoRatioWithoutOpinions`, and for the updates that are lost
  `NoDuplicates` and `OneMarkAtATime`, which except handlers that met on an array.

## Not modelled

- *Validation of input.* No `ValidationPipe` is installed, so that the decorators
  of `PageRequestParams` and of `PutRestaurantReviewReactionDTO` check nothing: a
  limit of 0 or a page below 1 reaches the slice. The models ask for pages from 1.
  What nestia generates at build time for `TypedBody` is external.
- *Wording*: names of options, emoji, messages, the format of log lines, Sentry.
  Reactions counted per review are a count by type of rows that were read, with
  no boundary or order to get wrong.
- *Answers sent before the middleware*: a body that cannot be parsed, CORS, the pages of
  Swagger (`src/src/main.ts`). They leave no access line, and `RequestsAreLogged` speaks
  of the requests that the middleware has met, those that the guard refuses among them.
- *An empty directory* given to the import is the edition of one empty file: nothing is
  written before the closing, which then closes every shop.
- *The choice of a food* by keyword and category among a constant list: any food.
- *Distances*: PostGIS answers them; a set of near restaurants.
- *Unused code*: `getFilteredReviews`, `getRecentRecommendations`,
  `saveNewRecommendation` in `restaurant.facade.ts`, `deleteReviewById`,
  `IsValidDateFormat`.
- *Prisma, configuration, third-party adapters, bootstrap, generated packages*:
  libraries and I/O. Tables and unique indexes are variables and guards, a call
  to a third party is a step that may fail. An upload that is rejected after its
  request was answered is taken to leave the process alive. The list of closers
  that tests keep of singleton clients is left out of `RedisClient`, and so are
  the single indicators of a health check, which keep no state.

## Plan

Done, in this order:

1. `AuthRows`, `Verification`: what an account should rest on.
2. `Membership` on top of `AuthRows`.
3. `SocialLogin`, `Passwords`, `Preferences` with `Marks`.
4. `Reviews`, `Feedback`, `RateLimit`, `RecentFoods`, `Metrics`.
5. `SbizImport`, `CsvLine`.
6. `Search` over changing tables; `Reports`; `RedisClient`, `RequestLog`, `Redact`.

7. Proofs of the safety properties of all of these, except the ones listed under
   *What only TLC checks*.

Left:

8. Liveness of `Verification`: a member who keeps asking for a code is verified
   in the end, when mails arrive.
