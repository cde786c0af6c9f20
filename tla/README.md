# Verification of the portfolio builder backend

TLA+ models of the backend's stateful core, TLC configurations that check them
on small instances, and TLAPS proofs for every value of the constants. Source
paths are relative to the repository root; the code is under `src/`.

## 1. The system

A NestJS 10 application, one Node.js process under systemd
(`Restart=on-failure`), on Postgres (TypeORM), Redis (ioredis), BullMQ queues
and Cloudflare R2. Three facts shape everything below:

- **No transactions.** No service opens one; each repository call stands alone.
- **Whole-row saves.** A handler loads a row, changes the object and calls
  `repo.save(row)`. All loaded columns that differ from the stored ones are
  written: what changed in between is put back.
- **Everything interleaves at `await`.** Between two statements of a handler any
  other handler, event listener or queue worker may run, and the process may
  die.

### Components

| Component | State | Operations | Hard because | Correct when |
|---|---|---|---|---|
| **Sessions** `auth/session.service.ts` | `sessions`: user, token hash, `revoked_at`, `replaced_by_id`, `expires_at` | `issue`, `rotate`, `revokeByToken`, `revokeAllForUser`, `revokeChain` | rotation is read, insert, save; the chain walk reads row by row; stale saves; crash between insert and save | revoked is for ever; chains lead from parent to own child; a credential change cuts off older logins; replay kills the lineage |
| **Auth** `auth/auth.service.ts`, guard, JWT | – (`users`) | register, login, refresh, logout | access tokens are checked by signature alone | – |
| **Users** `users/users.service.ts` | `users` row, Redis entry of a pending e-mail change | profile, password, e-mail change, deletion | whole-row saves of one row by many handlers | no handler undoes another's credential change |
| **Accounts** `account/*` | `verification_tokens`, `password_reset_tokens`, mail queue | request/redeem verification, reset, e-mail change | token checked and marked in two statements; several rows per redemption | a token works once; failure leaves it usable or its effect complete |
| **OAuth** `oauth/*` | `oauth_accounts`, Redis one-time codes | callback, `linkOrCreate`, exchange | GET then DEL; user then link | a code gives one session; an identity leads to one account |
| **Tenants** `tenants/tenants.service.ts` | `tenants`: owner, subdomain, custom domain, status | get-or-create, `setSubdomain`, availability | probe then save; row shared with publish and domains | one tenant per owner; an address belongs to one tenant |
| **Portfolios** `portfolios/portfolios.service.ts` | `portfolios`, `portfolio_revisions` | settings, section upsert/delete, publish, unpublish, restore | three saves per publish; two rows to keep in agreement; stale editors | what is online has a revision; both rows agree whether it is online |
| **Public site** `public/*` | Redis config cache (60 s) | `resolveConfig`, inquiry, page view | fill races publish; invalidation by an un-awaited listener with old addresses | only published content is served; the cache converges |
| **Event bus** `common/events` | listeners | `emit` | fire and forget | – |
| **Rate limiting** `common/rate-limit` | Redis counter with expiry | `hit` | INCR, EXPIRE, TTL are three commands | bounded admissions; every counter ends |
| **Domains** `domains/*` | `domain_verifications`, queue | request, verify, worker, unbind | worker and requests write the same rows; follow-up jobs | a bound domain was verified; bounded checks |
| **Assets** `assets/*` | `assets`, R2 objects, queue | sign, confirm, delete, process, purge | minutes of work between load and save | a deleted asset stays deleted; its objects go |
| **Inquiries** `inquiries/*` | `inquiries`, mail queue | submit, list, update, mail job | stored, then enqueued by a listener; retries | every inquiry is mailed, ideally once |
| **Analytics** `analytics/*` | `page_views`, `daily_stats`, queue | record, roll up, prune, query | repeated, late, missed rollups against pruning | a day's figures do not depend on when it was rolled up |

Interactions: login, register, OAuth exchange, password change and reset all end
in Sessions; Portfolios, Tenants and Domains write the same `tenants` rows;
Portfolios emits the events that Public site's cache listens to; Public site and
Auth go through Rate limiting; Inquiries and Assets hand work to queues.

## 2. What is modelled

| Module | Models | Checked by | Proved in |
|---|---|---|---|
| `SessionLifecycle` | what a client of the session store may rely on (abstract) | `ImplementsLifecycle` | `SessionsProofs` |
| `Sessions` | the session store and every handler that reaches it | `MCSessions` | `SessionsProofs` |
| `Accounts` | the users table, its tokens, links and events, and everything that writes them | `MCAccounts` | `AccountsProofs` |
| `OAuth` | sign-in through a provider: state, account, link, one-time code | `MCOAuth` | `OAuthProofs` |
| `Tenants` | first access with its generated subdomain, the choice of another, the other writers of the row | `MCTenants` | `TenantsProofs` |
| `Publishing` | the portfolio editor, publish/unpublish, and the tenant row they share | `MCPublishing` | `PublishingProofs` |
| `PublicSite` | extends `Publishing` with the cache, its fills and its invalidation | `MCPublicSite` | `PublishingProofs` |
| `Domains` | claims of custom domains, checks, binding, the queue with its follow-up jobs | `MCDomains` | `DomainsProofs` |
| `Assets` | uploads, R2 objects, processing and purging | `MCAssets` | `AssetsProofs` |
| `Visitors` | inquiries with their mails; page views with their nightly rollup and pruning | `MCVisitors` | `PublicEndpointsProofs` |
| `RateLimit` | `hit` on one key, with a clock | `MCRateLimit` | `PublicEndpointsProofs` |

### Conventions

- One **action per statement** to Postgres, Redis, a queue, R2 or the network,
  with the synchronous code up to the next `await`. Handlers in flight are
  records in `req`: `pc` is the statement to come, the other fields what the
  handler carries across the await. `Arrive` starts one, `Continue` goes on.
- **`save` is one step** that writes the carried row over the stored one. TypeORM
  issues a SELECT to find the changed columns and then an UPDATE of these; the
  gap between the two, in which a concurrent change of a column that happened to
  be equal would survive, is abstracted away.
- **`Abort`** is at once a failing statement, a lost connection, a refused save
  and the death of the process: the handler is gone, what it wrote stays. A
  process death is a sequence of `Abort`s. A worker's `Throw` puts its job back
  until its attempts are used up.
- **Stalled jobs.** BullMQ gives a job whose worker does not renew the lock in
  time to a worker again, once, and gives it up the second time; the first
  worker may be dead or only held up, and then its run goes on beside the
  other (`Domains!WorkFork`, `Assets!Stall`, `Visitors!Stall`). How such a run
  ends, the queue no longer looks at.
- **Slots** (`Req`, `Fill`, `Job`) bound how many handlers or jobs are in flight,
  not how many run in total. `Calls`, `Ops`, `Forms` and `Workloads` say which
  operations a run invokes, by slot or tenant.
- **History variables** are declared apart and are read by properties only. They
  say which exception a property grants and why; each exception is a race the
  code really loses.
- Definitions headed *Mutation* are faulty variants of the definition after
  them, kept to show that each property notices a plausible bug.

### Sessions

`sessions` is the table; a session id stands for its refresh token too.
`Login`/`Issue` is login, register and OAuth exchange;
`RotateRead`/`RotateInsert`/`RotateSave` is `rotate`; a replay starts
`WalkStep`* `RevokeChain`; `LogoutRead`/`LogoutSave` is `revokeByToken`;
`CredentialChanged`/`RevokeAll` is the end of `changePassword` and
`resetPassword`. `CredentialChanged` allows the spared id to be any session ever
handed out to that user, because the guard checks an access token's signature
and nothing else.

### Accounts

`user`, `token` and `stash` are the tables and the Redis entry of a pending
change of address; `events` are emitted events whose listener has not run. A user
row is the address, its verified mark and the password hash: the fields whose
loss matters. Registration, the three requests, the three redemptions
(`Redeem`, `MarkUsed`, `GetNew`, `DelNew`, `LoadUser`, `CheckFree`, `MarkReset`),
profile edit, password change and deletion all end in `SaveUser` or `RemoveUser`.
A link is redeemed only if it was enqueued for an address (`mailed`). The order
matters and is kept: e-mail links are marked used before the work, reset links
after it. `stale` names the handlers whose loaded row was written meanwhile.

### OAuth

`BeginFlow` puts a state into a hop; `Callback` checks it (`StateStands`), has the
provider take the code that came with it (`TakeCode`) and takes any profile of
`Profiles` as the provider's answer; `FindLink`, `FindUser`, `FindEmail`,
`CreateUser`, `SaveLink`, `IssueCode` are `linkOrCreate` and what follows;
`Exchange`, `DelCode`, `FindOwner`, `IssueSession` are `exchangeOtcForSession`. A
profile without an address gets the placeholder of its identity.

### Tenants

`Get` is `getOrCreateForUser`: `FindOwn`, `LoadOwner`, `Probe`, `Insert`, and
`Refetch` after a refused insert; `SetSubdomain` runs the same steps first if
there is no row (`want`), then `CheckTaken` and `SaveTenant`. The generated names
are the set `Slug`: each probe draws one. `Load` and `SetDomain` are the other
handlers that save the row they loaded.

### Publishing

`resolve` is three actions (`ResolveTenant`, `ResolvePortfolio`,
`CreatePortfolio`); the latter two go on (`Proceed`) to the operation's first
save; `getForUser` and `listRevisions` (`read`) end there, but create the row as
well. The four editor operations differ in what they do to the loaded row
(`Edits`) and share `SaveDraft`. publish and unpublish are `SavePublished`
(`InsertRevision`) `SaveStatus`. `SetSubdomain`/`ProbeSubdomain`/`SaveKeys` and
`SetCustomDomain`/`SaveKeys` are the other writers of the tenant row; the
unique constraints are `KeysFree`, a save that runs into one is `SaveRefused`.
`restoreRevision` reads the revision in the step that reads the portfolio:
revisions are never changed or deleted and a client can only name one that
exists, so the two reads commute. Template, theme, fonts and the enabled
sections are one field, `enabled`; section bodies are members of `Body`.
A tenant row exists from the start; its creation is in `Tenants`.

### PublicSite

`FillMiss`/`FillTenant`/`FillPortfolio`/`FillStore` is `resolveConfig` on a miss, one
action for each of its two cache commands and two queries.
`Announce` replaces `SaveStatus`: saving the status and emitting the event are
one step, since nothing is awaited between them; the listener's DEL is the later
action `Invalidate`, or `LoseInvalidation`. A host is the subdomain or domain it
resolves to, and its own cache key. Of the stored config the model keeps the
tenant, the published sections and the settings; owner name and addresses
inside it are left out. `workload`, chosen at the start, is the set of
operations a behaviour invokes.

### Domains

A claim is a pair of a tenant and a domain; `verif` is the status of its row,
`new` a pending one never checked. What a DNS lookup finds is a choice.
`requestVerification` is `Request` `CheckConflict` `FindExisting` `CountRows`
`InsertRow`; verify is
`Verify` ... `VerifyEnqueue` or `SaveTenant`; the worker is `WorkLoad` ...
`WorkFollowUp`, which enqueues the next job; `WorkFork` is a worker that stalls
after that and whose job runs again beside the follow-up. `Age` lets a day
pass. Clearing a domain (`SaveDomain`) starts a new count of proofs.

### Assets

`objects` is the bucket, `row` the table by key, `urls` the presigned PUTs still
valid. confirm is `Confirm` (the HEAD), `ConfirmFind`, `ConfirmInsert`,
`ConfirmEnqueue`; delete loads the row, marks it and enqueues a purge of the
variants the *loaded* row names. The process worker downloads, puts two
derivatives one after the other and saves the row it loaded at the start; the
purge worker deletes object by object, and an object R2 refuses is only logged.
A processing that stalled goes on in its slot with no attempt `left`, and its
job is queued again in another; `stalled` are the keys that used up the one
stall BullMQ forgives.

### Visitors

Inquiries: insert, event, listener, mail job with retries (`queued`, `tenant`,
`owner`, `send`), what is left of a stalled run of it (`stray`), markRead as load
and save, delete. Page views: a view carries
the day it was stored and the day its visitor hash was salted with, which differ
around midnight. The nightly job becomes due once a day and may run late, again,
or break off; it adds up the day before the one it runs on (`RollupLoad`), saves
tenant by tenant, and prunes.

### RateLimit

`Incr`, `Expire`, `Answer` are the three commands of `hit`. Time passes in ticks,
`Resolution` of them to a second: Redis ends a counter to the millisecond, but
`TTL` answers seconds, rounded to the nearest (`Seconds`): 0 in
the last half second, when `ResetSec` falls back to the window's length.
The counter is capped one above the limit, beyond which the code tells no two
values apart, so no bound on the number of hits is needed. `admitted` counts the
hits allowed a tick ago, two ticks ago and so on; `AtMostTwiceTheLimit` is
about the set of them, `Admissions`.

## 3. What the passing runs show

| Run | Question | Instance |
|---|---|---|
| `Sessions` | links, credential changes, what rotations and replays leave live, refinement of `SessionLifecycle` | 1 user, 3 sessions, 2 handlers, 1 credential change or expiry (or both, if they overlap) |
| `Accounts` | no save undoes another's change; a verified address was proven; a link takes effect once | 2 users, 2 addresses, 2 passwords, 2 links, 2 handlers, 2 registrations |
| `OAuth` | one session per code, one account per identity, no account out of reach | 3 users (1 with a password), 2 addresses, 2 identities with 5 profiles, 3 hops, 2 codes, 2 handlers |
| `Tenants` | what racing first requests answer; what a save of a tenant row changes | 2 users, 3 subdomains (2 generated), 1 domain, 2 probes, 2 handlers, one account may go |
| `Publishing` | revisions and status of one portfolio while another tenant competes for the custom domain and changes its subdomain | 2 tenants, 1 section, 1 body, 3 subdomains, 1 custom domain, 2 handlers |
| `PublicSite` | what a visitor can be served, what an address is left with, and that the cache converges | 1 tenant with 2 subdomains, 1 section, 1 body, 1 editor with 3 workloads (the settings beside the content, and beside the address), 1 fill, 1 pending deletion, fairness |
| `Domains` | a bound domain was proven; the limit per tenant under races | 2 tenants, 2 domains, 3 claims, limit 1, 1 attempt, 2 handlers, 1 job |
| `DomainsSettles` | a pending claim is being chased and settles | 1 claim, 2 jobs, 2 attempts, 1 handler, an account that may go, fairness |
| `Assets` | lists serve, deletions leave nothing, one job per image, processing ends | 1 image, 1 PDF of which one is uploaded, 2 attempts and a stall, 2 handlers, 2 jobs or runs, fairness |
| `Visitors` | every inquiry is mailed; a day's figures | 2 tenants, 1 inquiry, 2 views, 2 visitors, 2 attempts and a stall, 4 days, pruned after 2 |
| `RateLimit` | admissions, retry times, ends of counters, and that windows close | limit 2, window of 2 s in thirds, 3 requests, fairness |

**Why these bounds.** Two handlers show every pairwise race; each property speaks
of what one handler carries while others write, and a third handler adds another
writer of the same kind. Three sessions are the shortest lineage with a middle: a
replay at the head has to walk over a link to reach a tail; one credential
change splits logins into before and after; what concerns several users
(`revokeAllForUser`'s WHERE clause, ownership) is proved for any number
(section 5). Two links of an account are an old and a new one; the second user
takes an address the first may change to. Three hops are two racing callbacks
and a later one; the five profiles give an identity two verified addresses,
another the same address verified, unverified or missing. Two of three
subdomains can be generated, so one is only ever chosen, and two probes can both
fail. A section that holds a body or nothing tells a snapshot from a later
draft. A limit of one with two claims is exceeded by one race. Two jobs are a
stalled one beside its follow-up or its own second run, or a purge beside the
processing it races with; a third slot in `Assets` would only add a second run
beside that purge, of a key that is *crossed* already. Two attempts are one
retry. Four days with
pruning after two let a day be counted, counted again, and pruned. A window of
two seconds in thirds with a limit of two has room for bursts at both of its
edges and a third request to be denied; a third of a second is what TTL rounds
up or down, and the last third is rounded to nothing.

`updateSettings` is left out of the `Publishing` run (it writes the same row as
the section editors and would double the draft's states); `PublicSite` invokes
it, as its fields are part of what is served. `Visitors` checks inquiries and page views as two
workloads, which share nothing but the tenants.

**Symmetry** is used on members the models never tell apart (no CHOOSE) and
whose operations are the same: sessions and handlers in `Sessions`; links in
`Accounts`; handlers, hops, codes and new users in `OAuth`; handlers and
subdomains in `Publishing`; views and visitors in `Visitors`. Runs with liveness
properties use none.

**Deadlock** is not checked where ids are finite and nothing may be left to do:
`Sessions*`, `Accounts`, `OAuth`, `Visitors`, `Assets` use up sessions, links,
codes, days or keys; in `DomainsSettles` the only account may leave.

**Fairness.** `PublicSite!FairSpecSite` assumes that a handler in flight goes on
(the event loop resumes every settled promise; Postgres and Redis answer or
fail), that Redis expires keys and that listeners run - or fail, which counts.
`Domains!FairSpec` assumes that the worker keeps taking jobs and that days pass,
`Assets!FairSpec` that handlers in flight and workers go on, `RateLimit!FairSpecLimiter`
that time passes and Redis answers. Clients owe nothing, and a worker may throw at every step: jobs
that run out of attempts are an exception the properties name (`lost`).

The exceptions are part of what is shown:

- `CredentialChangeCutsOff`: sessions being minted when `revokeAllForUser` runs
  (*stragglers*) survive it; nothing else from before does.
- `OneLiveToken`, `ReuseKillsLineage`: hold for lineages in which no rotation
  overlapped another handler on the same lineage or died (*untainted*).
- `NoLostUpdate`, `NoAddressLost`, `AnswerIsStored`: but for handlers whose loaded
  row was written meanwhile (*stale*). A stale profile edit puts an old password
  hash back.
- `TokenOnce`: but for links redeemed twice at a time, or by a handler that died
  after a reset and before it marked the link (*excused*).
- `OneSessionPerCode`: but for two exchanges between GET and DEL (*crossed*).
- `AccountInReach`: but for a callback that failed between user and link (*torn*).
- `PublishedHasRevision`: but for a publish that died before its revision
  (*torn*).
- `StatusAgrees`: but for handlers that overlapped a publish or unpublish, and
  for one that died (*dirty*).
- `InvalidationReaches`: but for fills and address changes that crossed a
  publish, and lost deletions (*excused*), for at most the 60 s of the entry:
  `CacheConverges`.
- `BoundWasProven`: a handler at work during an unbind may bind again (*held*).
  `LimitKept`: overlapping requests exceed the limit by one each (*crossed*).
  `PendingIsChased`, `JobSettles`: but for jobs that gave up (*lost*).
- `ListedServes`, `DeletedLeavesNothing`: but for an asset deleted while it was
  processed (*crossed*); the latter also but for objects no row names (*litter*).
- `RetryAfterNearlyKept`: TTL rounds, so a denied client that waits as told may
  still meet the counter that denied it, in its last half second.
- `InquiryIsMailed`: but for a lost event or last attempt (*lost*) and a deleted
  inquiry saved again (*revived*); a second mail needs an unanswered first one
  (*unsure*) or a stalled run (`stray`), and there is no more than one for each
  attempt and one for that run. `StatsKeepTheCount`: a pruned view was counted if the rollup of its
  day got through (*complete*).

## 4. Where code and documents disagree

`SessionsReplayClaim` checks the comment at `session.service.ts:49-51` (a replay
revokes "the whole chain") and finds a counterexample: a logout's stale save
erases the link to a successor, and the replay misses it.

Other sentences are contradicted by the exceptions of section 3, or by what a
reader of the models meets on the way:

- `account.service.ts:189-191`: a reset ends all sessions; stragglers survive it.
- `users.service.ts:125-127`: changing the password keeps the caller signed in;
  after a refresh, an older access token spares the rotated session and the live
  one is revoked.
- `users.service.ts:150-154, 170`: a deleted account's objects are queued to be
  purged; nothing enqueues them. An account without a password (OAuth) cannot
  delete itself, as the password is asked for.
- `BACKEND-TASK.md:599-604`: only publish and unpublish change what is online; an
  editor's stale save takes the published column back.
- `BACKEND-TASK.md:692`: publish is one transaction; publishes can be torn.
- `rate-limit.service.ts:20-22`: counters expire; orphans do not.
- `tenants.service.ts:127-131`: every refused save is answered with "That subdomain
  is already in use", also one refused for a stale custom domain.
- `account.service.ts:233`: `pruneExpired` of the tokens is "wired to a BullMQ
  repeatable"; nothing calls it, nor that of the sessions.
- The nightly rollup saves tenant by tenant in one attempt: an account deleted
  meanwhile ends it, and the other tenants' day stays uncounted.

## 5. What is proved

For any values of the constants, from the named assumptions of the modules alone.

`SessionsProofs`:

- **`Invariance`**: `IInv` is inductive. `ReplacedByOwnChild` and
  `CredentialChangeCutsOff` are not inductive by themselves, because a save
  writes a row loaded earlier. `IInv` adds what makes these carried rows
  harmless: `CarriedRowsOK` (a carried row differs from the stored one in
  `revoked` and a missing link at most, and a successor waiting to be linked is
  the row's own child), `MintersExcused` (a handler about to mint on an old login
  is a straggler or rotates an excused session) and `LinesStored`.
- **`TypeCorrect`**, **`ChainsAreLines`** (`ReplacedByOwnChild`), **`CutOff`**
  (`CredentialChangeCutsOff`) follow from it. Lines grow strictly along
  `replaced_by_id`, so a chain has no cycle and `revokeChain`'s loop ends.
- **`Refinement`**: `Spec => ImplementsLifecycle`. Inserts are `Mint`s of absent
  ids; saves and bulk updates are `Revoke`s, for which `CarriedRowsOK` is needed
  again: the carried row has the stored row's user, and every row written back
  is revoked.

`AccountsProofs`, with `IInv` of four parts beside the types:

- `Born`: ids and links in use were given out, so an insert meets no old row.
- `Fresh`: a carried row of a handler that is not stale is the stored row with
  the handler's own change. **`NoUpdateLost`** (`NoLostUpdate`) follows.
- `Once`: of an unexcused link there is one redeemer at most, and none once it
  took effect. **`TokensOnce`** (`TokenOnce`) follows.
- `Proven(home)`, for some assignment `home` of the address each user registered
  with: every row, carried or stored, stale or not, is unverified with that
  address or verified with one whose mailbox was shown; a verification link is
  only ever about the former, a change link about the address it was mailed to.
  **`VerifiedProven`** (`VerifiedEmailProven`) follows and needs no exception for
  stale saves.

`OAuthProofs`: `IInv` adds to the properties that ids in use were given out
(`IdsGivenOut`), that a handler past the link lookup carries the account it leads
to (`LinksLead`) and that a code has one holder (`CodesOnce`): **`OneSession`**,
**`OneAccount`**, **`InReach`**, **`TypeCorrect`**.

`TenantsProofs`: `Fresh` says that a carried row of a handler that is not stale is
the stored row, or *fits* it: the stored row with the handler's own change.
**`AnswersAreStored`**, **`NoAddressIsLost`**, **`TypeCorrect`**.

`PublishingProofs`, with `IInv` of five parts beside the types:

- `Accounted`: the published column of every stored row *and of every row an
  editor carries* has its revision, was torn, or belongs to a publish about to
  insert it. Without the carried rows it is not inductive: a stale save brings an
  older column back. **`RevisionsKept`** (`PublishedHasRevision`) follows.
- `Overlaps`: whoever works beside a publish or unpublish of the same tenant is
  dirty, so a clean one is alone. `CarriedAgree`: a clean editor of a clean tenant
  carries a row that is online if the stored one is; a clean publish carries the
  stored keys and knows what it made of the portfolio. `KeysUnique`: the unique
  constraints. **`RowsAgree`** (`StatusAgrees`) follows, and
  **`UndisturbedIsNotRefused`**: the last save of a publish that overlapped
  nothing is never refused, so it cannot end half way for that reason.
- **`TypeCorrect`** (`TypeOK`).

The public site is proved in the same module, over `SpecSite`, with `SiteIInv`:
`ServedAccounted` (what is cached or on its way into the cache has its revision
or is torn), `FillsFresh` (a fill nothing crossed has read what the rows still
say) and `CachedAtOwn` (an entry that is not excused is at an address its tenant
still has). **`OnlyPublishedServed`** (`ServesOnlyPublished`), **`EventsReach`**
(`InvalidationReaches`), **`SiteTypeCorrect`** (`SiteTypeOK`). It rests on `IInv`
above: a stale save that brings an old draft row back must not bring back a
published column without a revision.

`DomainsProofs`, with `IInv` of four parts beside the types:

- `Carried`: what a handler or job is about to bind or save as verified is proven
  or held, and the row it will save exists - no save brings a row into being but
  `requestVerification`'s insert. **`BoundProven`** (`BoundWasProven`) follows.
- `Limits`: rows and requests about to insert one, counted together, stay below
  the limit plus the number of slots; a tenant that is not crossed has one
  request in flight at most and stays within the limit. **`Limit`** (`LimitKept`)
  follows, by the library's theorems on cardinality. It assumes that `Req` and
  the claims `Early` of the initial state are finite, the latter within the limit.
- `PendingIsChased` is inductive with these: **`Chased`**; and **`TypeCorrect`**.

`AssetsProofs`: `Fits` (what a handler or worker is about to do matches the row and
the bucket), `Apart` (no delete overlaps the processing of its key unless it is
crossed), `Accounted` (a derivative in the bucket is named by its row or by the
worker about to name it), `Purged` (an object of a deleted asset is in the list
of a purge) and `Single`/`Chased` (one handler or job per image; the run of a
stalled job no longer counts as one, though it may put objects and save the
row). **`Serves`**
(`ListedServes`), **`LeavesNothing`** (`DeletedLeavesNothing`), **`OneJob`**
(`OneJobPerImage`), **`TypeCorrect`**.

`PublicEndpointsProofs` is about the rate limiter in front of the public endpoints
and what their visitors leave behind; the two share a module and no state.

- **`Admitted`** (`AtMostTwiceTheLimit`): `TwoWindows` splits the admissions of the
  last `Window` seconds into those of the present counter, at most
  `min(count, Limit)`, and those of the one before, at most `Limit`, which leave the
  window before the present counter ends - however late its EXPIRE came. A tick
  shifts the set of admissions; that none are gained by it is an injection.
- **`CountersEnd`** (`OnlyOrphansLackAnEnd`), **`RetryAfter`** (`RetryAfterNearlyKept`),
  **`LimiterTypeCorrect`**: expiries and promises belong to an existing counter
  (`PromisesHaveCounter`), and what TTL answers is never half a second less than
  what is left (`SecondsAreNear`), whatever the resolution of the clock.
- **`InquiriesMailed`** (`InquiryIsMailed`): per inquiry, everything that speaks of
  it - event, job, row, the row a handler carries - names the same tenant
  (`OneTenant`), so a job that finds its tenant gone finds its inquiry gone too;
  no mail was taken before the job's last attempt but in doubt or by a stalled
  run (`MailedOnce`); and mails taken and attempts left stay within the budget of
  attempts and the one stalled run (`Budgeted`).
- **`FiguresCount`** (`StatsKeepTheCount`): `Counted` says that a day's figures are the
  tally of all the views it ever had and only of days that are over, `RollsUp` the
  same of what the worker holds, `Kept` that views younger than `PruneAfter` are
  all there, so the job that adds up yesterday misses none. **`TypeCorrect`**.

`SessionsProofs` also proves, for lineages of any length, **`OneToken`**
(`OneLiveToken`) and **`ReuseKills`** (`ReuseKillsLineage`). `LineageInv` describes
the lineages that are not tainted: they have no branches (`Unbranched`), every
session in them leads on or is about to be linked (`Linked`), a rotation is
alone (`Exclusive`) and at the end of the line (`AtEnd`), a walk has passed the
live session or leads to it (`Covers`), and after an alarm all are dead
(`AlarmedDead`).

The type invariants of `Sessions`, `RateLimit` and `Tenants` are shown by proof
only, the other runs check theirs as well. The strengthened invariants were
checked by TLC on the instances of section 3 before they were proved. The
assumptions on the constants are those of the modules (`...Assumption`), which
every run evaluates: numbers are natural and not zero where the code's are, sets
of calls are well-formed, `None` is no row.

## 6. What is only model-checked

- Liveness (`CacheConverges`, `WindowCloses`, `JobSettles`, `ImageIsProcessed`):
  fairness and ENABLED are out of the proof system's reach.
- The refutation in section 4: a counterexample needs no proof.

Every invariant and every action property a run checks is a theorem, and so is
the refinement of `SessionLifecycle`.

## 7. Not modelled, and what is left

Not modelled: password hashing, JWT signing, captcha, OpenAPI, filters, pipes,
metrics and configuration (stateless or library code); the row-level security
migration, whose settings the application never sets; queries that only read
(`AnalyticsService`, lists, details, `checkSubdomainAvailability`, `getProfile`);
the parsing of host names, section schemas, mail texts and image bytes (data the
properties do not tell apart); `pruneExpired` and `RateLimitService.reset`, which
nothing calls; what an account deletion does outside its own row, tenant and
claims (sessions go with a cascade, R2 objects stay); stalled runs of the purge
worker, which would delete again what is deleted, and of the nightly rollup,
which would save the tally its second run saves; two tenants that exchange
an address while it is cached (`PublicSite` is written for it, its run has one
tenant).

Left: an abstract publication log that the revisions of a portfolio and the cache
of the public site implement, shown step by step as `SessionLifecycle` is.
