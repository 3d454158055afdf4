# Verification of the case management frontend

The program is a Hapi server that renders pages for the regulators' case
workers and calls a work management backend (management-be). It keeps no
business data. What it does keep is sessions (yar on a shared cache), a registry
of sign-ins and a directory of assignable users. What is hard in it is not
computation but order: a handler reads a case, decides, and then makes up to
four calls, awaiting each, while other case workers, the operator and abandoned
calls change the case underneath it.

The project models that part, and the rules of the forms and of the list, whose
boundaries a test seldom reaches. Paths below are relative to `src/src/server/`.

## 1. Inventory

| Component | State | Operations | Hard behaviour | What makes it correct |
|---|---|---|---|---|
| Lifecycle and engine (`work-items/re-accreditation/module.js`, `work-items/core/engine.js`) | none: a declaration | which actions a state offers, where "Assign to yourself" starts a case | the declaration mirrors the backend's but cannot repeat its second copies of four actions | every open state shows a way on that the backend takes |
| Gates (`decision/eligibility.js`, `duly-making/eligibility.js`, `re-accreditation-cta.js`, `assignment-view-model.js`, `detail.controller.js`) | none | which control a page draws | a page is as old as the tab it is in | in the waypoint exactly one of Duly make and Continue review |
| Ensure assessment started (`work-items/core/ensure-assessment-started.js`) | none | assign if unassigned, then start | check, assignment and start are three calls | no takeover, and a partial failure is reported |
| Determination (`decision/controller.js`, `decision/service.js`) | none | read, start, note, decide | four calls, each may fail or be lost | at most one determination, never without its promised rationale |
| Contact confirmation, Continue review, Duly making, Query, deadline | none | at most a read, and one call | replays, refusals, lost answers, no gate on the POST of some | banners that say nothing was changed are true |
| Assignment (`detail.controller.js`, `work-items/core/service.js`) | none | assign, unassign, claim and start | claims race | a holder seen is kept |
| Backend client (`common/helpers/backend-api/backend-api.js`) | none | `postJson` with a timer | an answer may be lost, a call served late | every request is answered |
| Concurrent sign-ins (`common/helpers/auth/concurrent-login.js`) | session keys, registry | record, notice, dismiss, clear | reads and sets interleave, each may fail, logout does not wait, overlapping requests of a session each store their own copy of it | both sessions are told, a dismissed notice stays gone |
| Sign-in (`routes/auth/controller.js`, `routes/auth/stub/controller.js`, `common/helpers/auth/auth-redirect.js`) | OAuth state and redirect stash in the session | login, chooser, callback, logout | several tabs, stale stashes, failed callbacks | no page of an abandoned attempt is replayed, and a remembered page is gone to by exactly those it is for |
| Assignable users (`common/helpers/auth/assignable-users-store.js`) | a Redis hash | upsert, remove, list, find | a background prune races a sign-in | someone who has just signed in is listed |
| Session store (yar, `common/helpers/session-cache/`) | a record per identifier, the browser's cookie | read, store whole, reset | overlapping requests, the last one answered decides | an identifier never changes hands |
| Work item list (`routes/work-items/controller.js`) | the last search, in the session | filter, page, remove a tag, clear, land | several tabs share one saved search, links leave out defaults | a bare landing brings the last search back, a link changes only what it says |
| Determination deadline (`routes/work-items/sla.controller.js`, `sla.service.js`) | none | check, send a duration | UTC and London days, two bounds, a move relative to what was read | the date typed is the date that lands |
| Payment date (`duly-making/payment-date.js`, `re-accreditation/change-payment-date/`) | none | check, send | a page as old as its tab, a floor twelve months back | every date taken is in bounds at that moment |
| Recycling operations (`routes/work-items/recycling-operations-edit.controller.js`, `recycling-operations.schema.js`) | none | check codes, send | a site removed meanwhile, a stale form, rules only the backend has | codes stay sound for the material |
| Create, audit log, application summary | none | validation and projection | none | not modelled |
| Configuration, templates, client scripts, CSRF and CSP | none | read once or pure | none | not modelled |

The components interact only through the case at the backend (all handlers), the
session (sign-in, notices, saved search, flash) and the registry (sign-ins). `PROJECT.json`
lists each of them with its status, and the hazards at their lines.

## 2. The modules

**Lifecycle** is pure: the declared transitions as sets of `<<action, from, to>>`,
what the engine reads off them, and one operator per gate. A case is seen
through its state and its origin (the DTO's `originStateId`). The backend's
second copies of actions, which the declaration explains but cannot state, are
`SecondTransitions` and `DeadlineTransition`.

**CaseWork** is the core: one case, a set of `Requests`, each one pass of a case
worker through one control. Its variables are the case (`state`, `origin`,
`holder`, `querier`, `clock`), the network (`served`, the calls that changed the
case, and `late`, the calls given up on that may still be served), and one
handler per request (`form`, `pc`, `reply`, `seen`, `told`).

| Action | Code |
|---|---|
| `OpenPage` | the GET of the detail page: a control is drawn if `Offered` holds then |
| `Submit` | the POST arrives, any time later |
| `Read`, `ReadFails` | `getWorkItem` in the decision, deadline, query, confirmation and claim handlers, and what each decides on it (`Refusal`, `FirstCall`) |
| `Receive` | the awaited call returns: the next call (`NextCall`) or the banner (`WhatTold`, `FirstTold`) |
| `TimeOut` | `postJson` aborts or the connection breaks. The call may have been served, may be served later, or never |
| `Accept`, `Replay`, `Refuse` | the backend takes a call, answers a repeated one without effect, or refuses it |
| `Resubmit`, `Withdraw` | the operator, outside this service |

`FirstCall`, `NextCall`, `WhatTold` and `FirstTold` together are
`ensureAssessmentStarted`, `recordWorkItemDecision`, the self-assign and deadline
handlers and their banner functions: they say which call follows which, and what
the user is told when one fails. The handlers of the nine controls differ only
there. The backend's half is external. It is what the declarations, the client's
comments and the handlers' branches rely on: a from-state guard per action, the
determination's two hops in one call, `SlaService.ExtendAsync` without a check
for closed cases, replays of a determination with the same outcome
(`backend-api.js`, 746-750), of Continue review and of confirmation. A case starts
in any state that an earlier history can have left.

**Determination** is the abstract specification: an open case is determined at
most once, by a request whose promised rationale is on file, the outcome is then
applied and never another, and only an open case is withdrawn. What follows from
that is stated there too (`DeterminedOnce`, `OutcomeStands`). `CaseWork` implements it
under the mapping at its end (`ImplementsDetermination`) and so inherits both.

**ConcurrentLogin** models the sign-ins of one identity: the registry entry, per
session its sign-in's stamp and what the session store has of its note and its
dismissal (`stored`), and the tabs of the sessions' browsers. Each registry call is
awaited on its own, with a failing variant, since the code swallows the failure.

| Action | Code |
|---|---|
| `SignIn`, `ReadPrevious`, `Store` | `markLoginAndNotifyPrevious` and `recordLogin`: stamp, get, set |
| `Load`, `View` | `concurrentLoginNoticeExt`: the request has loaded its copy of the session, then the registry answers and a notice is chosen |
| `AnswerPage`, `AnswerStoring` | the page is answered; one that kept something in the session, as the list its filters, stores its copy whole |
| `Dismiss`, `Reach`, `AnswerDismissal` | `dismissNotice`: load, the registry's answer, store |
| `SignOut`, `Clear` | `logout` and the `clearLogin` it does not wait for |

Requests of several tabs of a session overlap, each with its own `copy`. Ghost
variables: `dismissed` holds what each session has dismissed; `trouble` (a registry
call failed or the entry expired) and `overlap` (two sign-ins were under way at
once) say when the code promises nothing; `stale` marks a request whose session was
loaded before a later dismissal, and `undone` a session over whose dismissal such a
request has stored its copy.

**AssignableDirectory** models the Redis hash of assignable users. A sign-in is
three steps (Entra ID's token, the stamped write or deletion that is sent, its
arrival), a read is two (the fetch, and what it then shows and prunes), and a
background deletion arrives later, possibly more than once. Several instances
share the hash, so commands arrive in any order. Two ghost variables: `ideal` is
what the sign-ins alone have made of the directory, and `raced` who signed in
while a read or a deletion under way might prune them.

**WorkListSearch** is pure: a query string as a record of the parameters the
route reads, `ReadFilters` (with `ResolveNations`, `ResolveSort`,
`ResolveAssigneeMode`) as it is read into filters, `BackendQuery` as it is asked of the
backend (`StateIdsOf`, `WasteProcessingTypes`, `ToBackendMaterial`), `Href`, `Chips` and
`WithoutFilter` as the page's own links carry it on. `AsTicked` is the reference
definition: what a reader takes a tick to mean, from the options' texts and the
items' cards. `Matches` is external. The states it is about are those `Lifecycle`
declares.

**WorkList** puts the list in a session with several tabs. A request decides on
its arrival which query it works from (`Arrive`), and its copy of the session is
stored when the backend has answered (`Answer`), so that answers of two tabs may
come in either order.

| Action | Code |
|---|---|
| `Land`, `Follow`, `SubmitForm` | the GET of the list: bare, from a link, from the form |
| `FollowPageLink`, `RemoveChip`, `ClearAll` | the links that `buildPagination` and `buildActiveFilters` draw |
| `Answer` | the rest of the handler after `listWorkItems`, and yar's commit |
| `SignIn` | a new session: nothing saved |

**EditRules** is pure: the validators of the three edit forms, the backend's
checks (external), the floors of a deadline and of a payment, and the codes of a
material. The day twelve months back is the constant `YearBefore`, since
`setUTCMonth` rolls the 29th of February on to the first of March, which the day
after has as well: there nothing says where the backend has its floor, and
`BackendPaymentFloors` leaves it either. Instants
are half days: `2d` stands for the first twenty-three hours of day `d` in UTC,
`2d + 1` for the last one, which in summer is the next day in London. That is all
the two calendars can differ by.

**CaseEdits** is the forms at work in several tabs: `Open`, `Submit` (the check on
the POST's own reading and the body it sends), `Serve` (external), `Answer`, while
time passes, the case closes and the operator removes the site. The three parts
of a case they edit are disjoint, so that each behaviour edits one. A closed case
takes no payment date, but its deadline moves like any other's:
`SlaService.ExtendAsync` has no check for closed cases (`detail.controller.js`,
786-792). Of codes the repository says only that the endpoint enforces AC10 to AC12
(`backend-api.js`, 1005-1008), of which the form has dropped the interim site
(`recycling-operations.schema.js`, 156-160): so `Replies` lets the backend refuse any
codes, or take them, and taking them for a site that was removed may bring it back.

**Corrections** is the abstract specification of the three edits: a case alone,
without tabs, pages or calls, whose deadline, payment date or codes change in one
step that a single careful writer could make at that moment. `CaseEdits` implements it with
the case and the clock as they are (`ImplementsCorrections`): a page however
stale, or a check however old, changes nothing that a fresh one could not, but for a
site removed between a check and its call, which `Corrections` lets be written too.

**SignIn** is one browser with several tabs. Every request holds the copy of the
session it read (`Begin`) and stores it whole when it is answered (`Commit`,
`Reset`); what a tab shows is what it can do next.

| Action | Code |
|---|---|
| `BeginVisit`, `AnswerVisit` | a page: drawn, refused, or `redirectToLogin` with a stash: the page, its nonce and its role |
| `BeginLogin`, `AnswerChooser`, `AnswerLogin` | the sign-in page: `confirmPostLoginRedirect`, then the stub's chooser or the provider |
| `BeginCallback`, `AnswerStrayCallback`, `AnswerFailedCallback`, `AnswerCallback` | the callback: a state that is not the session's, a failure after it was spent, the new session and `popPostLoginRedirect` |
| `BeginStubLogin`, `AnswerStubLogin` | the stub's POST |
| `BeginLogout`, `AnswerLogout` | the sign-out's reset |
| `Interrupt` | the request is given up before its session is stored |

A reset drops the record and moves to an identifier never used, but the browser
may still hold the old one: an identifier stays when its record is gone, and a
late answer may store a record under it again. What a sign-in does to the
registry is in `ConcurrentLogin`, and what the list saves in `WorkList`, whose
sign-ins do not overlap requests. `SignIn` keeps of the saved search only whose it
is.

The modules **MCCaseWork**, **MCConcurrentLogin**, **MCAssignableDirectory**,
**MCWorkList**, **MCCaseEdits** and **MCSignIn** hold the finite instances.
Operators under "Faulty variants" are slips a programmer could make. No
specification uses them: replacing the operator they vary by one of them breaks
the property named in `PROJECT.json`.

## 3. The runs

| Run | Instance | Shows |
|---|---|---|
| `casework` | 2 users, 2 requests, all nine controls, symmetry | all safety properties below, and that `CaseWork` implements `Determination` |
| `casework_liveness` | 1 user, 2 requests, 4 controls, fairness | every request is answered |
| `casework_takeover` | 2 users, 2 requests, determination and claim | a violation: silent takeover |
| `casework_nothing_changed` | 2 users, 2 requests, confirmation | a violation: "Nothing has been changed" |
| `concurrent_login` | 3 sessions, 2 tabs of one of them, 3 instants, symmetry | notices |
| `concurrent_login_logout` | 3 sessions, 2 tabs, 3 instants | a violation: the logout clears nothing |
| `directory` | 2 users, 2 sign-ins and 1 read at a time, window 1, 3 instants, symmetry | the directory is true, but for those missing after a race with a read |
| `directory_prune` | 1 user, 1 sign-in, 1 read | a violation: a user who has just signed in is pruned |
| `work_list` | 2 officers (one with a nation), 2 tabs, 1 form, 2 bookmarks, 59 items, 2 pages, symmetry | what is ticked is listed, landings, links and tags keep the search |
| `work_list_paging` | the same in 1 tab | a violation: the link back to page 1 |
| `case_edits` | 2 tabs, a calendar of six days with a new year and a summer, clocks stamped at midnight and late at night, 5 sets of codes, symmetry | the two sides of a deadline agree, dates land where typed, codes stay sound, and `CaseEdits` implements `Corrections` |
| `sign_in` | 2 tabs, a caseworker and a support user, 3 identifiers, 2 numbers, with and without the stub, symmetry | accounts, filters, pages and roles stay apart |

Bounds. Two requests are two handlers whose every call interleaves with every
call of the other, with the operator and with late calls of both. A race of a
check and an act needs two parties, and each property relates one request to the
case or to one other. Two users are the submitter and a colleague. What holds
for any number is proved (section 4). The liveness run takes the four controls
whose handlers make every sequence of calls there is: a read and one call, a
read with a fallback, a claim and a start, an assign, start, note and act.
Three sessions are two that are told of each other and one that signs out or
overtakes. The tabs are those of one session, the others' are alike: two are a
dismissal and a request that overlaps it. Instants 1 to 3 give each sign-in its
own (0 is before any). `MaxTime` caps the clock, and `TroubleIsShort` stops it one
short of that once the registry has failed, where only the order of calls is in
question. In `directory`, sign-ins and reads go round for
ever. Two sign-ins of one user can overlap a read and each other, two users
share one deletion of expired entries, and three instants put an entry inside,
at the end of and past a window of one.

In `work_list` the form ticks both applicant types, the bookmarks hold a sort the
route does not know, a free-text search, an officer and a foreign application
type; tags are removed from each of them one by one.
The items are every state with both kinds of applicant, and every nation,
material, officer and archive mark. Two pages are one to leave and one to come
back to. In `case_edits` six days hold a new year (day 3) after the clocks that
started on day 1 and before those of day 4, and a change to summer time (day 4),
with every instant of each as the current one; a payment may be two days old.
`Starts` holds only instants at which duly making or the operator can have started
a clock. In `sign_in`, three identifiers are the one before, one signed in, and
one after a sign-out or a second sign-in; two numbers are a redirect and the
attempt it leads to, or the redirects of two tabs. The proofs of section 4 hold
without these bounds.

Deadlock is checked in `CaseWork`: the disjunct `Finished` stutters only when no
request is under way. In `ConcurrentLogin` it is not, because the bounded
instance ends when all sessions are out and time is up. In `CaseEdits` it is not,
because the calendar ends, and then a closed case opens no payment form and a
site that is gone no codes form.

Fairness. `FairSpec` assumes that a handler that is running runs on (Node's
event loop resumes a settled promise) and that each awaited call ends in an
answer or in its timer (`setTimeout` in `postJson`). Nothing is assumed of the
users, the operator or the backend.

Safety properties of `casework`:

- `RationaleOnFile`: a promised note is on file when its determination is.
- `DecisionStands`: a recorded determination is never turned or undone.
- `RefusalsAreTrue`: whoever is told that nothing was recorded is told the truth,
  for good: the call was not served and is not on its way.
- `StartIsReported`: what a banner says was started or assigned was, and a
  failure after a start says so.
- `NoWorkBeforeStart`: a determination or deadline change is only ever under way
  to a case that has been started.
- `NeverBackBeforeAssessment`: no query, answer, Continue review or stale Duly
  make undoes a start.
- `HolderSeenIsKept`: a submit that read a holder never replaces one.
- `SuccessIsTrue`: what a success banner says was handed over, started or done was,
  by that request. A determination may be a replay of another's, as the endpoint
  answers a matching outcome ok: then the case still has that very outcome, for
  good, and this request's note is on file beside it. So may a confirmation: then
  the determination has been applied. A review reported as continued may be
  another's too, and the case may have left the state since, so nothing is said of
  it.
- `DecidedOnce`: of all the forms that determine a case one is taken at most.
- `NeverRetries`: no handler comes back to a step, and what it has read and told
  changes only as it moves. It is the half of `EveryRequestAnswered` that needs no
  fairness.
- `OneWayOn`: each open state draws a control that leads on and that the backend
  takes, and the waypoint draws exactly one.
- `OffersAreTaken`: what a page draws the backend takes of the case as it was drawn,
  so that only a case that has moved meanwhile refuses. The gates read the frontend's
  declaration, the backend has its own. The exception is listed below.
- `HandlersOK`, `TypeOK`, `CaseOK`: the parts of the inductive invariant.

Safety properties of the other runs:

- `DismissedStaysGone`, `BothAreTold` (`concurrent_login`): a dismissed notice comes
  back in one way only, a late copy of the session (listed below), and never by
  the order in which entries are set, dropped or lost; and of two sign-ins one after
  the other both are told, whatever copies are stored late.
- `DirectoryIsTrue` (`directory`): whoever is listed is listed with the date of
  their last recorded sign-in, which held the role, raced or not; and a user whose
  last sign-in held the role and is in the window is listed, unless it raced a
  read. So pruning can only ever lose somebody, never show somebody wrongly.
  `DirectoryInv` is the invariant it follows from.
- `ListedAsTicked` (`work_list`): the backend's query lists exactly the items the
  ticks mean. One option stands for one to three states, whose names overlap.
- `BareShowsLastSearch`, `PageLinkKeepsSearch`, `ChipDropsOnlyItsFilter`
  (`work_list`): a bare landing, in any tab, lists what was listed last, or the
  default of whoever signed in since; a page's links keep its search although
  another tab saved a different one; removing a tag drops that filter and brings
  no default back.
- `NamedFloorIsAccepted`, `BothSidesAgree` (`case_edits`): the date a deadline's refusal
  names would be taken by both sides, and a deadline that was checked is found
  invalid only when it was overtaken by midnight or by another move. The form has
  one floor on the typed date, the backend two on the moved one. Nothing of the kind
  is said of payments and codes, whose backend rules the repository does not spell out.
- `DeadlineLandsWhereTyped`, `CodesStaySound` (`case_edits`): the typed date survives
  its detour through a signed number of days, and codes change only into codes
  the material admits, one of which can stand alone, by a form that was checked
  while the site was on the application. The first exempts a due
  date that is one day in UTC and another in London, see below.
- `ImplementsCorrections` (`case_edits`): every edit is one that could have been checked
  and made at once.
- `OneAccountPerSession`, `FiltersOfTheirOwner` (`sign_in`): whatever overlaps, an
  identifier belongs to one account and its saved search to the same.
- `IssuedNeverSignedInto` (`sign_in`): an identifier that was already given out is never
  signed in to, by no sign-in and no late answer.
- `AbandonedPageIsNotReplayed`, `LandsWhereAdmitted` (`sign_in`): a callback that is
  honoured leads to its own redirect's page, a later one's or the list; and no
  sign-in leads to a page its role is refused, nor away from the remembered page when
  the role may see it. The code looks at the role it stored, not at the page: one
  tab's redirect wrote both, another tab's sign-in reads them, and what is shown is
  that the stored role is always the stored page's.

The five violations are disagreements of a comment with the code, quoted in
`PROJECT.json`:

1. `NoSilentTakeover`. The check that the case is unassigned and the assignment
   are two calls, so a colleague can be overwritten between them.
2. `NothingChangedIsTrue`. A lost answer is reported as a failure that changed
   nothing. Every other banner avoids the claim, which is what `RefusalsAreTrue`
   shows.
3. `SignedOutIsForgotten`. `clearLogin` compares with a session id that
   `yar.reset()` has replaced, so a logout leaves its entry in the registry.
4. `PrunesOnlyTheInactive`. The background deletion takes whatever is in the hash
   when it arrives, the entry of a sign-in that came after the read included.
5. `PageLinkShowsItsPage`. On the default list the link to page 1 has no
   parameter left, so that it is a bare landing and restores the page saved
   last: from page 2, "Previous" leads to page 2.

Smaller disagreements that were met and have no run:

- A case queried before it was duly made has no deadline yet, but the page offers
  to change it, as for every queried case (`module.js`, 165-181), and no date is
  accepted. `OffersAreTaken` exempts it.
- A withdrawn case is told that a decision has already been recorded
  (`decision/controller.js`).
- A rejected deadline is redrawn without the news that the case was started
  (`sla.controller.js`).
- A dismissed notice can come back. The list stores its filters with the whole
  session as it loaded it (`routes/work-items/controller.js`, 336); one that was loading
  while another tab dismissed the notice stores the session without the dismissal,
  where `concurrent-login.js` (188-190) and the design note (73-74) have it stay gone
  until a newer sign-in. `stale` and `undone` exempt exactly this from
  `DismissedStaysGone`.
- A site removed between the check of a form of codes and its call may be written,
  and brought back, unless the backend refuses, which is said nowhere: the check's
  comment (`recycling-operations-edit.controller.js`, 62-65) means to prevent it.
- Sign-ins that overlap may leave both sessions untold, where the header of
  `concurrent-login.js` says that every session is told.
- `deadlineFloor` reads a clock in London (`sla.service.js`, 122-132) while
  the current deadline is read in UTC (361): for a clock stamped in the last hour
  of a summer day in UTC, the deadline lands a day after the typed date. This is
  what `DeadlineLandsWhereTyped` exempts.
- "Today" of a payment date is UTC's, so that in the first hour of a summer day in
  London a payment of that day is in the future.
- Removing a tag on the default list drops the default assignment and sort with
  it, as `ChipDropsOnlyItsFilter` states them. An unknown sort or
  `assigneeMode=any` is dropped from the page's links, where
  `docs/work-items.md` lists `any` as a value, and its 156-162 describe an older set of
  filters.
- An applicant type admits items whatever the application type ticked beside it,
  since the two lists are joined into one. A free-text search in a bookmark has
  no tag. A saved page may lie beyond a list that has shrunk.
- The edit of a site passes `hasInterimSite` to a validator that does not use it
  (`recycling-operations-edit.controller.js`, 211-217), and drops codes recorded
  outside the material's set at the next save. Its banner speaks of a conflict
  that no version on the wire lets the backend see.

## 4. What is proved

`CaseWorkProofs` proves, for every set of users and requests and every choice of
controls, from `UsersAssumption` (there is somebody, and nobody's id is that of no one) and
`KindsAssumption` (the controls are the nine there are):

| theorem | what it says |
|---|---|
| `TypeCorrect` | `TypeOK` and `CaseOK`: the types, and that the case's fields agree |
| `RequestsCorrect` | the inductive invariant `IInv` below |
| `HandlersInOrder` | `HandlersOK`: each handler calls in order and tells what it was answered |
| `RationaleFirst` | `RationaleOnFile`: no determination without the note it promised |
| `RefusalsTold` | `RefusalsAreTrue`: "nothing was recorded" is never said of what was, or may yet be |
| `StartBeforeWork` | `NoWorkBeforeStart`: no work is on its way to a case not started |
| `StartsTold` | `StartIsReported`: banners about the start and the assignment are true |
| `NeverBack` | `NeverBackBeforeAssessment` |
| `DecisionsStand` | `DecisionStands` |
| `HolderKept` | `HolderSeenIsKept` |
| `OneWay` | `OneWayOn`: no case is stuck |
| `OffersTaken` | `OffersAreTaken`: the gates and the backend agree |
| `SuccessesAreTrue` | `SuccessIsTrue`: what a success banner says was done was done |
| `Refinement` | `ImplementsDetermination`: `CaseWork` implements `Determination` |
| `OneDecides` | `DecidedOnce`: the backend takes one determination at most |
| `OutcomeOfCaseStands` | the outcome and whose it was are never replaced |
| `HandlersMoveOn` | `NeverRetries`: no handler comes back to a step |

The argument. `TypeOK` and `CaseOK` are inductive together. No property about
requests is inductive by itself: that a determination is never without its note
depends on the handler's step when it calls, on what a late call of the same
request can still do, and on what has been answered. The invariant `IInv` says,
for each request at each step: no call has left before the read
(`FreshAhead`), an answer is to the awaited call (`ReplyToAwaited`), the act
is the last call and when it fails with an answer it did nothing (`ActIsAnswered`),
the note is on file before the act is called (`NoteIsFirst`), no call is served twice (`ServedOnce`), the assessment has
begun before the work is called and the request knows it (`StartIsFirst`,
`StartIsKnown`), a submit that fails after its start says so (`StartIsTold`),
nothing is told before the end (`ToldAtEnd`), and an assignment on the way to a start was decided on a read that
saw no holder (`AssignsUnheld`).

One lemma per action shows that the request it is about stays so
(`OpenPageGood` to `ReplayOrRefuseGood`). `UntouchedGood` shows that every other
request does, because all it shares with the first is the case, and all it knows
of the case is that its assessment has begun, which `CaseNext` shows is never
undone.

`SuccessIsTrue` needs two more facts at each step, kept beside `IInv`: a handler is
only at a step that a form of its kind takes (`StepFits`), and an act answered ok was
taken or is a replay (`ActAnswered`). A replayed confirmation stays true since an applied
determination stays applied (`NextApplied`), and a replayed determination since the
outcome of a case is never replaced (`StaysDecidedAs`). `NeverRetries` needs only the types: each
step lowers `StepsLeft`.

`DeterminationProofs` proves `DeterminesOnce` and `OutcomesStand` of `Determination` alone, from
the invariant that a stage has an outcome exactly when it is past the
determination. `CaseWorkProofs` instantiates it with the mapping of the refinement
(`DP`): `OneDecides` and `OutcomeOfCaseStands` are its theorems together with `Refinement`, and not
proved again.

`AssignableDirectoryProofs` does the same for the directory, for any number of
users, sign-ins and reads and any window: `DirectoryTypes` and `DirectoryTrue`.
`DirectoryInv` says of everybody that they are absent or listed as their latest
recorded sign-in says (`OnlyThinned`), and, of a user nobody raced, that a read under
way has fetched nothing or the truth, and that a deletion under way would delete
only what is out of its window, which time makes no better (`OutdatedStays`).

`CaseFieldsAgree` and `DirectorySettled` state `CaseOK` and `DirectoryInv` by themselves.

`ConcurrentLoginProofs` (`TypeCorrect`, `DismissedForGood`, `BothTold`) holds for any number
of sign-ins. A dismissed notice stays gone because every entry that was told of
is of a sign-in that has tried to set it (`AllSettled`) and never does so again, and
because a dismissal outdoes the registry's entry, whichever was on screen
(`Covers`), in what is stored (`Gone`) and in every copy that is not out of date
(`GoneIn`). For `BothAreTold`, sign-ins that do not overlap are stamped in order
(`Apart`), so that the registry holds the latest of them (`Latest`) and the next one
finds it (`Finds`), and so has every request of it, however old its copy (`FindsIn`). The clock's bound is only known not to be zero.
`SignOutsDropNothing` is the other side of the run `concurrent_login_logout`: with any
number of sessions, the call that is to clear a sign-out's entry leaves the
registry as it is.

`SignInProofs` holds for any accounts, tabs and bounds. `IInv` says that every
session, in the store or in a request's hands, is `Sound`: what must be true of it
whenever a late request stores it. Its filters are its own user's, a stash that
does not belong to its attempt is younger than it and has the role of its page,
nothing signed in has a stash. With it go that requests hold only identifiers that were issued, so that a
fresh one is nobody's, and `OneAccountPerSession` itself. Theorems: `SessionsAreSound`,
`TypeCorrect`, `IdentifiersKeepTheirAccount`, `FiltersStayWithTheirOwner`,
`AbandonedStaysAbandoned`, `SignInLandsWhereAdmitted`, `IssuedIdentifiersStayAsTheyAre`. Assumption:
`AccountsAssumption`.

`WorkListProofs` holds for any officers, nations, texts, forms and bookmarks. `IInv`
says that the last search drawn is the one the saved query stands for
(`SavedIsLastSearch`), that a request which will replace both carries a query and
filters that belong together (`HeldBelongTogether`), and that filters on a page were
read from some query (`DrawnWellRead`): a link is only right about filters that
reading can produce. Theorems: `SearchesAreKept`, `TypeCorrect`, `LandingComesBack`,
`PageLinksKeepTheSearch`, `TagsDropOnlyWhatTheyName`, `ListsShowWhatIsTicked`. The last one compares the
backend's query with the ticks' meaning, option by option: what a status option
lists is what its items' cards show, for every state that `Lifecycle` declares.
Assumptions: `NationRolesAssumption`, `NobodyAssumption`, `MaxPagesAssumption`, `QueriesAssumption`,
`ItemsAssumption` (the items are re-accreditations in declared states).

`CaseEditsProofs` holds for any calendar, clocks and sets of codes. `IInv` is the types,
that a clock started on a day of the calendar, and that what the check of each
call on its way said still holds, in terms of the instant and the due date it was
checked against. Theorems: `EditsAreChecked`, `TypeCorrect`, `FloorsAreAccepted`,
`SidesAgree`, `DeadlinesLand`, `CodesAreSound`, `CorrectedAtOnce`. The last one shows the refinement of
`Corrections` action by action (`DeadlineMoves`, `PaymentCorrected`, `CodesCorrected`): what a call's
check said when its form was posted, which `IInv` carries to the moment it is
served, is what the abstract step asks for. Assumptions: `CalendarAssumption` and
`YearsAssumption` (each day has a latest first of January before it), `YearBeforeAssumption`
(`YearBefore` gives each day some day), `PartsAssumption`,
`StartsAssumption`, `CodeSetsAssumption`.

Only model-checked: `EveryRequestAnswered`, since liveness is out of the prover's
reach; `NeverRetries`, its half that needs no fairness, is proved. The five
violations are runs.

## 5. What is left out, and why

- The wording and layout of forms, and in `CaseWork` their validation: a form that
  is redrawn for a field error has made no call. The rules of the deadline, the
  payment date and the codes are in `EditRules`.
- The reason typed beside a deadline: free text, required and bounded in length.
- Duly making's own check of its payment date is `ValidatePayment`; the run
  exercises it on the change of a date, which calls the same function.
- Tokens, signatures and the provider's discovery document: their failures are
  disjuncts of `AnswerLogin` and `AnswerFailedCallback`.
- Flash messages and the expiry of sessions. A session that expired is one that
  is signed out.
- The create form, the audit log, the application summary, the countdown and the
  list of recycling operations: pure functions of one DTO or one form, which unit
  tests reach as well as a model would.
- Configuration, templates, client scripts, CSRF and CSP: read once, or without
  state of their own.
- The generic apply-action POST: the detail page draws no button for it on a
  case of this type.
- The 404 of a case that has been deleted: like a failed read, it ends the
  handler before its first call.
- Handlers whose time-out is shorter than the backend's own transaction: `late`
  covers it, a call may be served at any later time.
- More than one case: no handler touches two.
- Notes are a set: a note filed twice by two submissions is two requests' notes.

## 6. Plan

Built, in this order: `Lifecycle`, `CaseWork` with `Determination`, `CaseWorkProofs`,
`ConcurrentLogin`, `AssignableDirectory`, `WorkListSearch` with `WorkList`, `EditRules` with
`CaseEdits`, `SignIn`, the proofs of each, and `Corrections` with `DeterminationProofs`. What may
follow:

1. A count of notes per case, for a determination submitted again after its
   answer was lost.
2. Flash messages in the session of `SignIn`: which tab shows a banner that
   another tab's submission left.
3. `WorkList` composed with `SignIn`, in place of a sign-in that overlaps nothing.
