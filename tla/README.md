# Verification of juan-claimed in TLA+

juan-claimed tells an applicant which government benefits they qualify for. An
administrator writes questions (*fields*, with show/hide trees) and benefits
(with rule trees); an applicant answers; a three-valued engine says `MATCHED`,
`PENDING` or `NOT_ELIGIBLE` for every benefit and which questions are still
worth asking. This directory holds TLA+ modules of that program, the TLC
configurations that check them on small instances, and proofs checked by TLAPS.

All paths below are relative to `src/`; `services/` is `backend/src/services/`,
`lib/`, `pages/` and `components/` are under `frontend/src/`.

## 1. Inventory

The backend is an Express application over PostgreSQL through Prisma. Every
request is an asynchronous function: between two `await`s any other request may
run, in the same process or in another serverless instance. Transactions run at
the database's default, READ COMMITTED; many services use none. The frontend is
a React application: its screens keep copies of what they read, and what they
read may change or arrive late.

| Component | State | Operations | What makes it correct |
|---|---|---|---|
| Eligibility engine, `services/benefitEligibility.service.ts` | none: reads fields, trees, answers | evaluate one or all benefits, for a user or a guest | agrees with the Boolean reading; decisions are final; open means open; the checklist explains the verdict |
| Condition operators, `utils/condition.util.ts`, `ruleGroupMatcher.util.ts`, `components/fields/ConditionValueInput.tsx`, `lib/conditionCompleteness.ts`, `lib/fieldValidation.ts` | the condition being written, the answer given | edit a target, save it, answer, compare | what the editor saves can be evaluated; opposites differ; limits can be met |
| Answer More quiz, `pages/public/AnswerMorePage.tsx`, `lib/field-visibility.ts` | per tab: copy of the answers, questions, draft | mount, change, save, leave, reload | never a dead end; answering everything ends; saved answers are kept |
| Answer store, `services/fieldAnswer.service.ts` | answer rows, repeater rows | save (bulk), add row, delete row | implements a book of answers: one per field, rows in order, limited, cells in their rows |
| Guest store and session, `lib/answers-store.tsx`, `lib/auth.tsx`, the form, profile and benefit pages | localStorage, the session, copies, timers, requests in flight | visit, type, save, add and delete rows, sign in and out, reload | what is shown is what is stored; nothing kept is lost; nobody's words become another's |
| Login and eGov sync, `services/auth.service.ts`, `egovAnswerSync.service.ts` | accounts, answers | login by Google or eGov; sync the profile | one account per identity, always the same one; eGov values stand |
| User management, `services/user.service.ts`, `userAccess.service.ts`, `changeUserPassword` | account rows | assign role, create, activate, delete, reset and change password | an active superadmin remains; the role matrix |
| Field catalog, `services/field.service.ts`, with show/hide trees (`fieldRuleGroup.service.ts`), options and hierarchies (`fieldOptions`, `fieldHierarchy`), and its screens (`AdminFieldsPage.tsx`, `FieldFormModal.tsx`) | fields, trees, options, hierarchies; the list, the form, the requests of a save | add, edit, remove, reorder; everything the form can do | anchors acyclic, names unique, subfields plain; a save that reports success stored what was shown; questions stay answerable |
| Benefits, `services/benefit*.service.ts`, their rule trees, child rows, files, announcement, and `BenefitFormModal.tsx` | benefits, rows, trees, announcements; the form and its requests | create, edit, delete, delete a row or a file, upload, announce | jurisdiction; deleted stays deleted; saved is shown and listed; nobody is forgotten |
| Lookups, HTTP layer, seeders, other screens | - | - | - |

How they interact. The engine reads answers, fields and both kinds of trees. The
quiz asks it which benefits are `PENDING` and which fields are unanswered,
filters them by its own visibility check over its own copy of the answers, and
saves through the answer store. The applicant's other pages do the same through
one provider that serves guests from localStorage and signed-in applicants from
the server. A sign-in creates or finds an account and, for eGov, writes answers
through the same store. Deleting a field unbinds conditions in benefit trees.
Creating a benefit announces it to every applicant the engine does not exclude.

Hard behaviour: reads and writes with other requests in between; saves that are
several requests or several unprotected statements, and fail half-way; copies in
the browser older than the server; answers that arrive after the session or the
page has changed; soft-deleted rows still referenced; and "hidden for good"
against "never asked", where the code's comments record several past bugs.
`PROJECT.json` lists each under `hazards`, at its line.

## 2. Modules

| Module | What it models | Uses |
|---|---|---|
| `Eligibility` | the engine, as operators over a catalog and answers | |
| `EligibilityLaws` | the engine against its reference semantics | `Eligibility` |
| `AnswerMoreQuiz` | applicant, tabs, server answers | `EligibilityLaws` (its catalogs) |
| `Conditions` | `compare`: every operator of every input type | |
| `AnswerValues` | what a form emits, limits, encoding and decoding of an answer | `Conditions` |
| `ConditionAuthoring` | the condition editor, the limits form and an applicant | `AnswerValues` |
| `AnswerBook` | what the answer endpoints promise (abstract) | |
| `AnswerStore` | answer rows and interleaved requests, by statement | `AnswerBook`, which it implements |
| `SignIn` | accounts, Google and eGov sign-ins, the sync | `AnswerBook` |
| `BrowserSession` | a browser tab, its pages, its requests | `SignIn` |
| `UserAccounts` | user management, by statement | |
| `FieldCatalog` | interleaved requests of the field services, by statement | |
| `FieldStore` | the composite save of a field as a function of the database | |
| `FieldEditor` | the fields page and the field form | `FieldStore` |
| `Benefits` | the benefit services, by transaction | |
| `BenefitForm` | the benefit form, other people, the announcement | `Benefits` |
| `Sublists` | a filter by positions, for `AnswerBook`, `Benefits` and `BrowserSession` | |
| `BrowserSessionInvariants` | the parts of the inductive invariants of `BrowserSession` | `BrowserSession` |
| `*Proofs` | theorems (section 4) | |
| `MC*`, `MCCatalogs` | constants for TLC | |

Each module's header says what it abstracts. Comments name the function an
operator stands for where the name differs, and `PROJECT.json` maps every
definition to its lines. Definitions called `...Mutant` are the same operator
with a plausible mistake, used to see that the properties notice.

### Eligibility, EligibilityLaws

A catalog is a record of functions: `vis[f]` the show/hide tree of field `f`,
`anchor`, `deleted`, `locked` (eGov fields the session may not edit), `synced`
(those the login has filled), `subfields` (columns of repeaters), `residence`,
`benefits`. A tree is a sequence of nodes whose kids come later, so that its
evaluation is a recursive function on indexes (no RECURSIVE operator: the proofs
need this); `WellFormed(c)` says that, and that what a catalog names exists, and
is all that `EligibilityLaws` and the quiz assume of their catalogs
(`CatalogsAssumption`). An answer is a value, `Null` (asked, left blank) or
`NoRow` (never asked): the code distinguishes the last two in exactly one place, the presence
operators. A condition is the set of answers `compare` accepts: the callers treat
an exception as "not accepted". One evaluation is one step: its queries are not
interleaved with writes.

`EligibilityLaws` applies single saves in any order and states, on every
reachable set of answers, that the engine agrees with the ordinary Boolean
reading once nothing is open; that what is decided is final over all extensions
of the answers; that what is open can still go both ways (for leaves with fields
of their own, `Disentangled`, which some answer meets and some misses,
`Contingent`: two leaves on one field can contradict each other without the
engine noticing, which three-valued evaluation does not claim); and that the
checklist on a benefit's page explains its badge: a failed line under
`NOT_ELIGIBLE`, none under `MATCHED`, an open line, which the quiz asks, for every
question a `PENDING` benefit names as next (`Populated` sets aside trees with a
group without conditions, which have no line to show).

### AnswerMoreQuiz

`answers` is the server's decoded answer map; `tab[t]` has the provider's copy
(`cache`), and while the page is open `candidates`, `fields` and `draft`. `Open`
is the mount effect, `Submit` is `handleSubmit` (every rendered question is
saved, blank ones as null, the response replaces the copy), `SubmitFails` a bulk
save of which some items were written, `Leave` navigation inside the
application (the provider stays), `Reload` a page load. The catalog is fixed.
`OneLevel(c)` says that what a question reads to be shown is always shown itself;
`MCAnswerMoreQuiz` assumes it of its catalogs, the module does not.

### Conditions, AnswerValues, ConditionAuthoring

A value is a record tagged with its kind (`None`, number, boolean, string, list,
date, object, tree, rows), so that `compare`'s tests of JavaScript types are
tests of tags and its exceptions the result `"throw"`. Texts, option values and
PSGC codes are token sequences; `ragged` is a text's extra case or spacing.
A number counts parts, `One` of which make a whole, so that limits and answers can
be fractions and `allowDecimals` is tested as the code does (`Whole`).
Months and years have the fixed lengths of the duration table; `Today` and `Noon`
are the clock. `ConditionValueInput` is the set of values one change event of the
editor can hand on, for every operator; `IsLeafValueComplete` the form's test;
`FieldConfigForm` and `ValidConfig` the limits of a field in browser and server;
`FieldInput` what an applicant's input can emit; `Encodable` what the server
stores. `ConditionAuthoring` lets an administrator pick a field and an operator,
edit, save and limit, and an applicant answer.

### AnswerStore, AnswerBook

`answer` and `group` are the two tables; `req[r]` a request in flight. A bulk
save runs its items concurrently and without a transaction, so one item is one
request. `Find`, `Update`, `Create` are the statements of `submitOneFieldAnswer`;
`Create` respects the unique index on (fieldId, repeaterGroupId), which null
escapes. `CountRows`, `LastRow`, `InsertRow` are those of `createAnswerGroup`; at
READ COMMITTED its transaction isolates nothing. `DeleteCells` locks the cells it
deletes and `DeleteGroup` commits. `SyncRow` is the reuse-or-create of the eGov
sync. `Abort` ends a request anywhere, with what it has not committed rolled back.
Row ids are the names of the requests that insert them, so ids are never reused.

`AnswerBook` is the abstract store: a value per field and a list of rows per
repeater, three atomic operations. `AnswerStore` ends with the mapping of its rows to the book
(`ReadValue`, `ReadRows`: what a reader finds, in the order of the rows), and
`ImplementsBook` says that every behaviour of the store is one of the book, each
request taking effect at the step that commits it and failed ones not at all.
The book is also the server that `BrowserSession` talks to.

### SignIn, BrowserSession

`account[a]` has the Google id, the eGov id, the address and the status of a
`DimUser`; `login[b]` the sign-in in progress in a browser, `home[i]` the account
an identity came into last (a history variable). `FindAccount` and `FinishLogin`
are the two halves of a sign-in, with other sign-ins and closings between them;
`LoginFails` is the unique address refusing the insert. `Sync` saves any subset
of the profile, since each of its saves is caught on its own. `Row` ids can be
reused here after a deletion, which the database does not do: it admits more.

`BrowserSession` adds one tab. `store` is localStorage, `tab` the session and the
provider (token, checked user, answers, row ids, loading), `form` the page shown
with its draft, its unsaved cells, what it last evaluated and the answers its
callback captured; `timer` the debounced cell edits with the closures they will run;
`net` the requests, each with the token it carries and, once `ServeRead`,
`ServeWrite` or `ServeLogin` has run on the server, its answer, which `Deliver`
applies to whatever the tab is then. `Lose` loses a request or an answer. Effects of
a render are part of the action that causes it (`Provided`, `ProvidedNet`, `Show`,
`Keep`), children before parents: after a sign-in the answers are asked for by
`AnswersProvider` and then the session is checked by `AuthProvider`, around it
(`App.tsx:57-58`); the rows of a repeater come later, since a page mounts its fields
only when it has read them (`FormPage.tsx:29-32`). `count.ended` remembers that a
session was refused after its answers had come. A cancelled read is a request whose
answer does nothing. `Elsewhere` is the same people on another device,
`CloseAccount` an administrator. A form's save is atomic on the server, the book
being one; `AnswerStore` has its items. Answers left blank are dropped from the
tab's answers; an applicant whose answers are all blank is not sent to the form as
one without any is, so `Landings` allows both. `resetGuestAnswers` is not used by
any page.

### UserAccounts

`account[u]` is a `DimUser` row: whether it exists, its role configuration
(role, scope, group, psgcCode), `active`, `passHash`, `forceResetPassword`. A
request goes through `idle -> find -> (count ->) write -> idle`, the steps being
the database statements of the service. `Authenticate` is the two middlewares:
they load the acting account once and it is never read again. `AssertRemovable`
and `CountOthers` are the two halves of `assertSuperadminRemovable`. The writes
address the row by id alone, as `prisma.dimUser.update({where: {id}})` does.
`Operator` is the set of accounts whose holders use the management screens.

### FieldCatalog

`field` is the `DimField` table (status, classification, anchor, parent, name),
`trees[f]` the root groups of `f`'s own show/hide conditions, each as the set of
fields it names, `req[r]` a request with what its transaction has written
(`rows`, `gone`, `new`). `Row` and `Roots` are reads inside that transaction.
`StartAdd`, `StartEdit` and `StartTree` are routes with their middleware;
`Resolve` is `resolveAnchor`, `Walk` one read of `assertNoAnchorCycle`, `Save`
the write of the row, `PutTree` the tree services, `Subfield` and `Child` one
item of the two lists of a composite, `Commit` the end of the transaction.
Removal is soft: only the duplicate-name query and the removal itself look at
`deletedAt`, so a deleted row still anchors, is anchored to and is named by trees.
A check that throws rolls everything back; it is the same step as a lost
connection, `Abort`, and the other actions are guarded by the checks' success.

### FieldStore, FieldEditor

`FieldStore` has the data `FieldCatalog` leaves out and not its interleavings: a
request is a function of the database, and a helper that throws clears `ok`.
`SaveBundle` is `addField` and `editField` with a new hierarchy and its nodes,
the row, its options, its tree, the columns and the children, in that order;
`OptionValueByIndex` and `ResolveTriggerValue` turn an option that a child names by
its place in the form into the option the save has created. `Readable` is the read that
answers the save. Every field is FOLLOW_UP; a tree is the set of conditions of
one ALL group; one language; benefits are not bound.

`FieldEditor` is the page: `list` (read earlier), `page` (its request: reorder,
delete or load), the form with its rows, `gone` (what to delete after the save),
`loads` and `queue`. A save is `Requests`: the composite, then one deletion per
removed option, column and child, each served, refused or lost. A new row or
hierarchy is filled in when added; the list is loaded in one step; the view-only mode
and the look at the benefits a field is bound to are left out.

### Benefits, BenefitForm

`Benefits` has one operator per transaction, with the checks that run before it as
its `Can...` twin; the three kinds of child row, whose services are the same text
three times, are one row with a kind; a rule tree is its root, the operator and the
fields of its conditions. `BenefitForm` has the form (`phase`, `form`, `loads`,
`upload`), and a save as the bundle request and one request for each removed row and
file (`queue`), each of them two steps, `Check` and `Apply`, since the transaction
checks nothing of the author again: what other people do falls between them. They
delete benefits and fields, and `Peer`, other authors, change where a benefit
reaches (`PeerMovesBenefit`: their own form, its check and its write in one step,
nothing but the reach changed). `overtaken` remembers that this happened to the
form's benefit between the check and the write under way, `writer` who saved a
benefit last. `RolledBack` and a lost answer make the save fail. The form's lists of
what to delete are one per kind (`gone`, `goneFiles`), sent in the order of the
kinds. Staff of a local scope have the code of their place (`BenefitAssumption`).
`NotifyNext` is one applicant of the announcement, who is skipped for what the rules
say (`FailsRules`) or for where he lives (`LivesElsewhere`: a localized benefit, a
residence field that is there, and an answer to it); `ServerRestart` ends
announcements.

## 3. Runs

| Run | Bounds | Result |
|---|---|---|
| `UserAccountsSoleOperator` | 2 accounts, 1 operator, 2 requests, 7 configurations | holds: no lockout, role matrix |
| `UserAccountsLockout` | 2 accounts, 2 requests | violated: both superadmins remove each other |
| `EligibilityLaws` | 3 fields, 2 values, 2 benefits, all catalogs of `MCCatalogs` | all four laws hold |
| `AnswerMoreQuiz` | same fields; one-level show/hide trees; 1 tab | holds: no dead end, nothing hidden is answered, nothing lost |
| `AnswerMoreQuizDiligent` | same, with failing saves | holds: every benefit is decided in the end |
| `AnswerStoreOneClient` | 2 users, 5 requests, 3 in flight, row limit 2, one client per user | holds: the rows implement the book; one row per answer, no stray cells, saves are read back |
| `FieldCatalog` | 3 fields, 3 names, trees over one field, 3 requests one after another, 2 rows per save | holds: no anchor cycle, unique names, plain subfields, anchors are dependencies |
| `ConditionAuthoring` | every input type but MONEY, which is NUMBER; 2 options, 4 places, 2 columns, 2 row conditions, 3 limits, numbers 1/2, 1 and 13 | holds: saved conditions evaluate, opposites differ, limits that are whole or allow decimals can be met |
| `BenefitForm` | 3 staff, 2 benefits, 3 applicants with and without a place, 3 nested places, 2 changes in one opening, 1 move by another superadmin | holds: saved is shown and listed, jurisdiction, deleted stays deleted, nobody forgotten |
| `BrowserSession` | 2 accounts, 3 identities of 2 people, 2 browsers, 2 rows, 3 edits, 3 moves, 2 requests in flight | holds: shown and kept is stored, own words, one account, eGov values |
| `FieldEditor` | 5 fields, 3 changes in one opening, 1 deletion by others | holds: saved is shown, conditions name options that exist, questions stay answerable |
| `FieldEditorDeleted` | 1 change | violated: after a column is deleted its repeater cannot be read |

The two violated runs state what a comment of the repository says;
`PROJECT.json` quotes it under `findings`.

### Regimes

Where the code is right only for well-behaved use, the module has a constant for
that use, and the passing run sets it. Without it the same run fails, so each of
these is a statement about the code as well:

| Constant | With it | Without it |
|---|---|---|
| `Operator` = one account | `SuperadminRemains` | the finding; `SuperadminNeverDeactivated` fails too when an agent is made superadmin and switched off at once |
| one `Tab`, `Failures = FALSE` | `SavedAnswersKept` | a second tab, or a copy left old by a save that failed half-way, erases answers with its blank draft |
| `OneLevelCatalogs` | `NoDeadEnd` | `ChainCatalogs`, a follow-up of a follow-up: the quiz waits for a question that is hidden for good |
| `Deduped` | `OneAnswerPerField`, `ImplementsBook` | two saves of one answer create two rows; a prompt retry does this by itself, since `Promise.all` rejects while the other items still run |
| `OneClient` | `NoStrayCells`, `ImplementsBook` | a cell saved between the two deletes of a row; a row added past the limit |
| one `Request` of `FieldCatalog` | `AnchorsAcyclic`, `NamesUnique`, `SubfieldsStandAlone` | two edits anchor two fields to each other |
| `GivesUp` | `SavedIsShown` (both forms) | a second press of Save after a failed one creates the new rows again |
| `Patient` | `SavedIsShown` (both forms), `OwnWords` | the answer of an earlier opening overwrites the form; a draft typed before the session was checked is saved for the guest when the check fails. In the browser a patient person edits nothing while the session is checked and opens a page of questions when the answers are there |
| `QuietFields` | `LeavesAnswerable` | a tree with a field that was deleted while the form was open is bound to it |
| `Careful` | `ConditionsFit` | an option that a condition names is deleted |
| `Tree` without an empty ANY group | `NobodyForgotten` | nobody matches such a group, which the form lets stand when every condition of a tree is removed |
| `InOrder`, `Settled` | `ShownIsStored`, `KeptIsStored`, `ListIsCurrent` | late answers replace newer ones; a page left within 500 ms drops a cell |
| `MaxSessions = 1` of `FieldEditor` (or `Reloads`) | `SavedIsShown` | a second form opened from a list whose reload failed shows the old row and writes it back |

Some statements are in the modules without a run: `GlobalsReadGlobals`
(`FieldCatalog`: three requests leave a GLOBAL field depending on another kind),
`BenefitIsCurrent` (`BrowserSession`: a benefit's page re-evaluates with the
answers of an older render), `SuperadminNeverDeactivated`, and the type invariants
of modules whose type theorem is proved or whose state is mostly records.

Some properties except a case in which the code does otherwise; each exception is
written in the property, and leaving it out makes the run fail:

- `WithinJurisdiction`, `~overtaken`. `assertUserCanModifyBenefit` is a read and
  `runEditBenefit` does not repeat it. If a superadmin moves a benefit to another
  city, or makes it nationwide, between an agent's check and his write, the agent's
  save overwrites a benefit that is no longer his. What it writes is within his
  places even then, which the property keeps. `SavedIsShown` excepts where a benefit
  reaches that another author moved since, and `SavedIsListed` a move during one of
  the deletions after the bundle, which shows when one of the places is a second
  city.
- `NobodyForgotten` asks for exact telling of benefits nobody edited since they were
  created; one that was moved while it is announced is judged for each applicant as
  it is at his turn.
- `ListIsCurrent`, `~count.ended`. A guest signs in on the list; the account's
  answers arrive; then `getMe` is refused or lost and he is signed out. The list is
  evaluated in the render that signs him out, which still has the account's answers,
  and its effect does not run again when his own are restored
  (`EligibleBenefitsPage.tsx:43-58`): until he leaves the page he reads the benefits
  of the account.
- `LimitsCanBeMet`, its first conjunct. No schema compares `min` and `max` with
  `allowDecimals` (`fieldConfig.request.ts:36`): a number from 0.2 to 0.8 without
  decimals can be set and not answered (`condition.util.ts:636`,
  `fieldValidation.ts:53`).

`GatedCatalogs` with `Failures = TRUE` shows the quiz judging visibility by a copy
older than the server. To see any of these, add the name to the run's `.cfg` or
change the constant.

### Bounds

The races of user management and of the answer store need two requests and one or
two rows; the fifth request of the store is there for the longer story (two rows
added, one deleted, one added again). Three fields give every relation a field can
have to another in the engine: driver, follow-up, follow-up of a follow-up,
residence, bystander; two values are one that reveals and one that hides. Three
fields make a cycle of every length a walk can get wrong, three names leave one to
rename to, three requests are enough to anchor twice and then close a cycle. Place
codes of three levels tell containment from both sides. The editor runs allow two
and three changes because the failures found outside the regimes need two; one move
by another author is enough to come between a check and its write. Halves of one
tell whole numbers from others. The browser run has two people, one with both kinds
of identity, since the rules about synced fields and about finding accounts differ
by kind; three moves are enough to sign in, out and in as another. Named bounds:
`MaxActive` (requests in flight), `MaxRequests`, `MaxRows` (where it is not the
configured limit: rows of one save, or rows of one list), `MaxLeaves`, `MaxLimits`,
`MaxItems`, `MaxFiles`, `MaxRemoved`, `MaxEdits`, `MaxSessions`, `MaxNet`,
`MaxMoves`. `ConditionAuthoring` sets limits only while no condition is being
written: a limit only takes answers away.

`CHECK_DEADLOCK FALSE` is set where a bound stops the behaviour: finitely many
requests, edits, openings or moves. Symmetry is used for accounts, requests, users, fields,
names and secrets, which the modules only compare, and never in a run with a
liveness property.

### Fairness

Only `AnswerMoreQuizDiligent` needs it. It is an assumption about the applicant,
not about the code: one who keeps opening the quiz, answers every question shown
and saves. Weak fairness is on those actions and not on `SubmitFails`, so a save
may fail any number of times but not for ever while a save could succeed. The
server is assumed to answer requests; no other property depends on one that
never returns.

## 4. Proofs

| Theorem | Statement | Needs |
|---|---|---|
| `TypeCorrect` | `Spec => []TypeOK` (user management) | - |
| `MatrixAlwaysHolds` | `Spec => []RoleMatrix` | - |
| `SerialSuperadminRemains` | `Spec => []SuperadminRemains` | one request at a time |
| `SoleOperatorSuperadminRemains` | `Spec => []SuperadminRemains` | one operator |
| `CombineType`, `CombineOpen`, `CombineMonotone`, `LeafMonotone`, `AskedIsUnanswered` | groups, conditions and questions of the engine | - |
| `TreeMonotone`, `StatusWitness`, `PendingExplained`, `TreeDecidable` | trees of the engine, however nested | their hypotheses name the tree |
| `QuestionsClosed` | the expansion of the questions is closed | - |
| `LawsTypeCorrect` | `LawsSpec => []LawsTypeOK` (laws of the engine) | well-formed catalogs |
| `VerdictsAgreeWithClassical`, `DecisionsAreFinal`, `ChecklistsExplain`, `PendingStaysOpen` | `LawsSpec => []` of `AgreesWithClassical`, `DecidedIsFinal`, `ChecklistExplains`, `PendingIsOpen` | well-formed catalogs |
| `SavedConditionsEvaluate`, `FilledRangesAreEvaluated` | `Spec => []SavedEvaluates`, `Spec => []FilledRangesEvaluate` (condition editor) | - |
| `OppositesExclude`, `PlacesContain`, `LimitsAreMet` | `Spec => []` of `OppositesDiffer`, `WithinPlaces`, `LimitsCanBeMet` | - (`LimitsCanBeMet` itself is about whole limits or fields with decimals) |
| `QuizTypeCorrect` | `Spec => []TypeOK` (quiz) | well-formed catalogs |
| `QuizKeepsSavedAnswers` | `Spec => SavedAnswersKept` | one tab, no failing save |
| `QuizNoDeadEnd`, `QuizHiddenStayUnanswered` | `Spec => []NoDeadEnd`, `Spec => []HiddenStayUnanswered` | the same, and `OneLevel` of every catalog |
| `StoreTypeCorrect`, `CellsAlwaysBelong` | `Spec => []TypeOK`, `Spec => []CellsBelong` | - |
| `DedupedSavesOneAnswer` | `Spec => []OneAnswerPerField` | saves in flight do not share an answer |
| `OneClientNoStrayCells` | `Spec => []NoStrayCells` | one client per user |
| `WaitingSavesAreRead` | `Spec => SavedIsRead` | both |
| `StoreImplementsBook` | `Spec => ImplementsBook` (the store implements `AnswerBook`) | both |
| `CatalogTypeCorrect` | `Spec => []TypeOK` (field catalog) | - |
| `SerialAnchorsAcyclic`, `SerialNamesUnique`, `SerialSubfieldsStandAlone`, `SerialSavedAnchorsAreDependencies` | `Spec => []` of `AnchorsAcyclic`, `NamesUnique`, `SubfieldsStandAlone`; `Spec => SavedAnchorsAreDependencies` | one request at a time |
| `DeletedRemainsDeleted`, `SavesStayWithin`, `SavesAreListed` | `Spec =>` `DeletedStaysDeleted`, `WithinJurisdiction`, `SavedIsListed` | - (any number of other authors and moves; the exceptions of section 3) |
| `LeavesStayAnswerable` | `Spec => []LeavesAnswerable` | no field is deleted while a form is open |
| `NobodyIsForgotten` | `Spec => []NobodyForgotten` | no ANY group without conditions is submitted |
| `OneAccount`, `SameAccountAlways` | `Spec => []OneAccountPerIdentity`, `Spec => SameAccount` (`BrowserSession`) | - |
| `EgovValuesAlwaysStand` | `Spec => []EgovValuesStand` (`BrowserSession`) | eGov says the same of a person at every sign-in (`OneProfile`) |
| `OwnWordsAlways`, `ListAlwaysCurrent`, `ShownAlwaysStored`, `KeptAlwaysStored` | `Spec => []` of `OwnWords`, `ListIsCurrent`, `ShownIsStored`, `KeptIsStored` (`BrowserSession`) | requests in order, a person who waits (`InOrder`, `Settled`, `Patient`) |

`EligibilityProofs` has the theorems of the engine, its laws and the quiz. Those of
the browser are in two modules, over the invariants `BrowserSessionInvariants` names:
`BrowserAccountsProofs` has the accounts and the eGov values, with the lemmas both use,
`BrowserSessionProofs` the other four.

They hold for every value of the constants that satisfies the named assumptions.
Most of those say that special values are distinct from ordinary ones and that sets
used as domains are what they are called. These say more: `WellFormed`, in
`CatalogsAssumption`, that the kids of a node come after it and once and that the
fields named exist; `AuthoringAssumption`, that a column is not itself a repeater
(`field.service.ts:68-76` refuses one), that the cells of a row are read as their
columns' types say, that no option or place has an empty code, and that a text of
every length a column holds can be typed; `BenefitAssumption`, that a user's scope
is one of the model's, that the trees a form submits are joined by ALL or ANY and
that staff of a local scope have a place; `SignInAssumption`, that an id Google or
eGov vouches for always comes with the same address and that the synced fields are
not columns of a repeater; `BrowserAssumption`, that there are the two browsers the
module names, that the repeater of the forms is one of the repeaters, that the limit
of rows is a number, that the guest is not an account, that every column has a
repeater it is a column of, and that a profile holds values.

The arguments. *Superadmins:* with one request, `SuperadminRemains` is not
inductive, since a request in `write` may be about to remove somebody: the
invariant adds that a removal that has passed its count leaves another active
superadmin. With one operator the count does not matter: the invariant says that
the operator is an active superadmin and that no request that can reach its
write is about to remove the operator's role, which rule 1 guarantees at the
read and which no other write can invalidate because there is no other writer.
*Role matrix:* a write checks what it writes; the proof shows that no other
write touches the configuration.

*Trees:* what holds of every tree would be proved by induction on it, which the
library's induction theorems do not offer here. Instead the nodes of a tree are
a finite set of numbers, so if some node violated the statement there would be a
last one (`LeastRank`), whose kids do not; `Combine` of sound kids is sound. In
this way decided trees stay decided (`TreeMonotone`), an open one names exactly
open conditions (`PendingExplained`), and a tree without empty groups has a
condition with its own status (`StatusWitness`). *Laws:* the invariant is only the
types; each law is a statement about one evaluation, or about two whose answers
extend each other. `DecidedIsFinal` is `TreeMonotone` with `LeafMonotone`, since
an extension answers only what is open and hides only what is hidden already;
`PendingIsOpen` is `TreeDecidable` with the answer that meets, or misses, every
open condition at once, which exists as no two of them share a field. The
expansion of the questions is a bounded number of passes: `QuestionsClosed`
shows that a set that grows at every pass would outgrow the fields, so the last
one adds nothing.

*Conditions:* what an editor has written depends on everything it was told before,
so the invariant (`Inv` of `ConditionAuthoringProofs`) describes every target under
construction: it suits the operator and the type it is for (`Fits`; `RowTree` for
the row conditions of a repeater, each suiting its column), and it is complete once
saved. The answer is of the type of its field, as `FieldInput` writes it, and the
limits have passed the form. A condition that suits and is complete is then compared
without an exception, type by type; ANY_MATCH and ALL_MATCH stop at a first row,
which is found as the least of the rows that stop them, and only ever compare cells
with conditions of their column. `OppositesExclude` compares the two operators of a
pair on one answer, and `LimitsAreMet` names an answer for each pair of limits the
form accepts.

*Quiz:* the invariant says that what an open page asks for has no real answer on
the server (`AskedIsUnanswered` when the page opens; nobody else writes with one
tab), that its copy and its draft agree with the server elsewhere (`PageCurrent`),
that synced fields have answers, and that an answered question is shown
(`AnsweredShown`). A question that was shown by the draft is still shown by what is
saved, since a driver without drivers is itself rendered and saved. `NoDeadEnd`
follows: a field the verdict waits for is asked, with its drivers, and if it is
hidden by the answers a driver of its tree is open and is shown.

*Store.* Cells: the invariant adds, for every save in
flight, that its group, if it still exists, is of its user and its repeater, and
that ids are not reused; `CellsBelong` follows because the foreign key removes
the reference when a row goes. One answer: the invariant adds that no two saves
in flight share a key and that a save about to create has no matching row; the
second part is what the unsynchronised find does not give without the first.
No stray cells: `OneClientInv` adds that the requests in flight of one user are
the saves of one call or one other request, so that a deletion that has locked the
cells of a row meets no save. Saves are read: `ReadInv` adds that a save past
its find has found the row a read returns, or that there is none.
The book: `BookInv` adds that the rows of one repeater are finitely many and
numbered apart, that a row past its count still fits and is numbered above the
others, and that the cells a deletion holds are answers of its row. A row's place
in the list is its rank among the numbers (`NthRank`). A save changes what one key
reads (`WrittenValue`), so it is the book's save at its update or create; a row
inserted with the highest number comes last (`LastInList`); a row that goes
leaves the others in their order (`GoneFromList`), which is the book's filter;
every other step leaves the book alone (`QuietBook`). Without `RoomLeft` the
book's limit would not hold: two clients of one user could both count below it.

*Catalog.* Anchors: acyclicity is stated without paths (every set of fields has a member
anchored outside it) and kept for what is committed and for what each
transaction sees. A new edge from f to x is safe when x lies in a set without f
that anchors do not leave (`SoundEdge`). For an edit the walk builds that set:
the invariant says that `seen` lacks the field and that its anchors lead to
`seen` or `current`, so when the walk ends `seen` is such a set. For a new
field and an anchored child it is all other fields, which needs the further
invariant that nothing is anchored to an id not yet in use. Names, subfields and
dependencies: `TidyInv` states the three of what each transaction sees, of what
is committed, and of a resolved but unwritten row, whose check is several steps
before its write.

*Accounts:* no index makes `googleId` or `egovId` unique, so uniqueness has to
come from the address. The invariant says that no two accounts, deleted ones
included, have one address (`EmailsUnique`); that an id stands only on an account
of that id's address (`BoundByEmail`); that an account a sign-in found still has
the address of the identity that looked for it (`FoundMatches`), which is what
makes the write safe however long after the find it comes; and that the account
an identity came into has that identity's address (`HomeMatches`). The two
theorems follow: two accounts with one id, or two homes of one identity, would
share an address. *eGov values:* the lock is judged in the browser, on the account
the tab believes to be signed in, and the save arrives later with the token of
its render. `SoundClient` says of every request in flight that its token is of an
account there is, that a save names a synced field only for an account without
eGov id, and that a read of the session carries the tab's own token (so the checked
user is always the token's); of every timer, that it saves a cell. As no sign-in
ever changes the eGov id of an account (`SettlesEgov`), such a request stays harmless
however late it is served. On the server, an account not yet made has no synced
answers (`Blank`), and one found for an eGov identity is bound to it
(`FoundBound`), so a sync writes its own profile. *Own words:* `OwnInv` says of every
copy whose words it holds: localStorage the guest's, the tab, the draft of a form
and the timers those of who is signed in, a request in flight, with its answer, those
of the account of its token. For an answer to be applied to the right copy it adds
how requests can follow each other (`InLine`, `OwnMessage`): a request that is still
waited for carries the tab's own session, the session is read once and before any rows,
nothing is written while it is read, and at most one sign-in is waited for; the sign-in the
service has begun is the first request it has not answered (`Started`), so the
profile it vouches for is that of the one who gets the answer. The one copy that is
not its person's is the provider's, between a sign-in and the first read of the
answers: it still has the guest's, and `OwnTab` says that only the list of benefits
shows then, which nothing can be saved from. *List:* with `OwnInv` known,
`ListIsCurrent` is inductive but for the shape of the counters (`ListInv`): with a guest in
the tab, the list was evaluated at the last change of the answers, the last being that of a
refused session only if no answers had come with it.

*Shown is stored:* the property speaks of a moment at which nothing is in flight, and its
invariant, `CurrentInv`, of every moment before. The answers of the tab, or else the
latest answer on its way to replace them, are those of the account without the rows
whose removal is granted but not yet answered (`AnswersCurrent`); the list of rows is
the account's but for the one addition or removal under way (`RowsCurrent`).
Both hold only because the person waits: one change of the list at a time, and none
beside a read of the rows or the save of a form (`Orderly`). With requests in order the
replies come in order too, and what is refused is refused because the account is no
longer in use (`InService`), so a refusal leaves nothing to make good. A guest's
tab equals localStorage (`GuestCurrent`). The invariant also needs what the server keeps:
only the forms' repeater has rows, and they are numbered within the limit (`BookRows`).

*Kept is stored:* `KeptInv` follows every answer shown as saved through the copies
it passes. Either its question has a timer, or else a last request that names it
(`LastOn`), and this one says the answer; and the answer is stored already unless
that timer or request has not been granted (`Lasts`, `Delayed`). So an older save of
the same question may still be under way: it is not the last one, and the one after
it is granted later (`InQueue`). That the last one is not undone is the rest of the
invariant: nothing is being saved when a row is deleted, what is shown in a row
whose deletion is not yet answered was typed after the deletion and is itself still
to be written (`Lasts`), and no cell is edited while a form is being saved
(`Unhurried`). A granted save stores what it names, and only that (`SavePuts`);
eGov's sync writes synced fields only, and what was shown of those as saved was
shown to an account eGov knows nothing of (`OpenKept`), which no sign-in changes
(`BoundStep`). A refusal takes what it refused from what was shown as saved.

*Benefits:* deletion is a flag no transaction clears, and every write names rows by
id. For jurisdiction the check and the transaction of a request are two steps, with
other authors between them, so what was checked need not hold of the benefit when it
is written. The invariant (`CheckedWithin`) says what does: the form that is sent
still passes the checks of its request, since it does not change while it is being
saved; and the benefit is still within the author's jurisdiction unless it was
`overtaken`, since a deletion only takes places away. `SavedIsListed` needs that
every live benefit is nationwide or for some place (`ReachKnown`), whoever moved it,
and that a place within one's jurisdiction is one whose benefits one lists
(`WithinIsVisible`), a statement about prefixes of codes. `AnswerableInv` adds the
fields the form knows and the tree it holds. `TellingInv` says that everyone the
announcement has passed was told as he should be (`Served`), and that nobody is told
before his turn (`ToldOnce`): so a move by another author, which changes whom the
benefit excludes, changes nothing for those already told, and takes the benefit out
of the exact half of the statement.

Only model-checked: `EventuallyDecided` (liveness); `SavedIsShown` of both forms; and
`ConditionsFit` and `ChoicesRemain` of the field editor, whose save is a fold over
the rows of the form. The folds and `SelectSeq` take operators, which the provers
do not follow; a theorem about them needs these modules' lists as functions first.

## 5. Not modelled

- The interleaving of an evaluation with writes: the engine's queries are one step,
  and so are the two queries that read a rule tree (a tree read while it is replaced
  can look empty; recorded under `hazards`).
- A guest's evaluation. It is the same text over answers sent in the request, with
  places decoded first; the guest's stores and pages are in `BrowserSession`. A
  second tab on one localStorage.
- The second copy of `compare` in `lib/field-visibility.ts` beyond its results in
  the quiz. Calendar arithmetic of months and years.
- The single-row routes of benefits' child rows, and the pages that edit an existing
  hierarchy, its levels and nodes; the limits, descriptions and second language of a
  field.
- The eGov API with its token cache, the file store, the message service: each is
  one step that works or fails. The login by password changes nothing.
- Lookups are queries of places, scopes and kinds of field, which are seeded, and of
  the groups of agents; `addGroup` and `editGroup` (`group.service.ts:26-56`) add a
  group or change its name and delete none, so the groups are constants. The HTTP
  layer appears as guards (request schemas, roles) and as lost or refused requests;
  error mapping, rate limits and headers have no state. Seeders run by hand before
  the system starts; they justify the initial states. Views, dialogs and tables show
  what the modelled screens hold; the users page sends the requests of
  `UserAccounts` one at a time.

Further work worth doing: a store of rule trees as rows with its torn read; the
field catalog composed with the engine.

## 6. Running

    tlc -config AnswerMoreQuiz.cfg MCAnswerMoreQuiz
    tlapm BrowserSessionProofs.tla

Each `.cfg` names the specification and the properties of one run; its module is
the `MC` module of the same name prefix. `BrowserSession`, `FieldEditor` and
`BenefitForm` take one to four minutes each, the others seconds to a minute.
