# QuantlyxSiem in TLA+

QuantlyxSiem is a Django and Celery application. It reads the accounts of privileged access
management platforms, keeps what changed, raises findings about them, and runs an approval
workflow for access to repositories and clouds, which it compares with what those platforms
really grant. It never acts on a platform: people do. Everything hard about it is therefore
about *records*: whether what the tables say follows from what happened, when web workers,
Celery tasks, the platforms and the feeds all move at their own pace.

This directory holds the specifications (TLA+), the instances TLC checks, and the proofs TLAPS
checks. Paths below are relative to `src/`.

## The system

| Part | State it keeps | Operations | Talks to |
|---|---|---|---|
| Policy resolution (`access/workflow.py`, `access/models.py`) | `ApprovalPolicy` rows | `resolve_policy`, `specificity` | read by submit, decide and the form |
| Approval workflow (`access/workflow.py`, `views.py`, `forms.py`) | `AccessRequest`, `ApprovalStep` (a hash chain) | `submit`, `decide`, `hand_off`, `revoke`, `expire_due` | stamps `AccessGrant.revoked_at` |
| Access reconciliation (`access/reconcile.py`, the `reconcile_access` command) | `AccessGrant`, `Resource`, `Principal` | `reconcile_resources`, `reconcile_access`, `link_bot_credentials`, `stale_expiries` | resource connectors, requests, inventory |
| Inventory collection (`collection/reconcile.py`, `tasks.py`) | `ManagedAccount`, `AccountSnapshot`, `LifecycleEvent`, `CollectionRun` | `collect_system`, `reconcile_accounts`, `ingest_activity`, pruning | vault connectors; queues the rule engine |
| Rule engine (`rules/engine.py`) and 28 rules (`rules/builtin.py`) | `Finding` | `run`, `_upsert`, `_close_cleared` | inventory, cached capabilities |
| Triage (`api/views.py`) | `Finding` | `acknowledge`, `suppress` | |
| Export (`export/splunk_hec.py`) | `exported_at` of findings and events | `export_findings`, `export_lifecycle_events` | the Splunk HTTP event collector |
| Telemetry (`usage/collectors.py`, `usage/ingest.py`, the `ingest_usage` command) | `TelemetrySource` with its cursor and stamp | `collect`, `_pull`, delivered files | feeds; `record_observations` |
| Usage (`usage/correlate.py`) | `UsageObservation`, `CredentialAssetLink` | `record_observations`, `correlate`, `rebuild_links` | inventory, events |
| Connectors (`connectors/`, `resources/`) | none (a registry and cached capabilities) | paging through a platform, mapping a record, declaring capabilities | vaults, git hosts |
| Screens, read API, commands, migrations | none of their own | | |

What runs at the same time: several web workers; several Celery workers, on a schedule
(`pamsiem/celery.py`: collection every 15 minutes, correlation every 10, export every 5,
evaluation hourly, pruning nightly) and on top of it (a collection queues an evaluation, an
administrator queues a collection). There are no row locks in the code. `transaction.atomic` on
PostgreSQL's READ COMMITTED, which `pamsiem/settings.py` leaves in force, makes a handler
all-or-nothing but not isolated. Many handlers read a row, decide, and save the whole of it later.

What makes each part correct, and what makes that hard:

* **Workflow.** An approved request has its approvals, from different people, none of them the
  requester or the beneficiary; closed requests stay closed; access ends. Hard: decisions that
  overlap, states tested on an object fetched before the transaction.
* **Reconciliation.** Access nobody approved, and access past its end, is reported. Hard: access
  that appears before, between and after the steps of a request, rows saved whole, marks that
  are set once and hide the row for good.
* **Inventory.** Events and snapshots tell the changes, an account is retired only when it is
  gone. Hard: pulls that end early, fail half way, or overlap.
* **Listings and records.** A vault is listed whole and once; what its record does not say accuses
  nobody; what is overdue is reported. Hard: eight loops with their own idea of the last page,
  accounts that come and go between two pages, five vendors that are silent about different things.
* **Feeds.** Every record is read, whatever dies on the way. Hard: clocks and positions of three
  parties, records that arrive late, files that are rotated.
* **The register of access.** It is what the platform has, and a bot's path into production is
  seen. Hard: roles that change and come back, joins by name, findings that need an account.
* **Findings.** One finding per condition, resolved when and only when the condition is seen
  clear, and the collector knows. Hard: three tasks without a transaction write the same rows.
* **Usage.** One retrieval explains one login; what is called unexplained is. Hard: two sources
  that arrive in any order, passes that die half way.

`PROJECT.json` lists every hazard at its line with the properties that would catch it.

## The modules

| Module | Models | Composes |
|---|---|---|
| `PolicyResolution` | `resolve_policy`, `ApprovalPolicy.specificity` as operators | |
| `ApprovalLifecycle` | the abstract specification of the workflow: who spoke, who agreed, where the request stands | |
| `AccessWorkflow` | the five operations, query by query, with the views and the form in front of them | extends `PolicyResolution`, implements `ApprovalLifecycle` |
| `AccessReconcile` | the platform, the reconciliation pass, ACC-001 and ACC-002 | extends `AccessWorkflow` |
| `FindingEngine` | the engine, triage and export of one rule's findings | |
| `InventoryDiff` | `reconcile_accounts`: the pull, the diff, events, snapshots, retirement | |
| `UsageCorrelation` | ingest of logins and retrievals, `correlate`, `rebuild_links` | |
| `VaultListing` | the paging loop of each connector, the vault that changes meanwhile, and what the reconciliation then believes | |
| `CredentialRules` | one credential: the vendor's record, `_to_account`, the stored row, thirteen rules and the sweep | |
| `CollectionFeeds` | one feed and its pull: window or cursor, storing, stamping; eleven kinds | |
| `AccessDirectory` | the `reconcile_access` command over GitHub or GitLab, the register, and ACC-003, ACC-005, ACC-006, ACC-007 | |
| `AccessWorkflowProofs` | the theorems about the policies, the workflow, its refinement and the reconciliation pass | extends `AccessReconcile` |
| `FindingEngineProofs`, `InventoryDiffProofs`, `UsageCorrelationProofs`, `VaultListingProofs`, `CredentialRulesProofs`, `CollectionFeedsProofs`, `AccessDirectoryProofs` | the theorems about the module of that name | each extends its module |
| `MC*` | the constants of the TLC instances | |

### Policies

A policy is a record of the columns resolution reads; `Specificity` adds the weights of the code
and `Outranks` compares the keys `(-specificity, -approvals, days)`. Rows are numbered in queryset
order (by name), and the sort is stable: of equals, the first rules.
`ResolvePolicy` returns 0 for no policy, which the workflow then treats like the code's `None`.
Text comparisons (lower case, trimming) are done once, in the constants.

### Workflow

A worker's HTTP request is several steps, between which other workers run, because that is where
the code reads and where it writes: `CheckForm` (the form's duplicate check) and `Submit`;
`FetchToDecide` (`get_object_or_404`), `CheckDecision` (state and segregation, on the fetched
object), `ReadPrevious` (the last step), `RecordDecision` (from the insert to the commit);
`FetchToHandOff` and `HandOff`. `RollBack` is every way a transaction ends without an effect.
The insert of an `ApprovalStep` and the commit are one action because the unique constraint on
(request, sequence) lets nobody else insert between them. The hash is abstracted to the sequence
number it was computed over: `verify_chain` is `ChainUnbroken`. `ApprovalLifecycle`, which the
workflow implements, has two switches for what interleaving adds: `Overlaps` (several workers: a
settled request can be settled again) and `Repeats` (several workers and nothing that serialises
them: a person can speak twice). `Serializable` chooses between
the two databases of `settings.DATABASES`: PostgreSQL, and SQLite, where two overlapping writers
cannot both commit.

### Reconciliation

`platform` is the truth, and changes at any time. A pass is one transaction: it sees committed
rows, its own writes are a draft until `FinishPass`, and a workflow step that needs a row the
draft holds waits, as it would for the row lock. `SaveGrant` writes every column of the row that
was fetched. Two history variables relate the table to the truth: `settled` (a pass that began
after the last change of this access has committed) and `early` (the access was matched to a
request that was not handed off yet). The platform may report an end of its own (`PlatformEnds`,
GitLab's expiry), which the pass stores when it creates the row.

### Findings

Each query of the engine is a step; what it has read (`rated`, `raised`, the systems, the rows to
leave alone) stays in its hand. Triage is a fetch and a save of the whole row, of any row there is:
the endpoints look at no status. An export is a read, a post and a stamp. `overlaps` counts the
tasks that started, or capabilities that changed, while another task was under way; a row's
`reopened` records that triage brought it back from resolved.

### Inventory

`vault` is the truth. A pull reads one account (`ReadAccount`) and writes one account
(`SaveAccount`); its listing can end early without an error. Its end is as many queries as in the
code: `CountLive` (the count the guard compares with), `FindMissing` (the rows to retire, asked for
again), `RetireAccount` (a save each) and `FinishPull` (the commit), and another pull may commit
between any two of them. It can fail at any point (rolled back). Visibility between overlapping
pulls is READ COMMITTED. Events are kept as what the last step committed of each account, snapshots
as the last one written.

### Usage

A feed brings logins and retrievals in any order and again; an asset keeps the first address
reported of it (`Addressed`), also by a login that is stored already (`RepeatLogin`). A name resolves
to the account mapped to the asset, where a blank address equals a blank one as it does in the code
(`usage/correlate.py:128`). A pass reads the claimed retrievals, then a limited batch of pending
logins, judges and saves one at a time, then rebuilds the links pair by pair; it can be lost
anywhere. `Verdict` keeps the code's branch for a pending login without an account; none is stored
as pending, so it is never taken.

### Listings

`order` is the vault, in the order its server lists it. `ReadPage` is one request of a loop: the
page at `place`, what it adds, and whether the loop ends with it (`LastGenericPage`,
`LastCyberArkPage`, ...). An offset stays where it is when accounts leave or arrive before it, a
cursor moves with its neighbours. HashiCorp Vault lists each mount (`ListRoles`) and reads each
role (`ReadRole`, in any order within the mount), and passes over what is refused; every other loop fails as a whole
(`FailPull`). `Reconcile` is the effect of `reconcile_accounts` on the set of live rows, with
`_retire_missing`; for the resource connectors that of `reconcile_access`, which has no such guard.
`during` is a history variable: what was in the vault all the while, and what left, arrived or was
refused since the pull began.

### Credentials and rules

`secret` is the vendor's record, whose fields may be absent; a platform that plans rotations itself
states its next date, which need not be the interval's (`NextDates`), and result fields hold texts
that are neither success nor failure (`Restate`). `ToAccount` is the `_to_account` of each connector,
reduced to the fields the rules read, each three-valued where the code's is. `Pull` stores it, counts
failures and stamps the row; a pull that no longer finds the account retires it (`Retire`) or, when
the rest of the listing is too short for that, passes over it and counts as a success all the same
(`PassOver`). `Sweep` is `RuleEngine.run` of the thirteen rules, with the capabilities of the vendor.
Days are whole; every threshold is a constant. Two history fields of `row`: `told`, the failures and
switches-off that pulls were told of, and `missed`, that a pull passed over it.

### Feeds

`log` is what the source has on record, in order of arrival; a record says when it happened and
when it arrived. `Collect` reads (`Eligible`, `Chosen`), `Store` is `record_observations` or
`ingest_activity`, `Finish` saves the cursor or ends the run, and `Die` comes between any two.
What the code steps over is collected in the ghost variable `gap`, at the step where it happens
and for a reason that has a name (`TooLate`, `Dropped`, what a read leaves aside); the property says
there is no other.

### The register of access

A run of the command is `StartRun` (`reconcile_resources`), `ReadAccess` or `SkipAccess` for each
repository in any order, and `Link` (`link_bot_credentials`). Roles are what the platform calls
them, levels what the code records. GitLab dates some accesses: `dated` is what the platform says,
`ends` what the register holds, which takes it when the grant is created and never again
(`access/reconcile.py:143`). `clean` is a history variable: the pairs whose access was read after it
last changed.

## What the runs check

Runs that pass:

* **access_concurrent** - two workers, one request that needs two approvals, READ COMMITTED:
  `EnoughApprovals`, `NobodyDecidesForThemselves` and `ChainUnbroken` hold whatever the
  interleaving. Two workers, because every race here is between one that has read and one that
  writes.
* **access_serialised** - the same with serialised transactions, four resources (a repository, a
  sandbox, one that no policy governs, one governed by a policy of zero days), and every kind of
  value for the days (blank, zero, below, at and above the ceiling): four eyes hold, and access is
  bounded unless its policy allows standing access or has the ceiling of zero that turns a blank
  field into standing access.
* **access_sequential** - one handler at a time, two requests, a developer and bots with and
  without an owner: no more open requests for one access than workers (`DuplicatesOnlyByRacing`),
  here no duplicate at all; and the workflow implements `ApprovalLifecycle` with both its switches
  off, which then forbids, among much else, any decision on a closed request. The clock goes to 2:
  a request of one day is due and not due.
* **reconcile** - access that comes and goes while requests are decided, handed off and revoked,
  passes run and time passes. A grant tied to a request is tied to one that was approved; access
  nobody ever approved is reported after a pass; access past the end of its request is reported,
  unless it was matched before the hand-off. One access and two requests for it, because the
  matching only ever looks at one access.
* **access_rules** - two repositories, one of them unreadable by its name, a bot, a deploy key and
  a team on GitHub or GitLab, two vaulted accounts of one name, two changes outside: the register is
  what the platform has wherever it was read after the last change; a bot with a stale credential
  and write access to production is a candidate; an access finding whose access goes on leaves the
  queue only when its account is no longer the one it hangs on, and the same sweep opens it on the
  one that is. It begins with a bot that writes on both repositories, on GitLab until a date on one
  of them: when the other role ends, standing access ends although access does not. Two changes
  undo and redo one role, or store the namesake and retire the first.
* **feeds** - eleven kinds of feed, two sessions, two records, a clock of four instants, records up
  to one instant late, two rotations or deaths: outside the named gaps no record is skipped; what
  waits unread for two intervals is reported; a quiet log is read to its end. Two records are two of
  one session (at one time, too), one of each, or one before and one after a rotation; a row limit
  of one and a byte limit of two lines are reached by them.
* **finding** - one subject, two platforms, two workers, four changes from outside, one overlap, and
  triage of any row, resolved ones included. Until tasks overlap: two findings for one subject only
  where triage reopened a resolved one, nothing resolved that was not seen clear, nothing stamped
  that the collector does not know, and the collector catches up. Whatever overlapped:
  what clears leaves the queue and what holds is in it. Four changes allow a condition that is
  raised, changes severity, clears and is raised again, or a triage or a death in between; the
  batch of two makes the export come back for the rest.
* **inventory** - two accounts, two pulls that overlap, fail and end early, three changes in the
  vault, and the counter of failed rotations up to two: the events of an undisturbed pull are
  exactly the differences it stored; of what was live when a pull counted it retires at most half,
  and a pull that was alone nothing else, while what another commits between its count and its query
  is retired unguarded; a listing that reached its end retires nothing that was there all the while, and the table is the vault wherever a complete,
  undisturbed pull answered last. Two accounts are the smallest estate in which one is half of it,
  the boundary of the guard; their names are symmetric.
* **listing** - eight loops over a vault of three accounts and a fourth that may arrive, pages of
  two (or one, from a server that serves less), a guard of three pages, two changes, one failure or
  refusal: a still vault is listed once and whole; each account that is missed has a departure to
  blame; the table settles. Three accounts make one full page and one short one, four make two full
  ones and an empty one.
* **usage** - three logins and two retrievals for two accounts of one name, one of them mapped by
  address and one mapped to nothing, on one asset whose address is reported or not; one worker,
  passes of two logins at most, one of which may be lost: one retrieval explains one login, verdicts
  rest on what was stored, links rebuilt after the last change tell the reach of the account, and
  every login is judged, also the one the limit leaves for the next pass.
* **credential_rules** - one credential, five vendors, four administrative states (governed,
  neglected, silent about rotation, waiting for deletion), four days, two changes on the platform,
  its own next date two days ahead or none, thresholds of one or two days and no grace for a
  rotation, pulls that are refused or too short: a credential past its interval, and past the
  platform's own date where it states one, is reported; one that keeps failing is reported and stays
  so; a finding of seven rules rests on what the platform said but for the silences the property
  names (`AccusationsRestOnTheRecord`); a pending deletion is reported only where the account has not
  been seen (`PendingDeletionOnlySeenWhenBlind`). Four days pass an interval of one day, a stated date
  and a grace of two, with a day to spare for the sweep.

The run that finds a violation (`PROJECT.json` "findings" quotes the lines):

* **access_counted_twice** - one approver's form sent twice counts as two approvals.

Deadlock is checked by the usage run only: everywhere else a bound (the clock, the number of
references, records or changes) can stop the instance.

### Fairness

Fairness is what the schedule (`pamsiem/celery.py`) and a living Celery worker give.

* `FindingEngine!FairSpec`: evaluations of every platform and exports are started again and again
  (strong fairness, because another task may be in the way at any moment), and a task that started
  goes on (weak fairness; when its worker dies, that is the action `EngineDies`, bounded by the
  changes). Triage that fetched a row saves it. Nobody is obliged to triage, to collect, or to run
  an evaluation of one platform.
* `UsageCorrelation!FairSpec`: the scheduled pass starts again and goes on once started (weak: nothing
  disables it for long); feeds owe nothing, and losses of passes are bounded, because a pass that is
  lost every time judges nothing.
* `VaultListing!FairSpec`: a pull starts again (every 15 minutes) and goes through its steps; failures and
  refusals are bounded.
* `CredentialRules!FairSpec`: pulls and sweeps go on. Nothing obliges the platform or the days.
* `CollectionFeeds!FairSpec`: pulls start again and go through their steps, and the rule is
  evaluated; deaths and rotations are bounded, and `Collect` is not enabled for a spool over its
  byte limit, because that pull fails every time.

The access modules and `InventoryDiff` assume no fairness and state no liveness.

## What is proved

Every safety property the passing runs check, and the refinement, is also a theorem: it holds for
every set of people, accounts, resources or logins, every number of workers (where no hypothesis
says otherwise), every threshold, and both isolations. `PROJECT.json` "theorems" pairs each with
its property. The argument is always an inductive invariant, stated as a conjunction of named parts
at the head of the proof module, one lemma for each action, and a few lines of temporal logic.

### Hypotheses

The assumptions on constants (`WorkflowAssumption`, `ReconcileAssumption`, `EngineAssumption`,
`DiffAssumption`, `CorrelationAssumption`, `ListingAssumption`, `DirectoryAssumption`,
`RulesAssumption`, `FeedAssumption`, those of `PolicyResolution`) say that sets have the right types,
that limits are naturals and that what is counted is finite; TLC evaluates them in the runs. Zero
is a natural: policies of zero days or zero approvals and thresholds of zero are covered. One
hypothesis goes further, because the properties are false without it:

* `OneWorker` (`ExpiredNeverHides`, and in the same words `ClaimsAreExclusive`,
  `RebuiltLinksAreRight` and `UnexplainedIsJudged` of `UsageCorrelationProofs`): one request, or one
  correlation, at a time. What overlapping ones do is listed below. The platform, the
  reconciliation pass, the feeds and the clock still move at any moment.

Where a property has a condition in its own words - until tasks overlap, where transactions are
serialised, where nothing disturbed a pull - the theorem has the same and no other.

### Workflow (`AccessWorkflowProofs`)

* `ResolvesToBest` (about the operators alone): a policy that rules applies, and no policy that
  applies outranks it, for every table. It rests on the order of the keys (`OutranksOrder`) and
  on a least element of a set of naturals.
* `TypeCorrect`; `ChainStaysUnbroken` from `Numbered` - steps are numbered 1, 2, 3 without a gap, and
  a worker never holds a number beyond the last step: if somebody else took it meanwhile the
  unique constraint refuses the insert.
* `NobodyEverDecidesForThemselves` from `Vetted` - who passed `check_segregation` and has not
  written yet is still not barred, because `submit` writes the columns that decide it once.
* `ApprovalsAreEnough` from `Backed` - whoever saw the request approved saw enough approvals, and
  steps are never removed. Without the part about the workers it is not inductive:
  `hand_off` writes from a state it read earlier.
* `SerialisedFourEyes`: `Spec => [](Serializable => FourEyes)`, from `OneAtATime` - at most one
  decision is inside its transaction, and its author has not spoken before. The people who
  approved are then as many as the approving steps. Without `Serializable` it is false, which
  access_counted_twice shows.
* `GrantsEndInTime` from `Limits`: a row holds days its policy permits, or zero only where it may
  stand (`MayStand`): the policy allows standing access, or gives zero days for a blank field. An
  end, once written, is the hand-off plus those days. Any number of workers may overlap: the days
  are written once, by `submit`.
* `DuplicatesAreRaces` from `Racing`: for each access there is an injection of its requests that are
  open, or that a decision in a worker's hand may reopen, into the workers, none of which is filling
  in the same form (`Slots`). A request beyond the first was raised beside another that
  passed the form's check earlier, and each decision that reopens one occupies a worker as well.
* `WorkflowKeepsItsPromise`: the refinement of `ApprovalLifecycle`, step by step, for any number of
  workers: most steps of a handler stutter, `Submit`, `RecordDecision`, `HandOff`, `Revoke` and
  `ExpireDue` are the abstract actions. `Vetted` keeps the barred out and `Backed` the count of
  consents; where `Repeats` is off, `OneAtATime` shows that nobody speaks twice; where `Overlaps` is
  off, `UpToDate` shows that what a lone worker read is still so when it writes.

### Reconciliation (`AccessWorkflowProofs`)

* `GovernedMeansApproved` from `RowsLinked`: in the table, in the draft of the pass and in the row it
  has in hand, a grant counts as approved exactly if it is linked to a request for this access that
  has been approved. The part about the hand is what makes it survive a workflow step between the
  fetch and the save.
* `NeverApprovedNeverHides` from `Tracked` and `SeenPresent`: what did not change since the pass began
  is reported by it exactly if it is there, so a commit leaves every such row listed and present.
* `ExpiredNeverHides` from `RowsDated` - a row linked after the hand-off has the end of its request -
  and `EndKept`: a lone worker never brings back a request that was handed off or revoked. Two
  workers could leave a grant marked revoked whose request says provisioned.

### Findings (`FindingEngineProofs`)

`StampedIsReceived`, `OnlyTheClearedIsResolved`, `NeverTwoFindings`: the invariant (`EInv`) says that until
the first overlap at most one task is under way (`Alone`), and that what each has in hand is what the
tables still say: the run's candidates, the row it did not find and the rows it will leave alone
(`RunInHand`), the row of triage (`TriageInHand`), the batch of the export (`BatchInHand`). The
properties hold for any batch, any deaths of workers, triage of any row, and capabilities and
conditions that change between any two steps. `NeverTwoFindings` says of two rows in the queue for
one subject that triage reopened one of them; what it says nothing of is runs that overlap.

### Inventory (`InventoryDiffProofs`)

`RowsHaveTheirHistory`, `HistoryFollowsTheRows`, `TheTableHeals`, `TheEstateIsNotRetired`,
`WhatWasThereStays`, `WhatHappenedIsTold`, for any number of accounts and of pulls that overlap, fail
or end early. The invariant (`DInv`) describes a pull under way: its draft holds what it saw but for
the record in hand (`Held`); of accounts that did not change, it has read or will read exactly those
that are there, as they are (`Watched`); and if no other pull overlapped it, its events and snapshots
are the differences of the rows it began from (`Undisturbed`). `HistoryFollowsTheRows` ends with the
first overlap and speaks of the status, the owner and the switch. `TheEstateIsNotRetired` holds
whatever overlaps, because it compares what a pull retires with what it counted: the guard saw at
least half of those, and the rows it retires are not among what it saw; a pull that was alone finds
nothing at its query that it had not counted.

### Usage (`UsageCorrelationProofs`)

`MatchesAlwaysFit` holds for overlapping passes as well: a verdict in hand names a retrieval that
fits. For one pass at a time `SoloInv` adds that it knows every claim, its own included
(`ClaimsKnown`), which gives `ClaimsAreExclusive` and `UnexplainedIsJudged`, and that a rebuild counts no
fewer logins than any link has unexplained ones, and counts right if nothing changed (`Rebuilding`),
which gives `RebuiltLinksAreRight`. Passes may be lost between any two saves.

### Listings (`VaultListingProofs`)

* `ListingIsComplete` from `LInv`: while nothing comes or goes, what has been listed is the part of the
  vault before the loop's place (`PageExtendsPrefix`: one page extends a prefix to a prefix), and each
  loop's own test of the last page implies, on filled pages and below the guard, that the place is
  the end. A change of the vault takes the pull out of the claim, because `during` counts it.
* `EachMissHasADeparture` from `MissInv`: of the accounts that stayed, those that lie before the place
  and were not listed (`Behind`) are at most as many as departed. A departure moves at most the one
  account after the place behind it, an arrival moves accounts the other way, a cursor moves with
  them, and a page puts nobody behind. At the end of the vault, who was missed lies behind
  (`LastPageIsTheEnd`). A walk has in hand, as names or as mounts, what it has not listed.

### Credentials, feeds, register

* `OverdueIsAlwaysReported`, `FindingsRestOnTheRecord`, `PendingDeletionMeansUnseen`
  (`CredentialRulesProofs`). The invariant (`CInv`) says that a stored row is what `_to_account` made
  of the record it was pulled from (`StoredAsPulled`), or its retired copy; that a live row which the
  last pull did not miss was last seen at that pull (`SeenWhenPulled`); and that a failure counted,
  or a switch recorded as turned off, was told by some pull (`ToldBefore`). The deadline stored then
  agrees with the interval of the policy or the platform's own date, each field a rule reads is
  stated by the record, connector by connector, and the date DEL-001 waits on is the date OPS-001
  waits on.
* `OnlyNamedGaps` (`CollectionFeedsProofs`), for all eleven kinds of feed. The property speaks
  of an idle pull only; the invariant (`FInv`) says of every moment that what is in no gap is stored or
  would be read again (`Kept`), and of a pull under way that what it has seen is stored, left aside or
  in its hand (`InHand`), and stored once its rows are (`HandIsStored`). The order of the code is what
  makes it inductive: the stamp is not written before the rows, nor the cursor before the stamp.
* `RegisterIsRight`, `PathIsAlwaysReported`, `AccessFindingsMoveWithTheirAccount`
  (`AccessDirectoryProofs`), for any repositories, holders, accounts and names, on either platform,
  with roles that end on a date and roles that do not. The invariant (`DInv`) adds what the register
  alone does not say: custom roles occur on GitHub only and never on keys (`CustomOnGitHubOnly`), what
  is listed and has not changed since is recorded as production if it is (`ProductionIsRecorded`),
  and a finding of ACC-006 hangs on the account its bot is joined to (`FindingsHangWell`). What goes
  on is then a candidate of the next sweep again, on the account it now hangs on.

### Only model-checked

Liveness: `ClearedIsResolved`, `HeldIsReported`, `CollectorCatchesUp`, `EveryLoginIsJudged`, `TableSettles`,
`FailingIsReported`, `UnreadIsReported` and `LogIsReadToItsEnd`. They rest on fairness, that is on ENABLED, which is
out of the prover's reach. That `ApproverCountsOnce` fails is a counterexample of TLC.

Two definitions are written without the library's shorter form because the provers cannot look into
it: tables that grow are function literals (`With` in `InventoryDiff`, `Saved` in
`AccessReconcile`), and the roles of a mount are a set (`ListRoles`).

## Where a property stops holding

The safety properties below are stated with the condition they need, or checked in a run that has
it. What happens without it was found with the same modules:

* Decisions that overlap a rejection or a revocation: `decide` writes the state it computed from a
  stale object, so a revoked request can come back as approved, and a step lands on a closed
  request (`access/workflow.py:241`, against `access/tests.py:230`). `hand_off` likewise.
* Two submissions of the form that overlap both pass the duplicate check (`access/forms.py`), and
  `submit` itself checks none: `DuplicatesOnlyByRacing` allows one more open request per further
  worker.
* Two evaluations that overlap create two findings for one subject, and the clean-up of one can
  resolve what the other has just created, as often as they overlap. `HeldIsReported` therefore
  says what holds after the last overlap.
* A capability that is lost between the evaluation and the clean-up hides its rows from the
  clean-up; one that comes back between them lets the clean-up resolve findings that were not
  evaluated (`rules/engine.py:179`).
* Triage takes any row (`api/views.py:75,88,102`): acknowledging a resolved finding beside a new one
  for the same subject makes two, with no overlap at all. `OneFindingPerSubject` names that case.
* The stamp of an export overwrites the mark a change has set since the batch was read
  (`export/splunk_hec.py:153`): the collector keeps the older version until the next evaluation
  marks the row, and for ever if the row is resolved.
* Two correlation passes that overlap can give one retrieval to two logins
  (`usage/correlate.py:204`); the usage run has one worker.
* An end that GitLab sets, moves or removes after the grant was recorded is not taken over
  (`access/reconcile.py:143`): a standing role that gets a date stays in ACC-005, a dated one that
  loses it never comes in. `MovesWithItsAccount` counts as standing what was created without an end.
* A revocation that commits between the pass's fetch and its save of the whole row loses its
  `revoked_at` (`access/reconcile.py:156`). ACC-001 and ACC-002 then look at the row again, which errs
  on the side of a report; no property is about that date.
* Access that is still on the platform after its request was revoked is reported by no rule:
  `revoked_at` takes the row out of ACC-001 and ACC-002 (`access/reconcile.py:217`), although
  `access/views.py:209-210` says "reconciliation will report it as expired-but-live until it happens".
  `NeverApprovedIsReported` is about access that was never approved.
* A login judged before the collection that brings its retrieval stays unexplained: `correlate` gives
  every pending login a verdict and never looks again (`usage/correlate.py:256`). `JudgedOnTheEvidence`
  is about what was stored at that moment.
* A listing that ends at the page guard of the generic connector ends without an error
  (`connectors/generic.py:271`) and retires what lies behind it, if half of the estate was listed:
  `StillVaultIsListedOnce` asks for `Unguarded`. A server that serves shorter pages than were asked for
  ends most loops early in the same way (`Filled`).
* A vault that shrank below half of its live rows between two pulls is refused at every pull from then
  on: the guard compares with the rows that were never retired (`TableSettles`).
* Two overlapping pulls of a platform: one can retire an account the other has just added. The
  count of the guard and the query of what is missing are two queries (`collection/reconcile.py:260-272`):
  what another pull commits between them is retired unguarded, all of it if nothing was live before.
  `MassRetirementRefused` speaks of what was counted.
  Vaults that hand out new identifiers for every account pass the retirement guard, because rows
  the pull created count as seen.
* A pull that is too short to retire leaves what it missed as it was and counts as a success
  (`collection/reconcile.py:261`, `collection/tasks.py:59`). An account waiting for its deletion that
  such pulls miss ages until DEL-001 reports it, while OPS-001 is silent.
  `PendingDeletionOnlySeenWhenBlind` names that case.

What the feeds step over (`gap` in `CollectionFeeds`), although README.md:210 promises that a failed
pull "re-reads its window rather than silently skipping it":

* The window of a vault starts at the end of the last run and that of a feed at the wall clock of the
  last ingest (`collection/tasks.py:62`, `usage/correlate.py:194`), so a record that arrives, or is
  dated, before that moment and was not in what was read is never asked for.
* An ordered view cut at `row_limit` and a trail read as one page of the newest lose the rest, since
  the stamp moves past it; so does an account whose activity CyberArk refuses, a refused answer of
  BeyondTrust, and an event of an account that is not in the inventory yet.
* A brokered session is listed when it ends and dated by its start: one that spans two pulls is before
  the window of the second.
* What is added to a session that is stored already - its key is its number or its start - is not
  stored. tac_plus stores one observation for each command instead, and of two records of one
  session and time in one batch `get_or_create` drops the second (`usage/correlate.py:160-163`).
* A rotated file that has grown back to the saved offset looks unread from there on only; a spool
  found emptied keeps its old offset, as if nothing had happened (`usage/collectors.py:309-313`).
* A spool at its byte limit: leaving the loop over the file and calling `tell()` raises
  (`usage/collectors.py:334-339`), so the pull fails, and every later one, where the log message
  promises to continue. The stale feed is reported, by OPS-002.

Other disagreements between the code and what it is documented to do, met while modelling:

* Policies that tie on the documented order are decided by name, whatever their standing access
  (`access/workflow.py:72-73`, `README.md:331-333`).
* A ceiling of zero days, which `access/models.py:199` admits, with a blank request yields access
  without an end (`access/workflow.py:145`, `README.md:326-327`): `requested_days or maximum` stores a
  zero, which the hand-off reads as standing access. `BoundedUnlessStandingAllowed` names that case.
* `approvals_required` admits zero (`access/models.py:191`); an abstention then approves the request
  (`access/workflow.py:267`), which the abstract lifecycle allows in `Answer`.
* `require_resource_owner` is read nowhere (`access/models.py:194`).
* A grant matched while its request is approved and not handed off never gets the end of the
  request (`access/reconcile.py:148`): `ExpiredIsReported` excludes it through `early`.
* `expire_due` and `reconcile_access` are scheduled nowhere; the model lets an operator run them.
* Delinea dates a rotation by its last attempt (`connectors/delinea.py:112`): a failing rotation is
  never overdue and its failure count starts over. `OverdueIsReported` measures from the attempt
  there, and `FailingIsReported` leaves that vendor out.
* A next date the platform states is believed however late it is: it keeps ROT-001 silent past the
  interval of the policy (`rules/builtin.py:56`, for `connectors/beyondtrust.py:108` and
  `connectors/generic.py:355`). `OverdueIsReported` asks for both.
* BeyondTrust takes a null result for a failure and an absent flag for "off"
  (`connectors/beyondtrust.py:110-112`), against `connectors/base.py:175`. CyberArk takes any text but
  success for a copy out of step (`connectors/cyberark.py:168`).
* A switch that a platform no longer states is recorded as turned off
  (`collection/reconcile.py:206`), and BOT-003 accuses the account (`rules/builtin.py:208`), as it does
  when Secret Server refuses one account's detail. `AccusationsRestOnTheRecord` gives that silence, and
  those of the two vendors before, by name.
* A threshold of zero failures, which a rule's configuration admits (`rules/builtin.py:93-95`), makes
  ROT-002 report every account there is.
* DEL-001 waits on `last_seen_at`, which every pull that lists the account refreshes
  (`rules/builtin.py:482`): it fires only where the platform is no longer collected, or pulls are too
  short to retire what they miss. OPS-001 and OPS-002 need an account to hang on.
* ONB-001 marks a discovery as onboarded for ever, also by an account that is deleted by now.
* Deploy tokens GitLab refuses are marked absent; rows that are archived or gone keep their grants;
  production is only ever raised; repositories whose name is a blocked word cannot be read
  (`resources/base.py:93`); a team with a custom role is recorded as a reader.
* A bot that was joined to an account is not joined again when that account is retired
  (`access/reconcile.py:193`); findings about people hang on the first live account of the vault
  (`rules/builtin.py:802`), and close and open again, as new rows, when another comes first.
* ACC-007 never reports access whose platform dates no use at all.
* `suppressed_until` is written and never read (`api/views.py:99-100`, `README.md:473-475`).
* Verification that recovers, and rotation switched on where it was unknown, produce neither event
  nor snapshot (`README.md:702-706`); `SnapshotsFollow` compares what the code tracks.
* The failure counter counts pulls that saw a failure, not failures
  (`collection/reconcile.py:190-191`).

## What is not modelled, and what comes next

Not modelled, and why:

* Text handling: the formats the parsers read, name normalisation, the classification of accounts and
  assets, justification and ticket texts. It enters as a value of a small set, or as the key it yields.
* USE-002 to USE-007, ACC-004 and ACC-008: counts over windows of events and a re-computation of the
  hash, evaluated from rows whose making is modelled; the engine that runs them is modelled.
* `compute_risk_score` (a sum of weights nothing reads back), `prune_history` and deletions by the
  administration screens, `export_lifecycle_events` (the shape of `export_findings` over rows that
  never change).
* The action of the administration screen that acknowledges any selection of findings without
  clearing `exported_at` (`inventory/admin.py:102`): the collector is not told until the next evaluation.
* Authentication, sessions and retries of one HTTP request in the connectors, the discovery of
  connectors in the registry, the contract tests.
* Read-only screens and lists, demonstration data, diagnostics, migrations.

`PROJECT.json` names each component and its status. What would come next:

1. **Theorems**: what overlapping tasks of the engine still guarantee, stated as safety; the step
   properties the liveness rests on.
2. **Composition**: the feeds with the correlation (a login that is skipped is judged by nobody), and
   the paging loops with the diff.
3. **The usage rules** over the links and verdicts of `UsageCorrelation`.
