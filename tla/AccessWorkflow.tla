---------------------------- MODULE AccessWorkflow ----------------------------
(***************************************************************************)
(* The approval workflow of access/workflow.py as the web screens of       *)
(* access/views.py and access/forms.py drive it: submit, decide, hand_off, *)
(* revoke and expire_due.                                                  *)
(*                                                                         *)
(* A view first fetches the AccessRequest (get_object_or_404) and then     *)
(* calls the workflow, whose transaction tests the state of the fetched    *)
(* OBJECT, not of the row.  A worker's request is therefore modelled as    *)
(* separate steps, between which the other workers run:                    *)
(*                                                                         *)
(*   submit    CheckForm -> Submit                                         *)
(*   decide    Fetch -> CheckDecision -> ReadPrevious -> RecordDecision    *)
(*   hand_off  Fetch -> HandOff                                            *)
(*                                                                         *)
(* Under PostgreSQL's READ COMMITTED, the isolation settings.DATABASES     *)
(* leaves in force, each query inside the transaction of decide sees what  *)
(* is committed at that moment; Serializable = TRUE is the development     *)
(* database (SQLite), where two overlapping writers cannot both commit.    *)
(* From the insert of the step to the commit nobody else can add a step    *)
(* with the same number (unique_together), so that part is one action.     *)
(***************************************************************************)
EXTENDS PolicyResolution

CONSTANTS
  References,      \* AccessRequest.reference values that may be drawn
  Workers,         \* web workers, each serving one HTTP request at a time
  People,          \* identities, trimmed and folded to lower case
  Requesters,      \* those of them who raise requests
  Voters,          \* those of them who open the decision form
  Nobody,          \* a blank identity or team
  Principals,      \* Principal rows (records)
  Resources,       \* Resource rows (records)
  Levels,          \* AccessLevel values requested
  Approver,        \* [People -> the Approver row, or one with no groups]
  MaxGrantDays,    \* settings.ACCESS_MAX_GRANT_DAYS
  DefaultGrantDays,\* settings.ACCESS_DEFAULT_GRANT_DAYS
  DaysAsked,       \* values typed in the "Days" field
  MaxTime,         \* bound on the clock
  Serializable     \* whether the database serialises overlapping transactions

Unset == -1        \* a null date or an empty "Days" field

ASSUME WorkflowAssumption ==
  /\ Requesters \subseteq People /\ Voters \subseteq People
  /\ \A p \in Principals : p.identities \subseteq People
  /\ IsFiniteSet(Workers)
  /\ MaxGrantDays \in Nat /\ DefaultGrantDays \in Nat
  /\ DaysAsked \subseteq Nat \cup {Unset}
  /\ Serializable \in BOOLEAN

VARIABLES
  state,      \* AccessRequest.state, "none" while the reference is unused
  request,    \* the columns submit writes and nothing changes afterwards
  dates,      \* decided_at, provisioned_at, expires_at
  steps,      \* ApprovalStep rows of each request, oldest first
  worker,     \* what each worker has in hand
  grant,      \* AccessGrant rows by (principal, resource, level)
  now         \* the clock, in days

workflowVars == <<state, request, dates, steps, worker>>
vars == <<state, request, dates, steps, worker, grant, now>>
------------------------------------------------------------------------------
States == {"none", "pending", "approved", "provisioned", "rejected", "expired", "revoked"}
Decisions == {"approved", "rejected", "abstained"}
Days == {Unset} \cup Nat

Form == [principal : Principals, resource : Resources, level : Levels,
         requestedBy : People, days : Days]
Columns == [principal : Principals, resource : Resources, level : Levels,
            requestedBy : People, days : Nat, policy : 0..Len(Policies),
            approvalsRequired : Nat]
Step == [sequence : Nat, approver : People, decision : Decisions, previous : Nat]
Dates == [decidedAt : Days, provisionedAt : Days, expiresAt : Days]

NotSubmitted == [principal |-> Nobody]
Idle == [pc |-> "idle"]
SubmitSession == [pc : {"submit"}, form : Form]
HandOffSession == [pc : {"handoff"}, reference : References, seen : States]
DecideSession == [pc : {"decide", "checked", "read"}, reference : References, seen : States,
                  approver : People, decision : Decisions, previous : Nat]
Session == {Idle} \cup SubmitSession \cup HandOffSession \cup DecideSession

Key == Principals \X Resources \X Levels
KeyOf(r) == <<request[r].principal, request[r].resource, request[r].level>>

(***************************************************************************)
(* AccessGrant: listed is whether the row exists; absent is absent_since   *)
(* not null; request is the foreign key.                                   *)
(***************************************************************************)
NoRequest == "no request"
NoGrant == [listed |-> FALSE, origin |-> "discovered", request |-> NoRequest,
            expiresAt |-> Unset, revokedAt |-> Unset, absent |-> FALSE]
Grant == [listed : BOOLEAN, origin : {"discovered", "approved"},
          request : References \cup {NoRequest},
          expiresAt : Days, revokedAt : Days, absent : BOOLEAN]
------------------------------------------------------------------------------
Min2(a, b) == IF a <= b THEN a ELSE b
IsNonHuman(p) == p.type \in {"bot", "service"}
InTransaction(w) == worker[w].pc \in {"checked", "read"}

\* A write (or the start of a transaction) that a serialising database lets through.
MayWrite(w) == Serializable => \A other \in Workers \ {w} : ~InTransaction(other)

Done(w) == worker' = [worker EXCEPT ![w] = Idle]

Approvals(r) == {i \in 1..Len(steps[r]) : steps[r][i].decision = "approved"}
ApprovedBy(r) == {steps[r][i].approver : i \in Approvals(r)}
Deciders(r) == {steps[r][i].approver : i \in 1..Len(steps[r])}
------------------------------------------------------------------------------
Init ==
  /\ state = [r \in References |-> "none"]
  /\ request = [r \in References |-> NotSubmitted]
  /\ dates = [r \in References |->
                [decidedAt |-> Unset, provisionedAt |-> Unset, expiresAt |-> Unset]]
  /\ steps = [r \in References |-> <<>>]
  /\ worker = [w \in Workers |-> Idle]
  /\ grant = [k \in Key |-> NoGrant]
  /\ now = 0

------------------------------------------------------------------------------
(***************************************************************************)
(* Submission.                                                             *)
(***************************************************************************)
SameAccess(form) ==
  {r \in References : /\ state[r] # "none"
                      /\ KeyOf(r) = <<form.principal, form.resource, form.level>>}

PolicyOf(form) == ResolvePolicy(form.resource, form.principal, form.level)

BlankOwnedBot(policy, p) ==
  IsNonHuman(p) /\ policy.requireOwnerForBots /\ p.owner = Nobody

\* Mutant: a request of this access in any worker's hands is not looked for.
FormAcceptsDuplicate(form) ==
  LET policy == Policies[PolicyOf(form)] IN
  /\ form.principal.active /\ ~form.resource.archived
  /\ form.days <= MaxGrantDays
  /\ PolicyOf(form) # 0 => /\ form.days <= policy.maximumDays
                           /\ form.days = 0 => policy.standingAllowed
                           /\ ~BlankOwnedBot(policy, form.principal)

(***************************************************************************)
(* AccessRequestForm.clean.  Justification and ticket are taken as given:  *)
(* a blank one only ever refuses, here and again in submit.                *)
(***************************************************************************)
FormAccepts(form) ==
  LET policy == Policies[PolicyOf(form)] IN
  /\ form.principal.active /\ ~form.resource.archived
  /\ form.days <= MaxGrantDays
  /\ PolicyOf(form) # 0 => /\ form.days <= policy.maximumDays
                           /\ form.days = 0 => policy.standingAllowed
                           /\ ~BlankOwnedBot(policy, form.principal)
  /\ \A r \in SameAccess(form) : state[r] \notin {"pending", "approved"}

CheckForm(w) ==
  /\ worker[w] = Idle
  /\ \E form \in [principal : Principals, resource : Resources, level : Levels,
                  requestedBy : Requesters, days : DaysAsked] :
       /\ FormAccepts(form)
       /\ worker' = [worker EXCEPT ![w] = [pc |-> "submit", form |-> form]]
  /\ UNCHANGED <<state, request, dates, steps, grant, now>>

Ceiling(policy) ==
  IF policy = 0 THEN MaxGrantDays ELSE Min2(Policies[policy].maximumDays, MaxGrantDays)

\* "requested_days or default": an empty field and zero both take the default.
EffectiveDays(policy, asked) ==
  IF asked \notin {Unset, 0} THEN asked
  ELSE IF policy = 0 THEN DefaultGrantDays ELSE Policies[policy].maximumDays

\* Mutant: standing access is not refused.
SubmitAllowsStanding(policy, form) ==
  /\ form.principal.active /\ ~form.resource.archived
  /\ policy # 0 => ~BlankOwnedBot(Policies[policy], form.principal)
  /\ form.days # 0 => EffectiveDays(policy, form.days) <= Ceiling(policy)

SubmitAllows(policy, form) ==
  /\ form.principal.active /\ ~form.resource.archived
  /\ policy # 0 => ~BlankOwnedBot(Policies[policy], form.principal)
  /\ IF form.days = 0
     THEN policy # 0 /\ Policies[policy].standingAllowed
     ELSE EffectiveDays(policy, form.days) <= Ceiling(policy)

(***************************************************************************)
(* submit.  A standing request stores a null requested_days; 0 here stands *)
(* for that null and for a stored 0, which hand_off treats alike.          *)
(***************************************************************************)
Submit(w) ==
  /\ worker[w].pc = "submit" /\ MayWrite(w)
  /\ LET form == worker[w].form
         policy == PolicyOf(form)
     IN /\ SubmitAllows(policy, form)
        /\ \E r \in References :
             /\ state[r] = "none"
             /\ state' = [state EXCEPT ![r] = "pending"]
             /\ request' = [request EXCEPT ![r] =
                  [principal |-> form.principal, resource |-> form.resource,
                   level |-> form.level, requestedBy |-> form.requestedBy,
                   days |-> IF form.days = 0 THEN 0 ELSE EffectiveDays(policy, form.days),
                   policy |-> policy,
                   approvalsRequired |-> IF policy = 0 THEN 1
                                         ELSE Policies[policy].approvalsRequired]]
  /\ Done(w)
  /\ UNCHANGED <<dates, steps, grant, now>>
------------------------------------------------------------------------------
(***************************************************************************)
(* Decisions.                                                              *)
(***************************************************************************)
\* get_object_or_404 in request_decide and request_handoff.
FetchToDecide(w) ==
  /\ worker[w] = Idle
  /\ \E r \in References, p \in Voters, d \in Decisions :
       /\ state[r] # "none"
       /\ worker' = [worker EXCEPT ![w] =
            [pc |-> "decide", reference |-> r, seen |-> state[r],
             approver |-> p, decision |-> d, previous |-> 0]]
  /\ UNCHANGED <<state, request, dates, steps, grant, now>>

\* Mutant: the beneficiary may decide.
SegregatedButSelf(r, p) ==
  LET asked == request[r].principal
      policy == Policies[request[r].policy]
  IN /\ p # request[r].requestedBy
     /\ p \notin Deciders(r)
     /\ (request[r].policy # 0 /\ policy.approverGroups # {}) =>
          Approver[p].groups \cap policy.approverGroups # {}
     /\ ~(Approver[p].independent /\ Approver[p].team # Nobody /\ Approver[p].team = asked.team)

\* Mutant: nobody looks whether the approver has already decided.
SegregatedButTwice(r, p) ==
  LET asked == request[r].principal
      policy == Policies[request[r].policy]
  IN /\ p # request[r].requestedBy
     /\ p \notin asked.identities
     /\ (request[r].policy # 0 /\ policy.approverGroups # {}) =>
          Approver[p].groups \cap policy.approverGroups # {}
     /\ ~(Approver[p].independent /\ Approver[p].team # Nobody /\ Approver[p].team = asked.team)

(***************************************************************************)
(* check_segregation.  The test on a bot's owner adds nothing to the first *)
(* one (it refuses the owner only when the owner is the requester), so it  *)
(* has no conjunct of its own.                                             *)
(***************************************************************************)
Segregated(r, p) ==
  LET asked == request[r].principal
      policy == Policies[request[r].policy]
  IN /\ p # request[r].requestedBy
     /\ p \notin asked.identities
     /\ p \notin Deciders(r)
     /\ (request[r].policy # 0 /\ policy.approverGroups # {}) =>
          Approver[p].groups \cap policy.approverGroups # {}
     /\ ~(Approver[p].independent /\ Approver[p].team # Nobody /\ Approver[p].team = asked.team)

\* decide, up to the query of the earlier decisions.
CheckDecision(w) ==
  /\ worker[w].pc = "decide" /\ MayWrite(w)
  /\ worker[w].seen = "pending"
  /\ Segregated(worker[w].reference, worker[w].approver)
  /\ worker' = [worker EXCEPT ![w].pc = "checked"]
  /\ UNCHANGED <<state, request, dates, steps, grant, now>>

LastSequence(r) == IF steps[r] = <<>> THEN 0 ELSE steps[r][Len(steps[r])].sequence

\* previous = request.approvals.order_by("-sequence").first()
ReadPrevious(w) ==
  /\ worker[w].pc = "checked"
  /\ worker' = [worker EXCEPT ![w].pc = "read",
                              ![w].previous = LastSequence(worker[w].reference)]
  /\ UNCHANGED <<state, request, dates, steps, grant, now>>

\* Mutant: the table has no unique_together on (request, sequence).
SequenceTaken(r, n) == FALSE

\* ApprovalStep.Meta.unique_together: the insert fails when the number is in use.
SequenceInUse(r, n) == \E i \in 1..Len(steps[r]) : steps[r][i].sequence = n

\* Mutant: every recorded decision is counted.
DecidedStateCountsAll(r, decision, count) ==
  CASE decision = "rejected" -> "rejected"
    [] decision # "rejected" /\ Len(steps[r]) + 1 >= request[r].approvalsRequired -> "approved"
    [] OTHER -> state[r]

\* What decide leaves in the row: an abstention or a lone approval does not write it.
DecidedState(r, decision, count) ==
  CASE decision = "rejected" -> "rejected"
    [] decision # "rejected" /\ count >= request[r].approvalsRequired -> "approved"
    [] OTHER -> state[r]

(***************************************************************************)
(* decide, from the insert of the step to the commit: the step takes the   *)
(* number after the one read and carries that one's hash; the state is     *)
(* written without being read again.                                       *)
(***************************************************************************)
RecordDecision(w) ==
  /\ worker[w].pc = "read"
  /\ LET r == worker[w].reference
         d == worker[w].decision
         count == Cardinality(Approvals(r)) + (IF d = "approved" THEN 1 ELSE 0)
         closes == d = "rejected" \/ count >= request[r].approvalsRequired
     IN /\ ~SequenceInUse(r, worker[w].previous + 1)
        /\ steps' = [steps EXCEPT ![r] = Append(@,
             [sequence |-> worker[w].previous + 1, approver |-> worker[w].approver,
              decision |-> d, previous |-> worker[w].previous])]
        /\ state' = [state EXCEPT ![r] = DecidedState(r, d, count)]
        /\ dates' = [dates EXCEPT ![r].decidedAt = IF closes THEN now ELSE @]
  /\ Done(w)
  /\ UNCHANGED <<request, grant, now>>
------------------------------------------------------------------------------
(***************************************************************************)
(* Hand-off, revocation and expiry.                                        *)
(***************************************************************************)
FetchToHandOff(w) ==
  /\ worker[w] = Idle
  /\ \E r \in References :
       /\ state[r] # "none"
       /\ worker' = [worker EXCEPT ![w] =
                       [pc |-> "handoff", reference |-> r, seen |-> state[r]]]
  /\ UNCHANGED <<state, request, dates, steps, grant, now>>

HandOffAllowed(seen) == seen = "approved"

HandOff(w) ==
  /\ worker[w].pc = "handoff" /\ MayWrite(w)
  /\ HandOffAllowed(worker[w].seen)
  /\ LET r == worker[w].reference IN
       /\ state' = [state EXCEPT ![r] = "provisioned"]
       /\ dates' = [dates EXCEPT ![r].provisionedAt = now,
                                 ![r].expiresAt = IF request[r].days > 0
                                                  THEN now + request[r].days ELSE @]
  /\ Done(w)
  /\ UNCHANGED <<request, steps, grant, now>>

\* revoke tests no state: the fetch before it only establishes that the row exists.
Revoke(w) ==
  /\ worker[w] = Idle /\ MayWrite(w)
  /\ \E r \in References :
       /\ state[r] # "none"
       /\ state' = [state EXCEPT ![r] = "revoked"]
       /\ grant' = [k \in Key |-> IF grant[k].request = r /\ grant[k].revokedAt = Unset
                                  THEN [grant[k] EXCEPT !.revokedAt = now] ELSE grant[k]]
  /\ UNCHANGED <<request, dates, steps, worker, now>>

Due == {r \in References : /\ state[r] = "provisioned"
                           /\ dates[r].expiresAt # Unset /\ dates[r].expiresAt < now}

\* expire_due: nothing in the repository calls it but an operator's shell can.
ExpireDue ==
  /\ Due # {}
  /\ Serializable => \A w \in Workers : ~InTransaction(w)
  /\ state' = [r \in References |-> IF r \in Due THEN "expired" ELSE state[r]]
  /\ UNCHANGED <<request, dates, steps, worker, grant, now>>

(***************************************************************************)
(* A WorkflowError, an IntegrityError from the unique constraint, or the   *)
(* death of the worker: transaction.atomic rolls back, nothing is left.    *)
(***************************************************************************)
RollBack(w) ==
  /\ worker[w] # Idle
  /\ Done(w)
  /\ UNCHANGED <<state, request, dates, steps, grant, now>>

Tick ==
  /\ now < MaxTime
  /\ now' = now + 1
  /\ UNCHANGED <<state, request, dates, steps, worker, grant>>

WorkerStep(w) ==
  \/ CheckForm(w) \/ Submit(w)
  \/ FetchToDecide(w) \/ CheckDecision(w) \/ ReadPrevious(w) \/ RecordDecision(w)
  \/ FetchToHandOff(w) \/ HandOff(w)
  \/ Revoke(w) \/ RollBack(w)

Next == (\E w \in Workers : WorkerStep(w)) \/ ExpireDue \/ Tick

Spec == Init /\ [][Next]_vars
------------------------------------------------------------------------------
(***************************************************************************)
(* Properties.                                                             *)
(***************************************************************************)
Granted == {"approved", "provisioned", "expired"}

\* The people check_segregation keeps away from the request.
Barred(r) == {request[r].requestedBy} \cup request[r].principal.identities

\* Every row holds values its columns admit, and a row exists once its reference is used.
TypeOK ==
  /\ state \in [References -> States]
  /\ request \in [References -> Columns \cup {NotSubmitted}]
  /\ \A r \in References : state[r] # "none" => request[r] \in Columns
  /\ dates \in [References -> Dates]
  /\ steps \in [References -> Seq(Step)]
  /\ worker \in [Workers -> Session]
  /\ \A w \in Workers : worker[w].pc \notin {"idle", "submit"} =>
       state[worker[w].reference] # "none"
  /\ grant \in [Key -> Grant]
  /\ now \in Nat

(***************************************************************************)
(* However decisions, hand-offs and revocations of one request overlap, a  *)
(* request that is or was approved has as many approving steps as its      *)
(* policy asked for when it was submitted (decide counts before it writes, *)
(* hand_off and expire_due rely on that count).                            *)
(***************************************************************************)
EnoughApprovals ==
  \A r \in References :
    state[r] \in Granted => Cardinality(Approvals(r)) >= request[r].approvalsRequired

(***************************************************************************)
(* No recorded decision is by the requester or by the person who would     *)
(* hold the access: check_segregation enforces it at decision time.        *)
(***************************************************************************)
NobodyDecidesForThemselves ==
  \A r \in References : state[r] # "none" =>
    Deciders(r) \cap Barred(r) = {}

(***************************************************************************)
(* "The same approver cannot count twice" (access/tests.py): no person has *)
(* two decisions on one request, even by sending the form twice.           *)
(***************************************************************************)
ApproverCountsOnce ==
  \A r \in References : \A i, j \in 1..Len(steps[r]) :
    steps[r][i].approver = steps[r][j].approver => i = j

(***************************************************************************)
(* Four eyes: an approved request rests on as many different people as its *)
(* policy asked for, none of them the requester or the beneficiary.        *)
(***************************************************************************)
FourEyes ==
  \A r \in References : state[r] \in Granted =>
    Cardinality(ApprovedBy(r) \ Barred(r)) >= request[r].approvalsRequired

(***************************************************************************)
(* verify_chain succeeds: racing decisions never fork the hash chain,      *)
(* because the numbering is unique and a step is hashed over the one that  *)
(* bears the number before its own.                                        *)
(***************************************************************************)
ChainUnbroken ==
  \A r \in References : \A i \in 1..Len(steps[r]) :
    steps[r][i].previous = IF i = 1 THEN 0 ELSE steps[r][i - 1].sequence

(***************************************************************************)
(* The form's duplicate check, made before the transaction that inserts,   *)
(* lets through at most what the workers had in hand at the same moment:   *)
(* the requests open for exactly the same access, those reopened by a      *)
(* decision on a revoked one included, are never more than the workers.    *)
(* With one worker there is one such request.                              *)
(***************************************************************************)
Open == {"pending", "approved"}

OpenFor(k) == {r \in References : state[r] \in Open /\ KeyOf(r) = k}

DuplicatesOnlyByRacing ==
  \A k \in Key : Cardinality(OpenFor(k)) <= Cardinality(Workers)

(***************************************************************************)
(* A provisioned request ends by its policy's ceiling, counted from the    *)
(* hand-off, unless the policy allows standing access (submit caps the     *)
(* days, hand_off turns them into a date) or its ceiling is zero days: "or *)
(* maximum_duration_days" then stores a zero for an empty field, and       *)
(* hand_off takes a zero for standing access.                              *)
(***************************************************************************)
BoundedUnlessStandingAllowed ==
  \A r \in References : state[r] \in {"provisioned", "expired"} =>
    LET policy == request[r].policy
        d == dates[r]
    IN IF d.expiresAt = Unset
       THEN \/ policy # 0 /\ Policies[policy].standingAllowed
            \/ EffectiveDays(policy, Unset) = 0
       ELSE d.expiresAt - d.provisionedAt <= Ceiling(policy)
------------------------------------------------------------------------------
(***************************************************************************)
(* The inductive invariant: what the properties above rest on, about the   *)
(* rows and about what each worker read before it writes.                  *)
(***************************************************************************)
\* The chain has no gap and no fork, and a worker read a number that is in it.
Numbered ==
  /\ \A r \in References : \A i \in 1..Len(steps[r]) :
       steps[r][i].sequence = i /\ steps[r][i].previous = i - 1
  /\ \A w \in Workers : worker[w].pc = "read" =>
       worker[w].previous <= Len(steps[worker[w].reference])

\* A decision that passed check_segregation still may be recorded.
Vetted ==
  /\ NobodyDecidesForThemselves
  /\ \A r \in References : state[r] = "none" => steps[r] = <<>>
  /\ \A w \in Workers : InTransaction(w) => worker[w].approver \notin Barred(worker[w].reference)

\* Whoever saw the request approved saw enough approvals, and they are still there.
Backed ==
  /\ EnoughApprovals
  /\ \A w \in Workers : worker[w].pc = "handoff" /\ worker[w].seen = "approved" =>
       Cardinality(Approvals(worker[w].reference)) >= request[worker[w].reference].approvalsRequired

\* With overlapping transactions serialised, one decision is being recorded at a time.
OneAtATime ==
  Serializable =>
    /\ ApproverCountsOnce
    /\ \A v, w \in Workers : InTransaction(v) /\ InTransaction(w) => v = w
    /\ \A w \in Workers : InTransaction(w) => worker[w].approver \notin Deciders(worker[w].reference)

IInv == TypeOK /\ Numbered /\ Vetted /\ Backed /\ OneAtATime
------------------------------------------------------------------------------
(***************************************************************************)
(* The workflow is the promised lifecycle: the steps are the record of who *)
(* spoke and consented.  A request read before its decision may have       *)
(* changed when the decision is written only where there are other         *)
(* workers, and a person speaks twice only where the database does not     *)
(* serialise their transactions.                                           *)
(***************************************************************************)
Needed == [r \in References |-> IF state[r] = "none" THEN 0 ELSE request[r].approvalsRequired]
BarredFrom == [r \in References |-> IF state[r] = "none" THEN {} ELSE Barred(r)]
Spoken == [r \in References |-> Deciders(r)]
Consents == [r \in References |-> Cardinality(Approvals(r))]
ManyWorkers == \E v, w \in Workers : v # w

Lifecycle == INSTANCE ApprovalLifecycle WITH
  phase <- state, needed <- Needed, barred <- BarredFrom, spoken <- Spoken, consents <- Consents,
  Overlaps <- ManyWorkers, Repeats <- ManyWorkers /\ ~Serializable

ImplementsLifecycle == Lifecycle!Spec
==============================================================================
