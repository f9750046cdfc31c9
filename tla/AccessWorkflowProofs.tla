------------------------- MODULE AccessWorkflowProofs -------------------------
(***************************************************************************)
(* What the approval workflow guarantees for every set of workers,         *)
(* references and people, every policy table and every clock; first, that  *)
(* resolve_policy picks a best candidate whatever the policy table holds.  *)
(***************************************************************************)
EXTENDS AccessReconcile, FiniteSetTheorems, WellFoundedInduction, TLAPS

Below(m) == 0..m

(***************************************************************************)
(* A non-empty set of naturals has a least element.  The library states    *)
(* induction for a predicate; strict inclusion of finite sets is its only  *)
(* well-founded relation that is a set, so a number stands for the finite  *)
(* set of the numbers up to it.                                            *)
(***************************************************************************)
LEMMA LeastNatural ==
  ASSUME NEW S \in SUBSET Nat, S # {}
  PROVE  \E m \in S : \A n \in S : m <= n
<1> DEFINE T == {Below(m) : m \in S}
<1>1. T \subseteq FiniteSubsetsOf(Nat)
  <2> SUFFICES ASSUME NEW m \in S
               PROVE  Below(m) \in FiniteSubsetsOf(Nat)
    OBVIOUS
  <2>1. IsFiniteSet(Below(m))
    BY FS_Interval DEF Below
  <2>2. Below(m) \subseteq Nat
    BY DEF Below
  <2>. QED  BY <2>1, <2>2 DEF FiniteSubsetsOf
<1>2. T # {}
  OBVIOUS
<1>3. PICK x \in T : \A y \in T : ~ (<<y, x>> \in StrictSubsetOrdering(Nat))
  BY <1>1, <1>2, FS_StrictSubsetOrderingWellFounded, WFMin
<1>4. PICK m \in S : x = Below(m)
  OBVIOUS
<1>5. ASSUME NEW n \in S, ~ (m <= n)
      PROVE  FALSE
  <2>1. Below(n) \subseteq Below(m) /\ Below(n) # Below(m)
    BY <1>5 DEF Below
  <2>2. <<Below(n), Below(m)>> \in StrictSubsetOrdering(Nat)
    BY <2>1 DEF StrictSubsetOrdering, Below
  <2>. QED  BY <2>2, <1>3, <1>4
<1>. QED  BY <1>5

\* The ranking is a strict partial order on the rows of a table.
LEMMA OutranksOrder ==
  ASSUME NEW p, NEW q, NEW s,
         p.approvalsRequired \in Nat, q.approvalsRequired \in Nat, s.approvalsRequired \in Nat,
         p.maximumDays \in Nat, q.maximumDays \in Nat, s.maximumDays \in Nat
  PROVE  /\ ~Outranks(p, p)
         /\ Outranks(p, q) /\ Outranks(q, s) => Outranks(p, s)
<1>1. Specificity(p) \in Nat /\ Specificity(q) \in Nat /\ Specificity(s) \in Nat
  BY DEF Specificity
<1>. QED  BY <1>1 DEF Outranks

\* Among the candidates there is one that none outranks.
LEMMA SomeBest ==
  ASSUME NEW policies, Table(policies), NEW C \in SUBSET DOMAIN policies, C # {}
  PROVE  \E i \in C : \A j \in C : ~Outranks(policies[j], policies[i])
<1> DEFINE U(i) == {j \in C : Outranks(policies[j], policies[i])}
           T == {U(i) : i \in C}
<1>1. IsFiniteSet(C)
  BY FS_Interval, FS_Subset, 1 \in Int, Len(policies) \in Int, C \subseteq 1..Len(policies) DEF Table
<1>2. T \subseteq FiniteSubsetsOf(C)
  BY <1>1, FS_FiniteSubsetsOfFinite
<1>3. T # {}
  OBVIOUS
<1>4. PICK x \in T : \A y \in T : ~ (<<y, x>> \in StrictSubsetOrdering(C))
  BY <1>2, <1>3, FS_StrictSubsetOrderingWellFounded, WFMin
<1>5. PICK i \in C : x = U(i)
  OBVIOUS
<1>6. ASSUME NEW j \in C, Outranks(policies[j], policies[i])
      PROVE  FALSE
  <2>1. U(j) \subseteq U(i)
    <3> SUFFICES ASSUME NEW k \in C, Outranks(policies[k], policies[j])
                 PROVE  Outranks(policies[k], policies[i])
      OBVIOUS
    <3>. QED  BY <1>6, OutranksOrder DEF Table
  <2>2. j \in U(i) /\ j \notin U(j)
    BY <1>6, OutranksOrder DEF Table
  <2>3. <<U(j), U(i)>> \in StrictSubsetOrdering(C)
    BY <2>1, <2>2 DEF StrictSubsetOrdering
  <2>. QED  BY <2>3, <1>4, <1>5
<1>. QED  BY <1>6

(***************************************************************************)
(* For every table, resource, principal and level: resolve_policy answers  *)
(* none exactly when no policy applies; otherwise the row it returns       *)
(* applies, no other applicable row outranks it, and of the applicable     *)
(* rows that none outranks it is the first in queryset order.              *)
(***************************************************************************)
THEOREM ResolvesToBest ==
  ASSUME NEW policies, Table(policies), NEW resource, NEW principal, NEW level
  PROVE  LET C == Candidates(policies, resource, principal, level)
             c == ResolveIn(policies, resource, principal, level)
         IN /\ c \in 0..Len(policies)
            /\ (c = 0) <=> (C = {})
            /\ C # {} => /\ c \in C
                         /\ \A j \in C : ~Outranks(policies[j], policies[c])
                         /\ \A j \in C : (\A k \in C : ~Outranks(policies[k], policies[j])) => c <= j
<1> DEFINE C == Candidates(policies, resource, principal, level)
           c == ResolveIn(policies, resource, principal, level)
           Best == {i \in C : \A j \in C : ~Outranks(policies[j], policies[i])}
<1>1. C \subseteq DOMAIN policies /\ DOMAIN policies = 1..Len(policies) /\ Len(policies) \in Nat
  BY DEF Candidates, Table
<1>2. CASE C = {}
  BY <1>1, <1>2 DEF ResolveIn
<1>3. CASE C # {}
  <2>1. Best # {}
    BY <1>1, <1>3, SomeBest
  <2>2. \E m \in Best : \A n \in Best : m <= n
    <3>1. Best \in SUBSET Nat
      BY <1>1
    <3>. QED  BY <3>1, <2>1, LeastNatural
  <2>3. c = CHOOSE i \in Best : \A j \in Best : i <= j
    BY <1>3 DEF ResolveIn
  <2>4. c \in Best /\ \A j \in Best : c <= j
    BY <2>2, <2>3
  <2>. QED  BY <1>1, <1>3, <2>4
<1>. QED  BY <1>2, <1>3
------------------------------------------------------------------------------

LEMMA PolicyOfType ==
  ASSUME NEW form \in Form
  PROVE  PolicyOf(form) \in 0..Len(Policies)
BY PoliciesAssumption, ResolvesToBest DEF PolicyOf, ResolvePolicy

\* The program counter tells which kind of session a worker serves.
LEMMA SessionKind ==
  ASSUME NEW s \in Session
  PROVE  /\ s.pc = "submit" => s \in SubmitSession
         /\ s.pc = "handoff" => s \in HandOffSession
         /\ s.pc \in {"decide", "checked", "read"} => s \in DecideSession
<1>1. CASE s = Idle
  BY <1>1 DEF Idle
<1>2. CASE s \in SubmitSession
  BY <1>2 DEF SubmitSession
<1>3. CASE s \in HandOffSession
  BY <1>3 DEF HandOffSession
<1>4. CASE s \in DecideSession
  BY <1>4 DEF DecideSession
<1>. QED  BY <1>1, <1>2, <1>3, <1>4 DEF Session

\* A worker that is past the fetch has a reference in hand.
LEMMA SessionReference ==
  ASSUME NEW s \in Session, s.pc \notin {"idle", "submit"}
  PROVE  s.reference \in References
<1>1. CASE s = Idle
  BY <1>1 DEF Idle
<1>2. CASE s \in SubmitSession
  BY <1>2 DEF SubmitSession
<1>3. CASE s \in HandOffSession
  BY <1>3 DEF HandOffSession
<1>4. CASE s \in DecideSession
  BY <1>4 DEF DecideSession
<1>. QED  BY <1>1, <1>2, <1>3, <1>4 DEF Session

LEMMA TypeInit == Init => TypeOK
<1> SUFFICES ASSUME Init PROVE TypeOK
  OBVIOUS
<1> USE DEF Init
<1>1. state \in [References -> States] /\ now \in Nat
  BY DEF States
<1>2. /\ request \in [References -> Columns \cup {NotSubmitted}]
      /\ \A r \in References : state[r] # "none" => request[r] \in Columns
  OBVIOUS
<1>3. dates \in [References -> Dates]
  BY DEF Dates, Days, Unset
<1>4. steps \in [References -> Seq(Step)]
  OBVIOUS
<1>5. /\ worker \in [Workers -> Session]
      /\ \A w \in Workers : worker[w] = Idle
  BY DEF Session
<1>6. grant \in [Key -> Grant]
  BY DEF NoGrant, Grant, Days
<1>7. \A w \in Workers : worker[w].pc = "idle"
  BY <1>5 DEF Idle
<1>. QED  BY <1>1, <1>2, <1>3, <1>4, <1>5, <1>6, <1>7 DEF TypeOK

LEMMA TypeCheckForm ==
  ASSUME TypeOK, NEW w \in Workers, CheckForm(w)
  PROVE  TypeOK'
<1>1. PICK form \in Form : worker' = [worker EXCEPT ![w] = [pc |-> "submit", form |-> form]]
  BY WorkflowAssumption DEF CheckForm, Form, Days
<1>2. [pc |-> "submit", form |-> form] \in Session
  BY DEF Session, SubmitSession
<1>. QED  BY <1>1, <1>2 DEF TypeOK, CheckForm, Idle

LEMMA TypeSubmit ==
  ASSUME TypeOK, NEW w \in Workers, Submit(w)
  PROVE  TypeOK'
<1> DEFINE form == worker[w].form
           policy == PolicyOf(form)
           row == [principal |-> form.principal, resource |-> form.resource,
                   level |-> form.level, requestedBy |-> form.requestedBy,
                   days |-> IF form.days = 0 THEN 0 ELSE EffectiveDays(policy, form.days),
                   policy |-> policy,
                   approvalsRequired |-> IF policy = 0 THEN 1
                                         ELSE Policies[policy].approvalsRequired]
<1>1. form \in Form
  <2>1. worker[w] \in Session /\ worker[w].pc = "submit"
    BY DEF TypeOK, Submit
  <2>. QED  BY <2>1, SessionKind DEF SubmitSession
<1>2. policy \in 0..Len(Policies)
  BY <1>1, PolicyOfType
<1>3. policy # 0 => /\ Policies[policy].approvalsRequired \in Nat
                    /\ Policies[policy].maximumDays \in Nat
  BY <1>2, PoliciesAssumption DEF Table
<1>4. EffectiveDays(policy, form.days) \in Nat
  BY <1>1, <1>3, WorkflowAssumption DEF EffectiveDays, Form, Days, Unset
<1>5. row \in Columns
  BY <1>1, <1>2, <1>3, <1>4 DEF Columns, Form
<1>6. PICK r \in References : /\ state' = [state EXCEPT ![r] = "pending"]
                              /\ request' = [request EXCEPT ![r] = row]
  BY DEF Submit
<1>7. worker' = [worker EXCEPT ![w] = Idle] /\ Idle \in Session
  BY DEF Submit, Done, Session
<1>. QED  BY <1>5, <1>6, <1>7 DEF TypeOK, Submit, Idle, States

LEMMA TypeFetchToDecide ==
  ASSUME TypeOK, NEW w \in Workers, FetchToDecide(w)
  PROVE  TypeOK'
<1>1. PICK r \in References, p \in Voters, d \in Decisions :
        /\ state[r] # "none"
        /\ worker' = [worker EXCEPT ![w] =
             [pc |-> "decide", reference |-> r, seen |-> state[r],
              approver |-> p, decision |-> d, previous |-> 0]]
  BY DEF FetchToDecide
<1>2. [pc |-> "decide", reference |-> r, seen |-> state[r],
       approver |-> p, decision |-> d, previous |-> 0] \in Session
  BY WorkflowAssumption DEF Session, DecideSession, TypeOK
<1>. QED  BY <1>1, <1>2 DEF TypeOK, FetchToDecide

LEMMA TypeCheckDecision ==
  ASSUME TypeOK, NEW w \in Workers, CheckDecision(w)
  PROVE  TypeOK'
<1>1. [worker[w] EXCEPT !.pc = "checked"] \in Session
  <2>1. worker[w] \in DecideSession
    BY SessionKind DEF TypeOK, CheckDecision
  <2>. QED  BY <2>1 DEF DecideSession, Session
<1>. QED  BY <1>1 DEF TypeOK, CheckDecision

LEMMA TypeReadPrevious ==
  ASSUME TypeOK, NEW w \in Workers, ReadPrevious(w)
  PROVE  TypeOK'
<1> DEFINE r == worker[w].reference
<1>1. worker[w] \in DecideSession /\ r \in References
  BY SessionKind DEF TypeOK, ReadPrevious, DecideSession
<1>2. LastSequence(r) \in Nat
  <2>1. steps[r] \in Seq(Step)
    BY <1>1 DEF TypeOK
  <2>2. CASE steps[r] # <<>>
    <3>1. steps[r][Len(steps[r])] \in Step
      BY <2>1, <2>2
    <3>. QED  BY <2>2, <3>1 DEF LastSequence, Step
  <2>. QED  BY <2>2 DEF LastSequence
<1>3. [worker[w] EXCEPT !.pc = "read", !.previous = LastSequence(r)] \in DecideSession
  BY <1>1, <1>2 DEF DecideSession
<1>4. worker' = [worker EXCEPT ![w] =
                   [worker[w] EXCEPT !.pc = "read", !.previous = LastSequence(r)]]
  BY <1>1 DEF ReadPrevious, TypeOK
<1>5. state[r] # "none"
  BY <1>1 DEF ReadPrevious, TypeOK
<1>6. worker'[w].reference = r
  BY <1>1, <1>4 DEF DecideSession, TypeOK
<1>. QED  BY <1>1, <1>3, <1>4, <1>5, <1>6 DEF TypeOK, ReadPrevious, Session

LEMMA TypeRecordDecision ==
  ASSUME TypeOK, NEW w \in Workers, RecordDecision(w)
  PROVE  TypeOK'
<1> DEFINE r == worker[w].reference
           d == worker[w].decision
           count == Cardinality(Approvals(r)) + (IF d = "approved" THEN 1 ELSE 0)
           step == [sequence |-> worker[w].previous + 1, approver |-> worker[w].approver,
                    decision |-> d, previous |-> worker[w].previous]
<1>1. /\ r \in References /\ d \in Decisions /\ state[r] # "none"
      /\ worker[w].approver \in People /\ worker[w].previous \in Nat
  <2>1. worker[w] \in DecideSession
    BY SessionKind DEF TypeOK, RecordDecision
  <2>. QED  BY <2>1 DEF TypeOK, RecordDecision, DecideSession
<1>2. step \in Step
  BY <1>1 DEF Step
<1>3. steps' \in [References -> Seq(Step)]
  BY <1>1, <1>2 DEF TypeOK, RecordDecision
<1>4. DecidedState(r, d, count) \in States \ {"none"}
  BY <1>1 DEF DecidedState, TypeOK, States, Decisions
<1>5. /\ state' \in [References -> States]
      /\ \A q \in References : state'[q] = "none" <=> state[q] = "none"
  BY <1>1, <1>4 DEF TypeOK, RecordDecision
<1>6. dates' \in [References -> Dates]
  <2>1. PICK at : dates' = [dates EXCEPT ![r].decidedAt = at] /\ at \in {now, dates[r].decidedAt}
    BY DEF RecordDecision
  <2>2. dates[r] \in Dates /\ at \in Days
    BY <1>1, <2>1 DEF TypeOK, Dates, Days
  <2>3. [dates[r] EXCEPT !.decidedAt = at] \in Dates
    BY <2>2 DEF Dates
  <2>. QED  BY <1>1, <2>1, <2>3 DEF TypeOK
<1>7. worker' = [worker EXCEPT ![w] = Idle] /\ Idle \in Session
  BY DEF RecordDecision, Done, Session
<1>8. \A v \in Workers : worker'[v].pc \notin {"idle", "submit"} =>
        worker'[v] = worker[v] /\ worker[v].reference \in References
  BY <1>7, SessionReference DEF TypeOK, Idle
<1>. QED  BY <1>3, <1>5, <1>6, <1>7, <1>8 DEF TypeOK, RecordDecision

LEMMA TypeFetchToHandOff ==
  ASSUME TypeOK, NEW w \in Workers, FetchToHandOff(w)
  PROVE  TypeOK'
<1>1. PICK r \in References :
        /\ state[r] # "none"
        /\ worker' = [worker EXCEPT ![w] =
                        [pc |-> "handoff", reference |-> r, seen |-> state[r]]]
  BY DEF FetchToHandOff
<1>2. [pc |-> "handoff", reference |-> r, seen |-> state[r]] \in Session
  BY DEF Session, HandOffSession, TypeOK
<1>. QED  BY <1>1, <1>2 DEF TypeOK, FetchToHandOff

LEMMA TypeHandOff ==
  ASSUME TypeOK, NEW w \in Workers, HandOff(w)
  PROVE  TypeOK'
<1> DEFINE r == worker[w].reference
<1>1. r \in References /\ state[r] # "none" /\ request[r] \in Columns
  <2>1. worker[w] \in Session /\ worker[w].pc = "handoff"
    BY DEF TypeOK, HandOff
  <2>2. r \in References
    BY <2>1, SessionReference
  <2>. QED  BY <2>1, <2>2 DEF TypeOK
<1>2. request[r].days \in Nat
  BY <1>1 DEF Columns
<1>3. dates' \in [References -> Dates]
  <2> DEFINE until == IF request[r].days > 0 THEN now + request[r].days ELSE dates[r].expiresAt
  <2>1. dates' = [dates EXCEPT ![r] = [@ EXCEPT !.provisionedAt = now, !.expiresAt = until]]
    BY <1>1 DEF HandOff, TypeOK, Dates
  <2>2. dates[r] \in Dates /\ now \in Days /\ until \in Days
    BY <1>1, <1>2 DEF TypeOK, Dates, Days
  <2>3. [dates[r] EXCEPT !.provisionedAt = now, !.expiresAt = until] \in Dates
    BY <2>2 DEF Dates
  <2>. QED  BY <1>1, <2>1, <2>3 DEF TypeOK
<1>4. worker' = [worker EXCEPT ![w] = Idle] /\ Idle \in Session
  BY DEF HandOff, Done, Session
<1>5. state' = [state EXCEPT ![r] = "provisioned"]
  BY DEF HandOff
<1>. QED  BY <1>1, <1>3, <1>4, <1>5 DEF TypeOK, HandOff, Idle, States

LEMMA TypeRevoke ==
  ASSUME TypeOK, NEW w \in Workers, Revoke(w)
  PROVE  TypeOK'
<1>1. PICK r \in References :
        /\ state[r] # "none"
        /\ state' = [state EXCEPT ![r] = "revoked"]
        /\ grant' = [k \in Key |-> IF grant[k].request = r /\ grant[k].revokedAt = Unset
                                   THEN [grant[k] EXCEPT !.revokedAt = now] ELSE grant[k]]
  BY DEF Revoke
<1>2. grant' \in [Key -> Grant]
  <2>1. ASSUME NEW k \in Key
        PROVE  [grant[k] EXCEPT !.revokedAt = now] \in Grant /\ grant[k] \in Grant
    BY DEF TypeOK, Grant, Days
  <2>. QED  BY <1>1, <2>1
<1>. QED  BY <1>1, <1>2 DEF TypeOK, Revoke, States

LEMMA TypeExpireDue ==
  ASSUME TypeOK, ExpireDue
  PROVE  TypeOK'
<1>1. /\ state' \in [References -> States]
      /\ \A r \in References : state'[r] = "none" <=> state[r] = "none"
  BY DEF TypeOK, ExpireDue, Due, States
<1>2. \A v \in Workers : worker[v].pc \notin {"idle", "submit"} => worker[v].reference \in References
  BY SessionReference DEF TypeOK
<1>. QED  BY <1>1, <1>2 DEF TypeOK, ExpireDue

LEMMA TypeNext == TypeOK /\ [Next]_vars => TypeOK'
<1> SUFFICES ASSUME TypeOK, [Next]_vars PROVE TypeOK'
  OBVIOUS
<1>1. CASE \E w \in Workers : WorkerStep(w)
  <2>1. PICK w \in Workers : WorkerStep(w)
    BY <1>1
  <2>2. CASE RollBack(w)
    BY <2>2 DEF TypeOK, RollBack, Done, Idle, Session
  <2>. QED
    BY <2>1, <2>2, TypeCheckForm, TypeSubmit, TypeFetchToDecide, TypeCheckDecision,
       TypeReadPrevious, TypeRecordDecision, TypeFetchToHandOff, TypeHandOff, TypeRevoke
       DEF WorkerStep
<1>2. CASE ExpireDue
  BY <1>2, TypeExpireDue
<1>3. CASE Tick
  BY <1>3 DEF TypeOK, Tick
<1>4. CASE UNCHANGED vars
  BY <1>4 DEF TypeOK, vars
<1>. QED  BY <1>1, <1>2, <1>3, <1>4 DEF Next

(***************************************************************************)
(* Every row always holds values its columns admit, and a worker only ever *)
(* works on a request that exists.                                         *)
(***************************************************************************)
THEOREM TypeCorrect == Spec => []TypeOK
BY TypeInit, TypeNext, PTL DEF Spec

------------------------------------------------------------------------------
\* A submitted request keeps its columns and its reference stays in use.
LEMMA RequestKept ==
  ASSUME TypeOK, [Next]_vars, NEW r \in References, state[r] # "none"
  PROVE  request'[r] = request[r] /\ state'[r] # "none"
<1>1. CASE \E w \in Workers : Submit(w)
  BY <1>1 DEF Submit, TypeOK
<1>2. CASE \E w \in Workers : RecordDecision(w)
  BY <1>2 DEF RecordDecision, DecidedState, TypeOK
<1>3. CASE \E w \in Workers : HandOff(w)
  BY <1>3 DEF HandOff, TypeOK
<1>4. CASE \E w \in Workers : Revoke(w)
  BY <1>4 DEF Revoke, TypeOK
<1>5. CASE ExpireDue
  BY <1>5 DEF ExpireDue, TypeOK
<1>6. CASE UNCHANGED <<state, request>>
  BY <1>6
<1>. QED
  BY <1>1, <1>2, <1>3, <1>4, <1>5, <1>6
     DEF Next, WorkerStep, CheckForm, FetchToDecide, CheckDecision, ReadPrevious,
         FetchToHandOff, RollBack, Tick, vars

\* Only decide touches the approval steps.
LEMMA StepsKept ==
  ASSUME [Next]_vars, ~ \E w \in Workers : RecordDecision(w)
  PROVE  steps' = steps
BY DEF Next, WorkerStep, CheckForm, Submit, FetchToDecide, CheckDecision, ReadPrevious,
       FetchToHandOff, HandOff, Revoke, RollBack, ExpireDue, Tick, vars

\* How one step can change what a worker has in hand.
LEMMA SessionStep ==
  ASSUME TypeOK, [Next]_vars, NEW v \in Workers
  PROVE  \/ worker'[v] = worker[v]
         \/ worker'[v].pc \in {"idle", "submit"}
         \/ FetchToDecide(v) /\ worker'[v].pc = "decide"
         \/ /\ CheckDecision(v)
            /\ worker' = [worker EXCEPT ![v] = [worker[v] EXCEPT !.pc = "checked"]]
         \/ /\ ReadPrevious(v)
            /\ worker' = [worker EXCEPT ![v] =
                 [worker[v] EXCEPT !.pc = "read",
                                   !.previous = LastSequence(worker[v].reference)]]
         \/ FetchToHandOff(v) /\ worker'[v].pc = "handoff"
<1>1. CASE \E w \in Workers : WorkerStep(w)
  <2>1. PICK w \in Workers : WorkerStep(w)
    BY <1>1
  <2>2. CASE w # v
    BY <2>1, <2>2
       DEF TypeOK, WorkerStep, CheckForm, Submit, FetchToDecide, CheckDecision, ReadPrevious,
           RecordDecision, FetchToHandOff, HandOff, Revoke, RollBack, Done
  <2>3. CASE w = v /\ ReadPrevious(w)
    BY <2>3 DEF ReadPrevious, TypeOK
  <2>4. CASE w = v /\ CheckDecision(w)
    BY <2>4 DEF CheckDecision, TypeOK
  <2>5. CASE w = v /\ FetchToDecide(w)
    <3>1. worker'[v].pc = "decide"
      BY <2>5 DEF FetchToDecide, TypeOK
    <3>. QED  BY <2>5, <3>1
  <2>6. CASE w = v /\ FetchToHandOff(w)
    <3>1. worker'[v].pc = "handoff"
      BY <2>6 DEF FetchToHandOff, TypeOK
    <3>. QED  BY <2>6, <3>1
  <2>7. CASE w = v /\ CheckForm(w)
    BY <2>7 DEF CheckForm, TypeOK
  <2>8. CASE w = v /\ (Submit(w) \/ RecordDecision(w) \/ HandOff(w) \/ RollBack(w))
    BY <2>8 DEF Submit, RecordDecision, HandOff, RollBack, Done, Idle, TypeOK
  <2>9. CASE w = v /\ Revoke(w)
    BY <2>9 DEF Revoke
  <2>. QED  BY <2>1, <2>2, <2>3, <2>4, <2>5, <2>6, <2>7, <2>8, <2>9 DEF WorkerStep
<1>2. CASE ExpireDue \/ Tick \/ UNCHANGED vars
  BY <1>2 DEF ExpireDue, Tick, vars
<1>. QED  BY <1>1, <1>2 DEF Next

\* The shape of the row decide inserts.
LEMMA NewStep ==
  ASSUME TypeOK, NEW w \in Workers, RecordDecision(w), NEW r, r = worker[w].reference
  PROVE  /\ worker[w] \in DecideSession /\ r \in References
         /\ state[r] # "none" /\ request[r] \in Columns
         /\ steps' = [steps EXCEPT ![r] = Append(steps[r],
              [sequence |-> worker[w].previous + 1, approver |-> worker[w].approver,
               decision |-> worker[w].decision, previous |-> worker[w].previous])]
         /\ Len(steps'[r]) = Len(steps[r]) + 1
         /\ \A i \in 1..Len(steps[r]) : steps'[r][i] = steps[r][i]
         /\ steps'[r][Len(steps[r]) + 1] =
              [sequence |-> worker[w].previous + 1, approver |-> worker[w].approver,
               decision |-> worker[w].decision, previous |-> worker[w].previous]
         /\ \A q \in References \ {r} : steps'[q] = steps[q]
<1> DEFINE step == [sequence |-> worker[w].previous + 1, approver |-> worker[w].approver,
                    decision |-> worker[w].decision, previous |-> worker[w].previous]
<1>1. worker[w] \in DecideSession
  BY SessionKind DEF TypeOK, RecordDecision
<1>2. r \in References /\ state[r] # "none" /\ request[r] \in Columns
  BY <1>1 DEF DecideSession, TypeOK, RecordDecision
<1>3. steps' = [steps EXCEPT ![r] = Append(steps[r], step)]
  BY <1>2 DEF RecordDecision, TypeOK
<1>4. steps[r] \in Seq(Step) /\ step \in Step
  <2>1. steps[r] \in Seq(Step)
    BY <1>2 DEF TypeOK
  <2>2. step \in Step
    BY <1>1 DEF DecideSession, Step
  <2>. QED  BY <2>1, <2>2
<1>5. steps'[r] = Append(steps[r], step)
  BY <1>2, <1>3 DEF TypeOK
<1>6. /\ Len(steps'[r]) = Len(steps[r]) + 1
      /\ \A i \in 1..Len(steps[r]) : steps'[r][i] = steps[r][i]
      /\ steps'[r][Len(steps[r]) + 1] = step
  BY <1>4, <1>5
<1>7. \A q \in References \ {r} : steps'[q] = steps[q]
  BY <1>3 DEF TypeOK
<1>. QED  BY <1>1, <1>2, <1>3, <1>6, <1>7
------------------------------------------------------------------------------
\* The chain stays numbered: the insert succeeds only right after the last step.
LEMMA NumberedNext ==
  ASSUME TypeOK, Numbered, [Next]_vars
  PROVE  Numbered'
<1>1. ASSUME NEW w \in Workers, RecordDecision(w)
      PROVE  Numbered'
  <2> DEFINE r == worker[w].reference
             before == worker[w].previous
             step == [sequence |-> before + 1, approver |-> worker[w].approver,
                      decision |-> worker[w].decision, previous |-> before]
  <2>0. /\ worker[w] \in DecideSession /\ r \in References
        /\ Len(steps'[r]) = Len(steps[r]) + 1
        /\ \A i \in 1..Len(steps[r]) : steps'[r][i] = steps[r][i]
        /\ steps'[r][Len(steps[r]) + 1] = step
        /\ \A q \in References \ {r} : steps'[q] = steps[q]
    BY <1>1, NewStep
  <2> HIDE DEF r, before, step
  <2>1. Len(steps[r]) \in Nat
    BY <2>0 DEF TypeOK
  <2>2. before \in Nat /\ before <= Len(steps[r])
    BY <2>0, <1>1 DEF Numbered, RecordDecision, DecideSession, r, before
  <2>3. ~SequenceInUse(r, before + 1)
    BY <1>1 DEF RecordDecision, r, before
  <2>4. before = Len(steps[r])
    <3> SUFFICES ASSUME before < Len(steps[r]) PROVE FALSE
      BY <2>1, <2>2
    <3>1. before + 1 \in 1..Len(steps[r])
      BY <2>1, <2>2
    <3>2. steps[r][before + 1].sequence = before + 1
      BY <2>0, <3>1 DEF Numbered
    <3>. QED  BY <2>3, <3>1, <3>2 DEF SequenceInUse
  <2>5. ASSUME NEW q \in References, NEW i \in 1..Len(steps'[q])
        PROVE  steps'[q][i].sequence = i /\ steps'[q][i].previous = i - 1
    <3>1. CASE q # r
      BY <3>1, <2>0, <2>5 DEF Numbered
    <3>2. CASE q = r /\ i \in 1..Len(steps[r])
      BY <3>2, <2>0, <2>5 DEF Numbered
    <3>3. CASE q = r /\ i = Len(steps[r]) + 1
      <4>1. steps'[q][i] = step
        BY <3>3, <2>0
      <4>2. step.sequence = before + 1 /\ step.previous = before
        BY DEF step
      <4>. QED  BY <3>3, <4>1, <4>2, <2>1, <2>4
    <3>4. q = r => i \in 1..Len(steps[r]) + 1
      BY <2>0
    <3>. QED  BY <3>1, <3>2, <3>3, <3>4, <2>1
  <2>6. ASSUME NEW v \in Workers, worker'[v].pc = "read"
        PROVE  worker'[v].previous <= Len(steps'[worker'[v].reference])
    <3> DEFINE q == worker[v].reference
    <3>1. worker'[v] = worker[v]
      BY <1>1, <2>6 DEF RecordDecision, Done, Idle, TypeOK
    <3>2. q \in References /\ worker[v].previous \in Nat
      BY <2>6, <3>1, SessionKind DEF TypeOK, DecideSession
    <3>3. worker[v].previous <= Len(steps[q])
      BY <2>6, <3>1 DEF Numbered
    <3>4. Len(steps[q]) \in Nat
      BY <3>2 DEF TypeOK
    <3>5. Len(steps'[q]) = Len(steps[q]) \/ Len(steps'[q]) = Len(steps[q]) + 1
      BY <3>2, <2>0
    <3>. QED  BY <3>1, <3>2, <3>3, <3>4, <3>5
  <2>. QED  BY <2>5, <2>6 DEF Numbered
<1>2. ASSUME ~ \E w \in Workers : RecordDecision(w)
      PROVE  Numbered'
  <2>1. steps' = steps
    BY <1>2, StepsKept
  <2>2. ASSUME NEW v \in Workers, worker'[v].pc = "read"
        PROVE  worker'[v].previous <= Len(steps[worker'[v].reference])
    <3>1. CASE worker'[v] = worker[v]
      BY <2>2, <3>1 DEF Numbered
    <3>2. CASE /\ ReadPrevious(v)
               /\ worker' = [worker EXCEPT ![v] =
                    [worker[v] EXCEPT !.pc = "read",
                                      !.previous = LastSequence(worker[v].reference)]]
      <4> DEFINE r == worker[v].reference
      <4>1. worker[v] \in DecideSession /\ r \in References
        BY <3>2, SessionKind DEF TypeOK, ReadPrevious, DecideSession
      <4>2. worker'[v].previous = LastSequence(r) /\ worker'[v].reference = r
        BY <3>2, <4>1 DEF TypeOK, DecideSession
      <4>3. steps[r] \in Seq(Step)
        BY <4>1 DEF TypeOK
      <4>4. LastSequence(r) = Len(steps[r])
        BY <4>1, <4>3 DEF LastSequence, Numbered
      <4>. QED  BY <4>2, <4>3, <4>4
    <3>3. CASE /\ CheckDecision(v)
               /\ worker' = [worker EXCEPT ![v] = [worker[v] EXCEPT !.pc = "checked"]]
      <4>1. worker[v] \in DecideSession
        BY <3>3, SessionKind DEF TypeOK, CheckDecision
      <4>. QED  BY <3>3, <4>1, <2>2 DEF TypeOK, DecideSession
    <3>. QED  BY <3>1, <3>2, <3>3, <2>2, SessionStep
  <2>. QED  BY <2>1, <2>2 DEF Numbered
<1>. QED  BY <1>1, <1>2

(***************************************************************************)
(* Racing decisions never fork or break the hash chain: verify_chain       *)
(* succeeds on every request, whatever the isolation of the database.      *)
(***************************************************************************)
THEOREM ChainStaysUnbroken == Spec => []ChainUnbroken
<1>1. Init => Numbered
  BY DEF Init, Numbered, Idle
<1>2. TypeOK /\ Numbered /\ [Next]_vars => Numbered'
  BY NumberedNext
<1>3. TypeOK /\ Numbered => ChainUnbroken
  <2> SUFFICES ASSUME TypeOK, Numbered, NEW r \in References, NEW i \in 1..Len(steps[r])
               PROVE  steps[r][i].previous = IF i = 1 THEN 0 ELSE steps[r][i - 1].sequence
    BY DEF ChainUnbroken
  <2>1. Len(steps[r]) \in Nat
    BY DEF TypeOK
  <2>2. i # 1 => i - 1 \in 1..Len(steps[r])
    BY <2>1
  <2>. QED  BY <2>2 DEF Numbered
<1>. QED  BY <1>1, <1>2, <1>3, TypeCorrect, PTL DEF Spec
------------------------------------------------------------------------------
\* The steps of a request stay, or gain the one a worker records.
LEMMA StepsGrow ==
  ASSUME TypeOK, [Next]_vars, NEW r \in References
  PROVE  \/ steps'[r] = steps[r]
         \/ \E w \in Workers : RecordDecision(w) /\ r = worker[w].reference
<1>1. CASE \E w \in Workers : RecordDecision(w)
  <2>1. PICK w \in Workers : RecordDecision(w)
    BY <1>1
  <2>2. r # worker[w].reference => steps'[r] = steps[r]
    BY <2>1 DEF RecordDecision, TypeOK
  <2>. QED  BY <2>1, <2>2
<1>2. CASE ~ \E w \in Workers : RecordDecision(w)
  BY <1>2, StepsKept
<1>. QED  BY <1>1, <1>2

\* Who has decided: the same people, or one more.
LEMMA DecidersGrow ==
  ASSUME TypeOK, NEW w \in Workers, RecordDecision(w), NEW r, r = worker[w].reference
  PROVE  Deciders(r)' = Deciders(r) \cup {worker[w].approver}
<1> DEFINE n == Len(steps[r])
<1>0. /\ r \in References /\ Len(steps'[r]) = n + 1
      /\ \A i \in 1..n : steps'[r][i] = steps[r][i]
      /\ steps'[r][n + 1] =
              [sequence |-> worker[w].previous + 1, approver |-> worker[w].approver,
               decision |-> worker[w].decision, previous |-> worker[w].previous]
  BY NewStep
<1>1. /\ r \in References /\ Len(steps'[r]) = n + 1
      /\ \A i \in 1..n : steps'[r][i] = steps[r][i]
      /\ steps'[r][n + 1].approver = worker[w].approver
  BY <1>0
<1>2. n \in Nat
  BY <1>1 DEF TypeOK
<1>3. 1..Len(steps'[r]) = (1..n) \cup {n + 1}
  BY <1>1, <1>2
<1>4. {steps'[r][i].approver : i \in 1..Len(steps'[r])}
        = {steps[r][i].approver : i \in 1..n} \cup {worker[w].approver}
  <2>. HIDE DEF n
  <2>1. \A i \in 1..Len(steps'[r]) :
          steps'[r][i].approver \in {steps[r][j].approver : j \in 1..n} \cup {worker[w].approver}
    BY <1>1, <1>3
  <2>2. n + 1 \in 1..Len(steps'[r]) /\ 1..n \subseteq 1..Len(steps'[r])
    BY <1>3
  <2>3. \A i \in 1..n : steps[r][i].approver \in {steps'[r][j].approver : j \in 1..Len(steps'[r])}
    BY <1>1, <2>2
  <2>4. worker[w].approver \in {steps'[r][j].approver : j \in 1..Len(steps'[r])}
    BY <1>1, <2>2
  <2>. DEFINE After  == {steps'[r][j].approver : j \in 1..Len(steps'[r])}
              Before == {steps[r][j].approver : j \in 1..n}
  <2>5. After \subseteq Before \cup {worker[w].approver}
    BY <2>1
  <2>6. Before \subseteq After /\ worker[w].approver \in After
    BY <2>3, <2>4
  <2>7. After = Before \cup {worker[w].approver}
    <3>. HIDE DEF After, Before
    <3>. QED  BY <2>5, <2>6
  <2>. QED  BY <2>7
<1>. QED  BY <1>4 DEF Deciders
------------------------------------------------------------------------------
\* Who may not decide on a submitted request does not change.
LEMMA BarredKept ==
  ASSUME TypeOK, [Next]_vars, NEW r \in References, state[r] # "none"
  PROVE  Barred(r)' = Barred(r)
BY RequestKept DEF Barred

\* The references drawn by nobody have no steps, before and after.
LEMMA FreshNext ==
  ASSUME TypeOK, Vetted, [Next]_vars, NEW r \in References, state[r] = "none"
  PROVE  steps'[r] = <<>>
<1>1. ASSUME NEW w \in Workers, RecordDecision(w), r = worker[w].reference
      PROVE  FALSE
  BY <1>1 DEF RecordDecision, TypeOK
<1>2. steps[r] = <<>>
  BY DEF Vetted
<1>. QED  BY <1>1, <1>2, StepsGrow

\* A worker that is deciding stays clear of the people barred from its request.
LEMMA VettedSessions ==
  ASSUME TypeOK, Vetted, [Next]_vars, NEW v \in Workers, InTransaction(v)'
  PROVE  (worker[v].approver \notin Barred(worker[v].reference))'
<1>0. worker'[v].pc \in {"checked", "read"}
  BY DEF InTransaction
<1> DEFINE r == worker[v].reference
<1>1. ASSUME worker[v].pc \in {"decide", "checked", "read"}
      PROVE  worker[v] \in DecideSession /\ r \in References /\ state[r] # "none"
  <2>1. worker[v] \in DecideSession
    BY <1>1, SessionKind DEF TypeOK
  <2>2. state[r] # "none"
    BY <1>1 DEF TypeOK
  <2>. QED  BY <2>1, <2>2 DEF DecideSession
<1>2. CASE worker'[v] = worker[v]
  <2>1. worker[v].approver \notin Barred(r)
    BY <1>0, <1>2 DEF Vetted, InTransaction
  <2>2. request'[r] = request[r]
    BY <1>0, <1>1, <1>2, RequestKept
  <2>. QED  BY <1>2, <2>1, <2>2 DEF Barred
<1>3. CASE /\ CheckDecision(v)
           /\ worker' = [worker EXCEPT ![v] = [worker[v] EXCEPT !.pc = "checked"]]
  <2>1. worker[v] \in DecideSession /\ r \in References /\ state[r] # "none"
    BY <1>1, <1>3 DEF CheckDecision
  <2>2. worker'[v].approver = worker[v].approver /\ worker'[v].reference = r
    BY <1>3, <2>1 DEF TypeOK, DecideSession
  <2>3. worker[v].approver \notin Barred(r)
    BY <1>3 DEF CheckDecision, Segregated, Barred
  <2>4. request'[r] = request[r]
    BY <2>1, RequestKept
  <2>. QED  BY <2>2, <2>3, <2>4 DEF Barred
<1>4. CASE /\ ReadPrevious(v)
           /\ worker' = [worker EXCEPT ![v] =
                [worker[v] EXCEPT !.pc = "read",
                                  !.previous = LastSequence(worker[v].reference)]]
  <2>1. worker[v] \in DecideSession /\ r \in References /\ state[r] # "none"
    BY <1>1, <1>4 DEF ReadPrevious
  <2>2. worker'[v].approver = worker[v].approver /\ worker'[v].reference = r
    BY <1>4, <2>1 DEF TypeOK, DecideSession
  <2>3. worker[v].approver \notin Barred(r)
    BY <1>4 DEF ReadPrevious, Vetted, InTransaction
  <2>4. request'[r] = request[r]
    BY <2>1, RequestKept
  <2>. QED  BY <2>2, <2>3, <2>4 DEF Barred
<1>. QED  BY <1>0, <1>2, <1>3, <1>4, SessionStep

\* check_segregation protects the record, whatever happens after it ran.
LEMMA VettedNext ==
  ASSUME TypeOK, Vetted, [Next]_vars
  PROVE  Vetted'
<1>1. ASSUME NEW r \in References, state'[r] # "none"
      PROVE  Deciders(r)' \cap Barred(r)' = {}
  <2>1. CASE state[r] = "none"
    <3>1. steps'[r] = <<>>
      BY <2>1, FreshNext
    <3>2. Deciders(r)' = {}
      BY <3>1 DEF Deciders
    <3>. QED  BY <3>2
  <2>2. CASE state[r] # "none"
    <3>1. Barred(r)' = Barred(r)
      BY <2>2, BarredKept
    <3>2. Deciders(r) \cap Barred(r) = {}
      BY <2>2 DEF Vetted, NobodyDecidesForThemselves
    <3>3. CASE steps'[r] = steps[r]
      <4>1. Deciders(r)' = Deciders(r)
        BY <3>3 DEF Deciders
      <4>. QED  BY <3>1, <3>2, <4>1
    <3>4. CASE \E w \in Workers : RecordDecision(w) /\ r = worker[w].reference
      <4>1. PICK w \in Workers : RecordDecision(w) /\ r = worker[w].reference
        BY <3>4
      <4>2. Deciders(r)' = Deciders(r) \cup {worker[w].approver}
        BY <4>1, DecidersGrow
      <4>3. worker[w].approver \notin Barred(r)
        BY <4>1 DEF RecordDecision, Vetted, InTransaction
      <4>. QED  BY <3>1, <3>2, <4>2, <4>3
    <3>. QED  BY <3>3, <3>4, StepsGrow
  <2>. QED  BY <2>1, <2>2
<1>2. ASSUME NEW r \in References, state'[r] = "none"
      PROVE  steps'[r] = <<>>
  BY <1>2, RequestKept, FreshNext
<1>3. ASSUME NEW v \in Workers, InTransaction(v)'
      PROVE  (worker[v].approver \notin Barred(worker[v].reference))'
  BY <1>3, VettedSessions
<1>. QED  BY <1>1, <1>2, <1>3 DEF Vetted, NobodyDecidesForThemselves

LEMMA VettedInit == Init => Vetted
BY DEF Init, Vetted, NobodyDecidesForThemselves, InTransaction, Idle

(***************************************************************************)
(* No decision is ever recorded by the requester or the beneficiary,       *)
(* however the check in decide and its write are separated.                *)
(***************************************************************************)
THEOREM NobodyEverDecidesForThemselves == Spec => []NobodyDecidesForThemselves
<1>1. Vetted => NobodyDecidesForThemselves
  BY DEF Vetted
<1>. QED  BY <1>1, VettedInit, VettedNext, TypeCorrect, PTL DEF Spec
------------------------------------------------------------------------------
\* The approving steps of a request are finitely many.
LEMMA ApprovalsFinite ==
  ASSUME TypeOK, NEW r \in References
  PROVE  IsFiniteSet(Approvals(r)) /\ Cardinality(Approvals(r)) \in Nat
<1>1. Len(steps[r]) \in Nat
  BY DEF TypeOK
<1>2. IsFiniteSet(1..Len(steps[r]))
  BY <1>1, FS_Interval
<1>3. Approvals(r) \in SUBSET (1..Len(steps[r]))
  BY DEF Approvals
<1>. QED  BY <1>2, <1>3, FS_Subset, FS_CardinalityType

\* The count decide compares with the policy is the number of approving steps it leaves.
LEMMA ApprovalsCounted ==
  ASSUME TypeOK, NEW w \in Workers, RecordDecision(w), NEW r, r = worker[w].reference
  PROVE  Cardinality(Approvals(r)') =
           Cardinality(Approvals(r)) + (IF worker[w].decision = "approved" THEN 1 ELSE 0)
<1> DEFINE n == Len(steps[r])
<1>0. /\ r \in References /\ Len(steps'[r]) = n + 1
      /\ \A i \in 1..n : steps'[r][i] = steps[r][i]
      /\ steps'[r][n + 1] =
              [sequence |-> worker[w].previous + 1, approver |-> worker[w].approver,
               decision |-> worker[w].decision, previous |-> worker[w].previous]
  BY NewStep
<1>1. steps'[r][n + 1].decision = worker[w].decision
  BY <1>0
<1>2. n \in Nat
  BY <1>0 DEF TypeOK
<1>3. /\ Approvals(r)' = {i \in 1..(n + 1) : steps'[r][i].decision = "approved"}
      /\ Approvals(r) = {i \in 1..n : steps[r][i].decision = "approved"}
  BY <1>0 DEF Approvals
<1>4. IsFiniteSet(Approvals(r)) /\ Cardinality(Approvals(r)) \in Nat
  BY <1>0, ApprovalsFinite
<1> DEFINE Old == {i \in 1..n : steps[r][i].decision = "approved"}
           New == {i \in 1..(n + 1) : steps'[r][i].decision = "approved"}
<1>a. ASSUME NEW i \in 1..n
      PROVE  i \in New <=> i \in Old
  BY <1>0, <1>2
<1>b. n + 1 \in New <=> worker[w].decision = "approved"
  BY <1>1, <1>2
<1>c. New \subseteq (1..n) \cup {n + 1} /\ Old \subseteq 1..n
  BY <1>2
<1>5. n + 1 \notin Approvals(r)
  BY <1>2, <1>3
<1>6. CASE worker[w].decision = "approved"
  <2>1. Approvals(r)' = Approvals(r) \cup {n + 1}
    <3>1. New = Old \cup {n + 1}
      <4> HIDE DEF New, Old
      <4>. QED  BY <1>a, <1>b, <1>c, <1>6
    <3>. QED  BY <3>1, <1>3
  <2>. QED  BY <2>1, <1>4, <1>5, <1>6, FS_AddElement
<1>7. CASE worker[w].decision # "approved"
  <2>1. Approvals(r)' = Approvals(r)
    <3>1. New = Old
      <4> HIDE DEF New, Old
      <4>. QED  BY <1>a, <1>b, <1>c, <1>7
    <3>. QED  BY <3>1, <1>3
  <2>. QED  BY <2>1, <1>4, <1>7
<1>. QED  BY <1>6, <1>7

\* No step of the system takes an approval back.
LEMMA ApprovalsGrow ==
  ASSUME TypeOK, [Next]_vars, NEW r \in References
  PROVE  /\ Cardinality(Approvals(r)) \in Nat /\ Cardinality(Approvals(r)') \in Nat
         /\ Cardinality(Approvals(r)') >= Cardinality(Approvals(r))
<1>1. Cardinality(Approvals(r)) \in Nat
  BY ApprovalsFinite
<1>2. CASE steps'[r] = steps[r]
  <2>1. Approvals(r)' = Approvals(r)
    BY <1>2 DEF Approvals
  <2>. QED  BY <2>1, <1>1
<1>3. CASE \E w \in Workers : RecordDecision(w) /\ r = worker[w].reference
  <2>1. PICK w \in Workers : RecordDecision(w) /\ r = worker[w].reference
    BY <1>3
  <2>2. Cardinality(Approvals(r)') =
           Cardinality(Approvals(r)) + (IF worker[w].decision = "approved" THEN 1 ELSE 0)
    BY <2>1, ApprovalsCounted
  <2>. QED  BY <2>2, <1>1
<1>. QED  BY <1>2, <1>3, StepsGrow

\* How one step can bring a request into a state that rests on approvals.
LEMMA GrantedStep ==
  ASSUME TypeOK, [Next]_vars, NEW r \in References, state'[r] \in Granted
  PROVE  \/ state[r] \in Granted
         \/ \E w \in Workers :
              /\ RecordDecision(w) /\ r = worker[w].reference
              /\ Cardinality(Approvals(r)) + (IF worker[w].decision = "approved" THEN 1 ELSE 0)
                   >= request[r].approvalsRequired
         \/ \E w \in Workers :
              HandOff(w) /\ r = worker[w].reference /\ worker[w].seen = "approved"
<1>1. CASE \E w \in Workers : Submit(w)
  BY <1>1 DEF Submit, TypeOK, Granted
<1>2. CASE \E w \in Workers : RecordDecision(w)
  <2>1. PICK w \in Workers : RecordDecision(w)
    BY <1>2
  <2> DEFINE q == worker[w].reference
             count == Cardinality(Approvals(q))
                        + (IF worker[w].decision = "approved" THEN 1 ELSE 0)
  <2>2. state' = [state EXCEPT ![q] = DecidedState(q, worker[w].decision, count)]
    BY <2>1 DEF RecordDecision
  <2>3. CASE r # q
    BY <2>2, <2>3 DEF TypeOK
  <2>4. CASE r = q
    <3>1. state'[r] = DecidedState(q, worker[w].decision, count)
      BY <2>2, <2>4 DEF TypeOK
    <3>2. state'[r] = state[r] \/ count >= request[q].approvalsRequired
      BY <3>1, <2>4 DEF DecidedState, Granted
    <3>. QED  BY <2>1, <2>4, <3>2
  <2>. QED  BY <2>3, <2>4
<1>3. CASE \E w \in Workers : HandOff(w)
  <2>1. PICK w \in Workers : HandOff(w)
    BY <1>3
  <2>2. /\ state' = [state EXCEPT ![worker[w].reference] = "provisioned"]
        /\ worker[w].seen = "approved"
    BY <2>1 DEF HandOff, HandOffAllowed
  <2>3. r # worker[w].reference => state'[r] = state[r]
    BY <2>2 DEF TypeOK
  <2>. QED  BY <2>1, <2>2, <2>3
<1>4. CASE \E w \in Workers : Revoke(w)
  BY <1>4 DEF Revoke, TypeOK, Granted
<1>5. CASE ExpireDue
  BY <1>5 DEF ExpireDue, Due, TypeOK, Granted
<1>6. CASE UNCHANGED state
  BY <1>6
<1>. QED
  BY <1>1, <1>2, <1>3, <1>4, <1>5, <1>6
     DEF Next, WorkerStep, CheckForm, FetchToDecide, CheckDecision, ReadPrevious,
         FetchToHandOff, RollBack, Tick, vars

\* A worker that saw the request approved keeps the approvals it saw.
LEMMA BackedSessions ==
  ASSUME TypeOK, Backed, [Next]_vars, NEW v \in Workers,
         worker'[v].pc = "handoff", worker'[v].seen = "approved"
  PROVE  (Cardinality(Approvals(worker[v].reference))
            >= request[worker[v].reference].approvalsRequired)'
<1>1. CASE worker'[v] = worker[v]
  <2> DEFINE r == worker[v].reference
  <2>1. r \in References /\ state[r] # "none"
    BY <1>1, SessionReference DEF TypeOK
  <2>2. Cardinality(Approvals(r)) >= request[r].approvalsRequired
    BY <1>1 DEF Backed
  <2>3. request'[r] = request[r] /\ request[r].approvalsRequired \in Nat
    BY <2>1, RequestKept DEF TypeOK, Columns
  <2>4. Cardinality({i \in 1..Len(steps'[r]) : steps'[r][i].decision = "approved"})
          >= request[r].approvalsRequired
    <3>1. Approvals(r)' = {i \in 1..Len(steps'[r]) : steps'[r][i].decision = "approved"}
      BY <1>1 DEF Approvals
    <3> HIDE DEF r
    <3>2. /\ Cardinality(Approvals(r)) \in Nat
          /\ Cardinality({i \in 1..Len(steps'[r]) : steps'[r][i].decision = "approved"}) \in Nat
          /\ Cardinality({i \in 1..Len(steps'[r]) : steps'[r][i].decision = "approved"})
               >= Cardinality(Approvals(r))
      BY <2>1, ApprovalsGrow DEF Approvals
    <3>. QED  BY <2>2, <2>3, <3>2
  <2>. QED  BY <1>1, <2>3, <2>4 DEF Approvals
<1>2. CASE FetchToHandOff(v) /\ worker'[v].pc = "handoff"
  <2>1. PICK r \in References :
          /\ state[r] # "none"
          /\ worker' = [worker EXCEPT ![v] =
                          [pc |-> "handoff", reference |-> r, seen |-> state[r]]]
    BY <1>2 DEF FetchToHandOff
  <2>2. worker'[v].reference = r /\ state[r] = "approved"
    BY <2>1 DEF TypeOK
  <2>3. Cardinality(Approvals(r)) >= request[r].approvalsRequired
    BY <2>2 DEF Backed, EnoughApprovals, Granted
  <2>4. steps' = steps /\ request' = request
    BY <1>2 DEF FetchToHandOff
  <2>. QED  BY <2>2, <2>3, <2>4 DEF Approvals
<1>3. CASE \/ CheckDecision(v) /\ worker' = [worker EXCEPT ![v] =
                                          [worker[v] EXCEPT !.pc = "checked"]]
           \/ ReadPrevious(v) /\ worker' = [worker EXCEPT ![v] =
                [worker[v] EXCEPT !.pc = "read",
                                  !.previous = LastSequence(worker[v].reference)]]
  <2>1. worker[v] \in DecideSession
    BY <1>3, SessionKind DEF TypeOK, CheckDecision, ReadPrevious
  <2>2. worker'[v].pc \in {"checked", "read"}
    BY <1>3, <2>1 DEF TypeOK, DecideSession
  <2>. QED  BY <2>2
<1>. QED  BY <1>1, <1>2, <1>3, SessionStep

LEMMA BackedNext ==
  ASSUME TypeOK, Backed, [Next]_vars
  PROVE  Backed'
<1>1. ASSUME NEW r \in References, state'[r] \in Granted
      PROVE  Cardinality(Approvals(r)') >= request'[r].approvalsRequired
  <2>1. /\ Cardinality(Approvals(r)) \in Nat /\ Cardinality(Approvals(r)') \in Nat
        /\ Cardinality(Approvals(r)') >= Cardinality(Approvals(r))
    BY ApprovalsGrow
  <2>2. state[r] # "none" => /\ request'[r] = request[r]
                             /\ request[r].approvalsRequired \in Nat
    BY RequestKept DEF TypeOK, Columns
  <2>3. CASE state[r] \in Granted
    <3>1. Cardinality(Approvals(r)) >= request[r].approvalsRequired
      BY <2>3 DEF Backed, EnoughApprovals
    <3>2. state[r] # "none"
      BY <2>3 DEF Granted
    <3>. QED  BY <2>1, <2>2, <3>1, <3>2
  <2>4. CASE \E w \in Workers :
              /\ RecordDecision(w) /\ r = worker[w].reference
              /\ Cardinality(Approvals(r)) + (IF worker[w].decision = "approved" THEN 1 ELSE 0)
                   >= request[r].approvalsRequired
    <3>1. PICK w \in Workers :
              /\ RecordDecision(w) /\ r = worker[w].reference
              /\ Cardinality(Approvals(r)) + (IF worker[w].decision = "approved" THEN 1 ELSE 0)
                   >= request[r].approvalsRequired
      BY <2>4
    <3>2. Cardinality(Approvals(r)') =
             Cardinality(Approvals(r)) + (IF worker[w].decision = "approved" THEN 1 ELSE 0)
      BY <3>1, ApprovalsCounted
    <3>3. state[r] # "none"
      BY <3>1 DEF RecordDecision, TypeOK
    <3>. QED  BY <2>2, <3>1, <3>2, <3>3
  <2>5. CASE \E w \in Workers :
              HandOff(w) /\ r = worker[w].reference /\ worker[w].seen = "approved"
    <3>1. PICK w \in Workers :
              HandOff(w) /\ r = worker[w].reference /\ worker[w].seen = "approved"
      BY <2>5
    <3>2. Cardinality(Approvals(r)) >= request[r].approvalsRequired
      BY <3>1 DEF HandOff, Backed
    <3>3. state[r] # "none"
      BY <3>1 DEF HandOff, TypeOK
    <3>. QED  BY <2>1, <2>2, <3>2, <3>3
  <2>. QED  BY <1>1, <2>3, <2>4, <2>5, GrantedStep
<1>2. ASSUME NEW v \in Workers, worker'[v].pc = "handoff", worker'[v].seen = "approved"
      PROVE  (Cardinality(Approvals(worker[v].reference))
                >= request[worker[v].reference].approvalsRequired)'
  BY <1>2, BackedSessions
<1>. QED  BY <1>1, <1>2 DEF Backed, EnoughApprovals

LEMMA BackedInit == Init => Backed
BY DEF Init, Backed, EnoughApprovals, Granted, Idle

(***************************************************************************)
(* A request that is or was approved has the approving steps its policy    *)
(* asked for, however decisions, hand-offs and revocations overlap and     *)
(* whatever the isolation of the database.                                 *)
(***************************************************************************)
THEOREM ApprovalsAreEnough == Spec => []EnoughApprovals
<1>1. Backed => EnoughApprovals
  BY DEF Backed
<1>. QED  BY <1>1, BackedInit, BackedNext, TypeCorrect, PTL DEF Spec
------------------------------------------------------------------------------
\* Under serialised transactions, who enters a transaction finds no one in one.
LEMMA OneTransaction ==
  ASSUME TypeOK, OneAtATime, [Next]_vars, Serializable,
         NEW v \in Workers, InTransaction(v)'
  PROVE  \/ InTransaction(v) /\ worker'[v].approver = worker[v].approver
                             /\ worker'[v].reference = worker[v].reference
         \/ /\ CheckDecision(v) /\ \A u \in Workers \ {v} : ~InTransaction(u) /\ ~InTransaction(u)'
            /\ worker'[v].approver = worker[v].approver
            /\ worker'[v].reference = worker[v].reference
<1>0. worker'[v].pc \in {"checked", "read"}
  BY DEF InTransaction
<1>1. CASE worker'[v] = worker[v]
  BY <1>0, <1>1 DEF InTransaction
<1>2. CASE /\ CheckDecision(v)
           /\ worker' = [worker EXCEPT ![v] = [worker[v] EXCEPT !.pc = "checked"]]
  <2>1. worker[v] \in DecideSession
    BY <1>2, SessionKind DEF TypeOK, CheckDecision
  <2>2. /\ worker'[v].approver = worker[v].approver
        /\ worker'[v].reference = worker[v].reference
    BY <1>2, <2>1 DEF TypeOK, DecideSession
  <2>3. ASSUME NEW u \in Workers \ {v}
        PROVE  ~InTransaction(u) /\ ~InTransaction(u)'
    <3>1. ~InTransaction(u)
      BY <1>2 DEF CheckDecision, MayWrite
    <3>2. worker'[u] = worker[u]
      BY <1>2 DEF TypeOK
    <3>. QED  BY <3>1, <3>2 DEF InTransaction
  <2>. QED  BY <1>2, <2>2, <2>3
<1>3. CASE /\ ReadPrevious(v)
           /\ worker' = [worker EXCEPT ![v] =
                [worker[v] EXCEPT !.pc = "read",
                                  !.previous = LastSequence(worker[v].reference)]]
  <2>1. worker[v] \in DecideSession
    BY <1>3, SessionKind DEF TypeOK, ReadPrevious
  <2>2. /\ worker'[v].approver = worker[v].approver
        /\ worker'[v].reference = worker[v].reference
    BY <1>3, <2>1 DEF TypeOK, DecideSession
  <2>. QED  BY <1>3, <2>2 DEF ReadPrevious, InTransaction
<1>. QED  BY <1>0, <1>1, <1>2, <1>3, SessionStep

\* Nobody comes to speak twice while those who are deciding have not spoken.
LEMMA CountsOnceStep ==
  ASSUME TypeOK, ApproverCountsOnce, [Next]_vars,
         \A w \in Workers : InTransaction(w) =>
           worker[w].approver \notin Deciders(worker[w].reference)
  PROVE  ApproverCountsOnce'
<1> SUFFICES ASSUME NEW r \in References, NEW i \in 1..Len(steps'[r]), NEW j \in 1..Len(steps'[r]),
                    steps'[r][i].approver = steps'[r][j].approver
             PROVE  i = j
  BY DEF ApproverCountsOnce
<1>1. CASE steps'[r] = steps[r]
  BY <1>1 DEF ApproverCountsOnce
<1>2. CASE \E w \in Workers : RecordDecision(w) /\ r = worker[w].reference
  <2>1. PICK w \in Workers : RecordDecision(w) /\ r = worker[w].reference
    BY <1>2
  <2> DEFINE n == Len(steps[r])
  <2>2. /\ Len(steps'[r]) = n + 1
        /\ \A k \in 1..n : steps'[r][k] = steps[r][k]
        /\ steps'[r][n + 1] =
            [sequence |-> worker[w].previous + 1, approver |-> worker[w].approver,
             decision |-> worker[w].decision, previous |-> worker[w].previous]
    BY <2>1, NewStep
  <2>3. steps'[r][n + 1].approver = worker[w].approver
    BY <2>2
  <2>4. \A k \in 1..n : steps'[r][k].approver # worker[w].approver
    <3>1. worker[w].approver \notin Deciders(r)
      BY <2>1 DEF RecordDecision, InTransaction
    <3>. QED  BY <2>2, <3>1 DEF Deciders
  <2>5. n \in Nat
    BY DEF TypeOK
  <2>6. i \in 1..(n + 1) /\ j \in 1..(n + 1)
    BY <2>2
  <2>7. CASE i \in 1..n /\ j \in 1..n
    BY <2>2, <2>7 DEF ApproverCountsOnce
  <2>8. CASE i = n + 1 \/ j = n + 1
    BY <2>3, <2>4, <2>5, <2>6, <2>8
  <2>. QED  BY <2>5, <2>6, <2>7, <2>8
<1>. QED  BY <1>1, <1>2, StepsGrow

LEMMA OneAtATimeNext ==
  ASSUME TypeOK, OneAtATime, [Next]_vars
  PROVE  OneAtATime'
<1> SUFFICES ASSUME Serializable
             PROVE  /\ ApproverCountsOnce'
                    /\ \A v, w \in Workers : InTransaction(v)' /\ InTransaction(w)' => v = w
                    /\ \A w \in Workers : InTransaction(w)' =>
                         (worker[w].approver \notin Deciders(worker[w].reference))'
  BY DEF OneAtATime
<1>0. /\ ApproverCountsOnce
      /\ \A v, w \in Workers : InTransaction(v) /\ InTransaction(w) => v = w
      /\ \A w \in Workers : InTransaction(w) =>
           worker[w].approver \notin Deciders(worker[w].reference)
  BY DEF OneAtATime
<1>1. ASSUME NEW v \in Workers, NEW w \in Workers, InTransaction(v)', InTransaction(w)'
      PROVE  v = w
  BY <1>0, <1>1, OneTransaction
<1>2. ASSUME NEW w \in Workers, RecordDecision(w), NEW v \in Workers, InTransaction(v)'
      PROVE  FALSE
  <2>1. InTransaction(w) /\ ~InTransaction(w)'
    BY <1>2 DEF RecordDecision, InTransaction, Done, Idle, TypeOK
  <2>2. v # w /\ worker'[v] = worker[v]
    BY <1>2, <2>1 DEF RecordDecision, Done, TypeOK
  <2>3. InTransaction(v)
    BY <1>2, <2>2 DEF InTransaction
  <2>. QED  BY <1>0, <2>1, <2>2, <2>3
<1>3. ASSUME NEW v \in Workers, InTransaction(v)'
      PROVE  (worker[v].approver \notin Deciders(worker[v].reference))'
  <2>1. steps' = steps
    BY <1>2, <1>3, StepsKept
  <2>2. /\ worker'[v].approver = worker[v].approver
        /\ worker'[v].reference = worker[v].reference
    BY <1>3, OneTransaction
  <2>3. worker[v].approver \notin Deciders(worker[v].reference)
    <3>1. CASE InTransaction(v)
      BY <1>0, <3>1
    <3>2. CASE CheckDecision(v)
      BY <3>2 DEF CheckDecision, Segregated
    <3>. QED  BY <1>3, <3>1, <3>2, OneTransaction
  <2>. QED  BY <2>1, <2>2, <2>3 DEF Deciders
<1>4. ApproverCountsOnce'
  BY <1>0, CountsOnceStep
<1>. QED  BY <1>1, <1>3, <1>4

LEMMA OneAtATimeInit == Init => OneAtATime
BY DEF Init, OneAtATime, ApproverCountsOnce, InTransaction, Idle

\* When nobody speaks twice, there are as many approvers as approvals.
LEMMA ApproversMatchApprovals ==
  ASSUME TypeOK, ApproverCountsOnce, NEW r \in References
  PROVE  Cardinality(ApprovedBy(r)) = Cardinality(Approvals(r))
<1> DEFINE f == [i \in Approvals(r) |-> steps[r][i].approver]
<1>1. f \in [Approvals(r) -> ApprovedBy(r)]
  BY DEF ApprovedBy
<1>2. \A i, j \in Approvals(r) : f[i] = f[j] => i = j
  BY DEF ApproverCountsOnce, Approvals
<1>3. \A p \in ApprovedBy(r) : \E i \in Approvals(r) : f[i] = p
  BY DEF ApprovedBy
<1>4. f \in Injection(Approvals(r), ApprovedBy(r)) /\ f \in Surjection(Approvals(r), ApprovedBy(r))
  <2> HIDE DEF f
  <2>. QED  BY <1>1, <1>2, <1>3 DEF Injection, Surjection, IsInjective
<1>. QED  BY <1>4, ApprovalsFinite, FS_Surjection

(***************************************************************************)
(* Four eyes: with a database that serialises overlapping transactions, an *)
(* approved request rests on as many different people as its policy asked  *)
(* for, none of them the requester or the beneficiary.                     *)
(***************************************************************************)
THEOREM SerialisedFourEyes == Spec => [](Serializable => FourEyes)
<1>1. TypeOK /\ Vetted /\ Backed /\ OneAtATime => (Serializable => FourEyes)
  <2> SUFFICES ASSUME TypeOK, Vetted, Backed, OneAtATime, Serializable,
                      NEW r \in References, state[r] \in Granted
               PROVE  Cardinality(ApprovedBy(r) \ Barred(r)) >= request[r].approvalsRequired
    BY DEF FourEyes
  <2>1. Cardinality(ApprovedBy(r)) = Cardinality(Approvals(r))
    BY ApproversMatchApprovals DEF OneAtATime
  <2>2. ApprovedBy(r) \ Barred(r) = ApprovedBy(r)
    <3>1. Deciders(r) \cap Barred(r) = {}
      BY DEF Vetted, NobodyDecidesForThemselves, Granted
    <3>2. ApprovedBy(r) \subseteq Deciders(r)
      BY DEF ApprovedBy, Deciders, Approvals
    <3>. QED  BY <3>1, <3>2
  <2>3. Cardinality(Approvals(r)) >= request[r].approvalsRequired
    BY DEF Backed, EnoughApprovals
  <2>. QED  BY <2>1, <2>2, <2>3
<1>2. Spec => []Vetted
  BY VettedInit, VettedNext, TypeCorrect, PTL DEF Spec
<1>3. Spec => []Backed
  BY BackedInit, BackedNext, TypeCorrect, PTL DEF Spec
<1>4. Spec => []OneAtATime
  BY OneAtATimeInit, OneAtATimeNext, TypeCorrect, PTL DEF Spec
<1>. QED  BY <1>1, <1>2, <1>3, <1>4, TypeCorrect, PTL
------------------------------------------------------------------------------
(***************************************************************************)
(* What bounds a grant: a submitted request that is not standing stores a  *)
(* number of days its policy permits, and the hand-off turns that number,  *)
(* and nothing else, into an end.                                          *)
(***************************************************************************)
MayStand(policy) ==
  \/ policy # 0 /\ Policies[policy].standingAllowed
  \/ EffectiveDays(policy, Unset) = 0

Capped(r) ==
  IF request[r].days = 0
  THEN MayStand(request[r].policy)
  ELSE request[r].days <= Ceiling(request[r].policy)

Ended(r) ==
  /\ dates[r].expiresAt # Unset =>
       request[r].days > 0 /\ dates[r].expiresAt = dates[r].provisionedAt + request[r].days
  /\ state[r] \in {"provisioned", "expired"} /\ dates[r].expiresAt = Unset => request[r].days = 0

Limits ==
  \A r \in References :
    IF state[r] = "none" THEN dates[r].expiresAt = Unset ELSE Capped(r) /\ Ended(r)

\* What submit stores is a positive number of days under the ceiling, or what may stand.
LEMMA SubmitCaps ==
  ASSUME TypeOK, NEW w \in Workers, Submit(w), NEW r \in References,
         state[r] = "none", state'[r] # "none"
  PROVE  Capped(r)' /\ state'[r] = "pending"
<1> DEFINE form == worker[w].form
           policy == PolicyOf(form)
           row == [principal |-> form.principal, resource |-> form.resource,
                   level |-> form.level, requestedBy |-> form.requestedBy,
                   days |-> IF form.days = 0 THEN 0 ELSE EffectiveDays(policy, form.days),
                   policy |-> policy,
                   approvalsRequired |-> IF policy = 0 THEN 1
                                         ELSE Policies[policy].approvalsRequired]
<1>1. form \in Form /\ policy \in 0..Len(Policies)
  <2>1. worker[w] \in SubmitSession
    BY SessionKind DEF TypeOK, Submit
  <2>. QED  BY <2>1, PolicyOfType DEF SubmitSession
<1>2. /\ SubmitAllows(policy, form)
      /\ \E q \in References : /\ state' = [state EXCEPT ![q] = "pending"]
                               /\ request' = [request EXCEPT ![q] = row]
  BY DEF Submit
<1>3. request'[r] = row /\ state'[r] = "pending"
  BY <1>2 DEF TypeOK
<1>4. CASE form.days = 0
  <2>1. row.days = 0 /\ row.policy = policy
    BY <1>4
  <2>2. policy # 0 /\ Policies[policy].standingAllowed
    BY <1>2, <1>4 DEF SubmitAllows
  <2>. QED  BY <1>3, <2>1, <2>2 DEF Capped, MayStand
<1>5. CASE form.days # 0
  <2>1. row.days = EffectiveDays(policy, form.days) /\ row.policy = policy
    BY <1>5
  <2>2. EffectiveDays(policy, form.days) <= Ceiling(policy)
    BY <1>2, <1>5 DEF SubmitAllows
  <2>3. EffectiveDays(policy, form.days) = 0 => MayStand(policy)
    BY <1>5 DEF EffectiveDays, MayStand
  <2> HIDE DEF form, policy, row
  <2>. QED  BY <1>3, <2>1, <2>2, <2>3 DEF Capped
<1>. QED  BY <1>3, <1>4, <1>5

LEMMA LimitsNext ==
  ASSUME TypeOK, Limits, [Next]_vars
  PROVE  Limits'
<1> SUFFICES ASSUME NEW r \in References
             PROVE  (IF state[r] = "none" THEN dates[r].expiresAt = Unset
                     ELSE Capped(r) /\ Ended(r))'
  BY DEF Limits
<1>0. /\ state[r] = "none" => dates[r].expiresAt = Unset
      /\ state[r] # "none" => /\ Capped(r) /\ Ended(r) /\ request[r] \in Columns
                              /\ request'[r] = request[r] /\ state'[r] # "none"
      /\ dates[r] \in Dates
  BY RequestKept DEF Limits, TypeOK
<1>c. state[r] # "none" => Capped(r)'
  BY <1>0 DEF Capped
<1>1. ASSUME NEW w \in Workers, Submit(w)
      PROVE  (IF state[r] = "none" THEN dates[r].expiresAt = Unset
              ELSE Capped(r) /\ Ended(r))'
  <2>1. dates' = dates
    BY <1>1 DEF Submit
  <2>2. CASE state[r] = "none" /\ state'[r] = "none"
    BY <1>0, <2>1, <2>2
  <2>3. CASE state[r] = "none" /\ state'[r] # "none"
    <3>1. Capped(r)' /\ state'[r] = "pending"
      BY <1>1, <2>3, SubmitCaps
    <3>2. Ended(r)'
      BY <1>0, <2>1, <2>3, <3>1 DEF Ended
    <3>. QED  BY <3>1, <3>2
  <2>4. CASE state[r] # "none"
    <3>1. state'[r] = state[r]
      BY <1>1, <2>4 DEF Submit, TypeOK
    <3>2. Ended(r)'
      BY <1>0, <2>1, <2>4, <3>1 DEF Ended
    <3>. QED  BY <1>0, <1>c, <2>4, <3>2
  <2>. QED  BY <2>2, <2>3, <2>4
<1>2. ASSUME NEW w \in Workers, RecordDecision(w)
      PROVE  (IF state[r] = "none" THEN dates[r].expiresAt = Unset
              ELSE Capped(r) /\ Ended(r))'
  <2> DEFINE q == worker[w].reference
  <2>1. /\ dates'[r].expiresAt = dates[r].expiresAt
        /\ dates'[r].provisionedAt = dates[r].provisionedAt
    BY <1>0, <1>2 DEF RecordDecision, TypeOK, Dates
  <2>2. state'[r] = state[r] \/ (state'[r] \in {"rejected", "approved"} /\ r = q)
    <3>1. PICK count : state' = [state EXCEPT ![q] = DecidedState(q, worker[w].decision, count)]
      BY <1>2 DEF RecordDecision
    <3>2. DecidedState(q, worker[w].decision, count) \in {state[q], "rejected", "approved"}
      BY DEF DecidedState
    <3>3. r # q => state'[r] = state[r]
      BY <3>1 DEF TypeOK
    <3>4. r = q => state'[r] = DecidedState(q, worker[w].decision, count)
      BY <3>1 DEF TypeOK
    <3>. QED  BY <3>2, <3>3, <3>4
  <2>3. r = q => state[r] # "none"
    BY <1>2 DEF RecordDecision, TypeOK
  <2>4. state[r] # "none" => Ended(r)'
    BY <1>0, <2>1, <2>2 DEF Ended
  <2>. QED  BY <1>0, <1>c, <2>1, <2>2, <2>3, <2>4
<1>3. ASSUME NEW w \in Workers, HandOff(w)
      PROVE  (IF state[r] = "none" THEN dates[r].expiresAt = Unset
              ELSE Capped(r) /\ Ended(r))'
  <2> DEFINE q == worker[w].reference
             until == IF request[q].days > 0 THEN now + request[q].days ELSE dates[q].expiresAt
  <2>1. q \in References /\ state[q] # "none"
    BY <1>3, SessionReference DEF HandOff, TypeOK
  <2>2. /\ state' = [state EXCEPT ![q] = "provisioned"]
        /\ dates' = [dates EXCEPT ![q] = [@ EXCEPT !.provisionedAt = now, !.expiresAt = until]]
    BY <1>3, <2>1 DEF HandOff, TypeOK, Dates
  <2>3. CASE r = q
    <3>1. /\ dates'[r].expiresAt = until /\ dates'[r].provisionedAt = now
      BY <2>1, <2>2, <2>3 DEF TypeOK, Dates
    <3>2. request[r].days \in Nat /\ now \in Nat
      BY <1>0, <2>1, <2>3 DEF TypeOK, Columns
    <3>3. Ended(r)'
      BY <1>0, <2>1, <2>3, <3>1, <3>2 DEF Ended, Unset
    <3>. QED  BY <1>0, <1>c, <2>1, <2>3, <3>3
  <2>4. CASE r # q
    <3>1. state'[r] = state[r] /\ dates'[r] = dates[r]
      BY <2>2, <2>4 DEF TypeOK
    <3>. QED  BY <1>0, <1>c, <3>1 DEF Ended
  <2>. QED  BY <2>3, <2>4
<1>4. ASSUME \/ \E w \in Workers : Revoke(w)
             \/ ExpireDue
      PROVE  (IF state[r] = "none" THEN dates[r].expiresAt = Unset
              ELSE Capped(r) /\ Ended(r))'
  <2>1. dates' = dates
    BY <1>4 DEF Revoke, ExpireDue
  <2>2. \/ state'[r] = state[r]
        \/ state[r] # "none" /\ state'[r] = "revoked"
        \/ state[r] = "provisioned" /\ state'[r] = "expired"
    BY <1>4 DEF Revoke, ExpireDue, Due, TypeOK
  <2>. QED  BY <1>0, <1>c, <2>1, <2>2 DEF Ended
<1>5. ASSUME UNCHANGED <<state, request, dates>>
      PROVE  (IF state[r] = "none" THEN dates[r].expiresAt = Unset
              ELSE Capped(r) /\ Ended(r))'
  BY <1>0, <1>5 DEF Ended, Capped
<1>. QED
  BY <1>1, <1>2, <1>3, <1>4, <1>5
     DEF Next, WorkerStep, CheckForm, FetchToDecide, CheckDecision, ReadPrevious,
         FetchToHandOff, RollBack, Tick, vars

LEMMA LimitsInit == Init => Limits
BY DEF Init, Limits

(***************************************************************************)
(* A provisioned request ends by its policy's ceiling, counted from the    *)
(* hand-off, unless the policy allows standing access or permits zero      *)
(* days: for any number of workers, whatever hand-offs, revocations and    *)
(* decisions overlap, on any table of policies.                            *)
(***************************************************************************)
THEOREM GrantsEndInTime == Spec => []BoundedUnlessStandingAllowed
<1>1. TypeOK /\ Limits => BoundedUnlessStandingAllowed
  <2> SUFFICES ASSUME TypeOK, Limits, NEW r \in References,
                      state[r] \in {"provisioned", "expired"}
               PROVE  IF dates[r].expiresAt = Unset
                      THEN MayStand(request[r].policy)
                      ELSE dates[r].expiresAt - dates[r].provisionedAt
                             <= Ceiling(request[r].policy)
    BY DEF BoundedUnlessStandingAllowed, MayStand
  <2>1. Capped(r) /\ Ended(r)
    BY DEF Limits
  <2>2. /\ dates[r].provisionedAt \in Int /\ dates[r].expiresAt \in Int
        /\ request[r].days \in Nat
    BY DEF TypeOK, Dates, Days, Columns, Unset
  <2>3. CASE dates[r].expiresAt = Unset
    BY <2>1, <2>3 DEF Capped, Ended
  <2>4. CASE dates[r].expiresAt # Unset
    <3>1. dates[r].expiresAt - dates[r].provisionedAt = request[r].days /\ request[r].days # 0
      BY <2>1, <2>2, <2>4 DEF Ended
    <3>. QED  BY <2>1, <2>4, <3>1 DEF Capped
  <2>. QED  BY <2>3, <2>4
<1>2. TypeOK /\ Limits /\ [Next]_vars => Limits'
  BY LimitsNext
<1>. QED  BY <1>1, <1>2, LimitsInit, TypeCorrect, PTL DEF Spec
------------------------------------------------------------------------------
(***************************************************************************)
(* Duplicates.  A request that is open, or that a decision in some         *)
(* worker's hands may still reopen, occupies a worker of its own that is   *)
(* not filling in the same form: the form is accepted only when every such *)
(* request is in the hands of another worker, and an insert hands the slot *)
(* of its worker to the new request.                                       *)
(***************************************************************************)
Deciding(w, r) ==
  /\ worker[w].pc \in {"decide", "checked", "read"} /\ worker[w].reference = r
  /\ worker[w].pc = "decide" => worker[w].seen = "pending"

Live(k) ==
  {r \in References : /\ state[r] # "none" /\ KeyOf(r) = k
                      /\ state[r] \in Open \/ \E w \in Workers : Deciding(w, r)}

Filling(w, k) ==
  /\ worker[w].pc = "submit"
  /\ <<worker[w].form.principal, worker[w].form.resource, worker[w].form.level>> = k

Slots(k, f) ==
  /\ \A r \in Live(k) : f[r] \in Workers /\ ~Filling(f[r], k)
  /\ \A q, r \in Live(k) : f[q] = f[r] => q = r

Racing == \A k \in Key : \E f : Slots(k, f)

\* The row submit writes for a reference that was free.
LEMMA SubmittedRow ==
  ASSUME TypeOK, NEW w \in Workers, Submit(w)
  PROVE  \E r \in References :
           /\ state[r] = "none" /\ state' = [state EXCEPT ![r] = "pending"]
           /\ request'[r] \in Columns
           /\ KeyOf(r)' = <<worker[w].form.principal, worker[w].form.resource,
                            worker[w].form.level>>
           /\ \A q \in References \ {r} : request'[q] = request[q] /\ state'[q] = state[q]
<1> DEFINE form == worker[w].form
           policy == PolicyOf(form)
           row == [principal |-> form.principal, resource |-> form.resource,
                   level |-> form.level, requestedBy |-> form.requestedBy,
                   days |-> IF form.days = 0 THEN 0 ELSE EffectiveDays(policy, form.days),
                   policy |-> policy,
                   approvalsRequired |-> IF policy = 0 THEN 1
                                         ELSE Policies[policy].approvalsRequired]
<1>1. PICK r \in References : /\ state[r] = "none"
                              /\ state' = [state EXCEPT ![r] = "pending"]
                              /\ request' = [request EXCEPT ![r] = row]
  BY DEF Submit
<1>2. request'[r] = row /\ state'[r] = "pending"
  BY <1>1 DEF TypeOK
<1>3. request'[r] \in Columns
  <2>1. TypeOK'
    BY TypeSubmit
  <2>. QED  BY <1>2, <2>1 DEF TypeOK
<1>4. KeyOf(r)' = <<form.principal, form.resource, form.level>>
  BY <1>2 DEF KeyOf
<1>5. \A q \in References \ {r} : request'[q] = request[q] /\ state'[q] = state[q]
  BY <1>1 DEF TypeOK
<1> HIDE DEF row, policy
<1>. QED  BY <1>1, <1>2, <1>3, <1>4, <1>5

\* Slots serve as long as no request becomes live and no worker takes up the form.
LEMMA SlotsKept ==
  ASSUME Racing, NEW k \in Key, Live(k)' \subseteq Live(k),
         \A w \in Workers : Filling(w, k)' => Filling(w, k)
  PROVE  \E f : Slots(k, f)'
<1>1. PICK f : Slots(k, f)
  BY DEF Racing
<1>2. PICK g : g = f
  OBVIOUS
<1>3. /\ \A r \in Live(k)' : g[r] \in Workers /\ ~(Filling(g[r], k)')
      /\ \A q, r \in Live(k)' : g[q] = g[r] => q = r
  BY <1>1, <1>2 DEF Slots
<1>. QED  BY <1>3 DEF Slots

\* A step that inserts nothing makes nothing live: a decision reopens what was live for it.
LEMMA NothingNewLive ==
  ASSUME TypeOK, [Next]_vars, ~ \E w \in Workers : Submit(w), NEW k \in Key
  PROVE  Live(k)' \subseteq Live(k)
<1> SUFFICES ASSUME NEW r \in References, state'[r] # "none", KeyOf(r)' = k,
                    state'[r] \in Open \/ \E w \in Workers : Deciding(w, r)'
             PROVE  /\ state[r] # "none" /\ KeyOf(r) = k
                    /\ state[r] \in Open \/ \E w \in Workers : Deciding(w, r)
  BY DEF Live
<1>1. /\ state[r] # "none"
      /\ state'[r] \in Open => state[r] \in Open \/ \E w \in Workers : Deciding(w, r)
  <2>1. CASE \E w \in Workers : RecordDecision(w)
    <3>1. PICK w \in Workers : RecordDecision(w)
      BY <2>1
    <3>2. worker[w].pc = "read" /\ state[worker[w].reference] # "none"
      BY <3>1 DEF RecordDecision, TypeOK
    <3>3. CASE r = worker[w].reference
      BY <3>2, <3>3 DEF Deciding
    <3>4. CASE r # worker[w].reference
      BY <3>1, <3>4 DEF RecordDecision, TypeOK
    <3>. QED  BY <3>3, <3>4
  <2>2. CASE \E w \in Workers : HandOff(w)
    <3>1. PICK w \in Workers : HandOff(w)
      BY <2>2
    <3>2. state[worker[w].reference] # "none"
      BY <3>1 DEF HandOff, TypeOK
    <3>. QED  BY <3>1, <3>2 DEF HandOff, TypeOK, Open
  <2>3. CASE \E w \in Workers : Revoke(w)
    BY <2>3 DEF Revoke, TypeOK, Open
  <2>4. CASE ExpireDue
    BY <2>4 DEF ExpireDue, Due, TypeOK, Open
  <2>5. CASE UNCHANGED state
    BY <2>5
  <2>. QED
    BY <2>1, <2>2, <2>3, <2>4, <2>5
       DEF Next, WorkerStep, CheckForm, FetchToDecide, CheckDecision, ReadPrevious,
           FetchToHandOff, RollBack, Tick, vars
<1>2. KeyOf(r) = k
  BY <1>1, RequestKept DEF KeyOf
<1>3. ASSUME NEW w \in Workers, Deciding(w, r)'
      PROVE  state[r] \in Open \/ Deciding(w, r)
  <2>1. CASE worker'[w] = worker[w]
    BY <1>3, <2>1 DEF Deciding
  <2>2. CASE FetchToDecide(w)
    <3>1. PICK q \in References, p \in Voters, d \in Decisions :
            worker' = [worker EXCEPT ![w] =
              [pc |-> "decide", reference |-> q, seen |-> state[q],
               approver |-> p, decision |-> d, previous |-> 0]]
      BY <2>2 DEF FetchToDecide
    <3>2. worker'[w].pc = "decide" /\ worker'[w].reference = q /\ worker'[w].seen = state[q]
      BY <3>1 DEF TypeOK
    <3>. QED  BY <1>3, <3>2 DEF Deciding, Open
  <2>3. CASE CheckDecision(w)
    <3>1. worker[w] \in DecideSession
      BY <2>3, SessionKind DEF TypeOK, CheckDecision
    <3>2. worker'[w].reference = worker[w].reference
      BY <2>3, <3>1 DEF CheckDecision, TypeOK, DecideSession
    <3>. QED  BY <1>3, <2>3, <3>2 DEF Deciding, CheckDecision
  <2>4. CASE ReadPrevious(w)
    <3>1. worker[w] \in DecideSession
      BY <2>4, SessionKind DEF TypeOK, ReadPrevious
    <3>2. worker'[w].reference = worker[w].reference
      BY <2>4, <3>1 DEF ReadPrevious, TypeOK, DecideSession
    <3>. QED  BY <1>3, <2>4, <3>2 DEF Deciding, ReadPrevious
  <2>5. worker'[w].pc \in {"decide", "checked", "read"}
    BY <1>3 DEF Deciding
  <2>. QED  BY <2>1, <2>2, <2>3, <2>4, <2>5, SessionStep
<1>. QED  BY <1>1, <1>2, <1>3

\* Only the form's check takes up the form.
LEMMA NothingNewFilled ==
  ASSUME TypeOK, [Next]_vars, ~ \E w \in Workers : CheckForm(w), NEW k \in Key,
         NEW v \in Workers, Filling(v, k)'
  PROVE  Filling(v, k)
<1>1. worker'[v].pc = "submit"
  BY DEF Filling
<1>2. CASE \E w \in Workers : WorkerStep(w)
  <2>1. PICK w \in Workers : WorkerStep(w)
    BY <1>2
  <2>2. CASE w # v
    <3>1. worker'[v] = worker[v]
      BY <2>1, <2>2
         DEF TypeOK, WorkerStep, CheckForm, Submit, FetchToDecide, CheckDecision, ReadPrevious,
             RecordDecision, FetchToHandOff, HandOff, Revoke, RollBack, Done
    <3>. QED  BY <3>1 DEF Filling
  <2>3. CASE w = v /\ (CheckDecision(w) \/ ReadPrevious(w))
    <3>1. worker[v] \in DecideSession
      BY <2>3, SessionKind DEF TypeOK, CheckDecision, ReadPrevious
    <3>2. worker'[v].pc \in {"checked", "read"}
      BY <2>3, <3>1 DEF CheckDecision, ReadPrevious, TypeOK, DecideSession
    <3>. QED  BY <1>1, <3>2
  <2>4. CASE w = v /\ (FetchToDecide(w) \/ FetchToHandOff(w))
    BY <1>1, <2>4 DEF FetchToDecide, FetchToHandOff, TypeOK
  <2>5. CASE w = v /\ (Submit(w) \/ RecordDecision(w) \/ HandOff(w) \/ RollBack(w))
    BY <1>1, <2>5 DEF Submit, RecordDecision, HandOff, RollBack, Done, Idle, TypeOK
  <2>6. CASE w = v /\ Revoke(w)
    BY <2>6 DEF Revoke, Filling
  <2>. QED  BY <2>1, <2>2, <2>3, <2>4, <2>5, <2>6 DEF WorkerStep
<1>3. CASE ExpireDue \/ Tick \/ UNCHANGED vars
  BY <1>3 DEF ExpireDue, Tick, vars, Filling
<1>. QED  BY <1>2, <1>3 DEF Next

\* The form is accepted only when every live request of its access is in other hands.
LEMMA AcceptedBesideDeciders ==
  ASSUME TypeOK, NEW w \in Workers, CheckForm(w), NEW k \in Key, Filling(w, k)'
  PROVE  \E f : Slots(k, f)'
<1>1. PICK form : /\ FormAccepts(form)
                  /\ worker' = [worker EXCEPT ![w] = [pc |-> "submit", form |-> form]]
  BY DEF CheckForm
<1>2. worker'[w].form = form /\ \A v \in Workers \ {w} : worker'[v] = worker[v]
  BY <1>1 DEF TypeOK
<1>3. k = <<form.principal, form.resource, form.level>>
  BY <1>2 DEF Filling
<1>4. worker[w] = Idle /\ state' = state /\ request' = request
  BY DEF CheckForm
<1>5. \A r \in Live(k)' : \E v \in Workers : Deciding(v, r)'
  <2> SUFFICES ASSUME NEW r \in Live(k)', ~ \E v \in Workers : Deciding(v, r)'
               PROVE  FALSE
    OBVIOUS
  <2>1. r \in References /\ state[r] # "none" /\ KeyOf(r) = k /\ state[r] \in Open
    BY <1>4 DEF Live, KeyOf
  <2>2. r \in SameAccess(form)
    BY <1>3, <2>1 DEF SameAccess
  <2>. QED  BY <1>1, <2>1, <2>2 DEF FormAccepts, Open
<1>6. PICK f : f = [r \in Live(k)' |-> CHOOSE v \in Workers : Deciding(v, r)']
  OBVIOUS
<1>7. \A r \in Live(k)' : f[r] \in Workers /\ Deciding(f[r], r)'
  BY <1>5, <1>6
<1>8. \A v \in Workers : \A q, r : Deciding(v, q)' /\ Deciding(v, r)' => q = r
  BY DEF Deciding
<1>9. \A v \in Workers : \A r : Deciding(v, r)' => ~(Filling(v, k)')
  BY DEF Deciding, Filling
<1>10. /\ \A r \in Live(k)' : f[r] \in Workers /\ ~(Filling(f[r], k)')
       /\ \A q, r \in Live(k)' : f[q] = f[r] => q = r
  BY <1>7, <1>8, <1>9
<1>. QED  BY <1>10 DEF Slots

\* An insert hands the slot of its worker to the new request.
LEMMA InsertTakesItsSlot ==
  ASSUME TypeOK, Racing, NEW w \in Workers, Submit(w), NEW k \in Key
  PROVE  \E f : Slots(k, f)'
<1>1. PICK q \in References :
           /\ state[q] = "none" /\ state' = [state EXCEPT ![q] = "pending"]
           /\ KeyOf(q)' = <<worker[w].form.principal, worker[w].form.resource,
                            worker[w].form.level>>
           /\ \A r \in References \ {q} : request'[r] = request[r] /\ state'[r] = state[r]
  BY SubmittedRow
<1>2. worker'[w] = Idle /\ worker[w].pc = "submit"
      /\ \A v \in Workers \ {w} : worker'[v] = worker[v]
  BY DEF Submit, Done, TypeOK
<1>3. \A v \in Workers : \A r : Deciding(v, r)' => Deciding(v, r)
  BY <1>2 DEF Deciding, Idle
<1>4. \A v \in Workers : Filling(v, k)' => Filling(v, k) /\ v # w
  BY <1>2 DEF Filling, Idle
<1>5. Live(k)' \ {q} \subseteq Live(k)
  BY <1>1, <1>3 DEF Live, KeyOf
<1>6. q \notin Live(k)
  BY <1>1 DEF Live
<1>7. q \in Live(k)' => Filling(w, k)
  BY <1>1, <1>2 DEF Live, Filling
<1>8. PICK f : Slots(k, f)
  BY DEF Racing
<1>9. PICK g : g = [r \in Live(k)' |-> IF r = q THEN w ELSE f[r]]
  OBVIOUS
<1>10. \A r \in Live(k)' \ {q} : f[r] \in Workers /\ ~Filling(f[r], k)
  BY <1>5, <1>8 DEF Slots
<1>11. \A r, s \in Live(k)' \ {q} : f[r] = f[s] => r = s
  BY <1>5, <1>8 DEF Slots
<1>12. \A r \in Live(k)' : g[r] = IF r = q THEN w ELSE f[r]
  BY <1>9
<1>13. \A r \in Live(k)' : g[r] \in Workers /\ ~(Filling(g[r], k)')
  BY <1>4, <1>10, <1>12
<1>14. ASSUME NEW r \in Live(k)', NEW s \in Live(k)', g[r] = g[s]
       PROVE  r = s
  <2>1. CASE r # q /\ s # q
    BY <1>11, <1>12, <1>14, <2>1
  <2>2. CASE r = q /\ s # q
    BY <1>7, <1>10, <1>12, <1>14, <2>2
  <2>3. CASE r # q /\ s = q
    BY <1>7, <1>10, <1>12, <1>14, <2>3
  <2>. QED  BY <2>1, <2>2, <2>3
<1>. QED  BY <1>13, <1>14 DEF Slots

LEMMA RacingNext ==
  ASSUME TypeOK, Racing, [Next]_vars
  PROVE  Racing'
<1> SUFFICES ASSUME NEW k \in Key PROVE \E f : Slots(k, f)'
  BY DEF Racing, Key
<1>1. CASE \E w \in Workers : Submit(w)
  BY <1>1, InsertTakesItsSlot
<1>2. CASE \E w \in Workers : CheckForm(w) /\ Filling(w, k)'
  BY <1>2, AcceptedBesideDeciders
<1>3. CASE /\ ~ \E w \in Workers : Submit(w)
           /\ ~ \E w \in Workers : CheckForm(w) /\ Filling(w, k)'
  <2>1. Live(k)' \subseteq Live(k)
    BY <1>3, NothingNewLive
  <2>2. ASSUME NEW v \in Workers, Filling(v, k)'
        PROVE  Filling(v, k)
    <3>1. CASE \E w \in Workers : CheckForm(w)
      <4>1. PICK w \in Workers : CheckForm(w)
        BY <3>1
      <4>2. v # w
        BY <1>3, <2>2, <4>1
      <4>3. worker'[v] = worker[v]
        BY <4>1, <4>2 DEF CheckForm, TypeOK
      <4>. QED  BY <2>2, <4>3 DEF Filling
    <3>2. CASE ~ \E w \in Workers : CheckForm(w)
      BY <2>2, <3>2, NothingNewFilled
    <3>. QED  BY <3>1, <3>2
  <2>. QED  BY <2>1, <2>2, SlotsKept
<1>. QED  BY <1>1, <1>2, <1>3

LEMMA RacingInit == Init => Racing
<1> SUFFICES ASSUME Init, NEW k \in Key PROVE \E f : Slots(k, f)
  BY DEF Racing
<1>1. Live(k) = {}
  BY DEF Init, Live
<1>. QED  BY <1>1 DEF Slots

(***************************************************************************)
(* However many workers submit, decide and revoke at once, the requests    *)
(* open for exactly the same access are never more than the workers: what  *)
(* the form's check lets through is what was in hand when it was made.     *)
(***************************************************************************)
THEOREM DuplicatesAreRaces == Spec => []DuplicatesOnlyByRacing
<1>1. TypeOK /\ Racing => DuplicatesOnlyByRacing
  <2> SUFFICES ASSUME Racing, NEW k \in Key
               PROVE  Cardinality(OpenFor(k)) <= Cardinality(Workers)
    BY DEF DuplicatesOnlyByRacing
  <2>1. PICK f : Slots(k, f)
    BY DEF Racing
  <2>2. OpenFor(k) \subseteq Live(k)
    BY DEF OpenFor, Live, Open
  <2>3. PICK g : g = [r \in OpenFor(k) |-> f[r]]
    OBVIOUS
  <2>4. /\ g \in [OpenFor(k) -> Workers]
        /\ \A q, r \in OpenFor(k) : g[q] = g[r] => q = r
    BY <2>1, <2>2, <2>3 DEF Slots
  <2>5. g \in Injection(OpenFor(k), Workers)
    BY <2>4 DEF Injection, IsInjective
  <2>6. IsFiniteSet(Workers)
    BY WorkflowAssumption
  <2>. QED  BY <2>5, <2>6, FS_Injection
<1>2. TypeOK /\ Racing /\ [Next]_vars => Racing'
  BY RacingNext
<1>. QED  BY <1>1, <1>2, RacingInit, TypeCorrect, PTL DEF Spec
------------------------------------------------------------------------------
(***************************************************************************)
(* What a worker that is alone read is still so when it writes.            *)
(***************************************************************************)
OneWorker == \A v, w \in Workers : v = w

Current(w) ==
  /\ worker[w].pc = "submit" => \A r \in SameAccess(worker[w].form) : state[r] \notin Open
  /\ worker[w].pc \notin {"idle", "submit"} /\ worker[w].seen \in Open =>
       state[worker[w].reference] = worker[w].seen
  /\ InTransaction(w) => /\ worker[w].seen = "pending"
                         /\ worker[w].approver \notin Deciders(worker[w].reference)

UpToDate == \A w \in Workers : Current(w)

\* The steps of a worker leave what that worker has in hand up to date.
LEMMA CurrentStep ==
  ASSUME TypeOK, NEW w \in Workers, Current(w), WorkerStep(w)
  PROVE  Current(w)'
<1>1. CASE Submit(w) \/ RecordDecision(w) \/ HandOff(w) \/ RollBack(w)
  <2>1. worker'[w] = Idle
    BY <1>1 DEF Submit, RecordDecision, HandOff, RollBack, Done, TypeOK
  <2>. QED  BY <2>1 DEF Current, Idle, InTransaction
<1>2. CASE Revoke(w)
  BY <1>2 DEF Revoke, Current, Idle, InTransaction
<1>3. CASE CheckForm(w)
  <2>1. PICK form : /\ FormAccepts(form)
                    /\ worker' = [worker EXCEPT ![w] = [pc |-> "submit", form |-> form]]
    BY <1>3 DEF CheckForm
  <2>2. worker'[w].pc = "submit" /\ worker'[w].form = form
    BY <2>1 DEF TypeOK
  <2>3. state' = state /\ request' = request
    BY <1>3 DEF CheckForm
  <2>4. \A r \in SameAccess(form) : state[r] \notin Open
    BY <2>1 DEF FormAccepts, Open
  <2>5. SameAccess(worker[w].form)' = SameAccess(form)
    BY <2>2, <2>3 DEF SameAccess, KeyOf
  <2>. QED  BY <2>2, <2>3, <2>4, <2>5 DEF Current, InTransaction
<1>4. CASE FetchToDecide(w)
  <2>1. PICK r \in References, p \in Voters, d \in Decisions :
          worker' = [worker EXCEPT ![w] =
            [pc |-> "decide", reference |-> r, seen |-> state[r],
             approver |-> p, decision |-> d, previous |-> 0]]
    BY <1>4 DEF FetchToDecide
  <2>2. worker'[w].pc = "decide" /\ worker'[w].reference = r /\ worker'[w].seen = state[r]
    BY <2>1 DEF TypeOK
  <2>3. state' = state
    BY <1>4 DEF FetchToDecide
  <2>. QED  BY <2>2, <2>3 DEF Current, InTransaction
<1>5. CASE FetchToHandOff(w)
  <2>1. PICK r \in References :
          worker' = [worker EXCEPT ![w] =
                       [pc |-> "handoff", reference |-> r, seen |-> state[r]]]
    BY <1>5 DEF FetchToHandOff
  <2>2. worker'[w].pc = "handoff" /\ worker'[w].reference = r /\ worker'[w].seen = state[r]
    BY <2>1 DEF TypeOK
  <2>3. state' = state
    BY <1>5 DEF FetchToHandOff
  <2>. QED  BY <2>2, <2>3 DEF Current, InTransaction
<1>6. CASE CheckDecision(w) \/ ReadPrevious(w)
  <2>1. worker[w] \in DecideSession
    BY <1>6, SessionKind DEF TypeOK, CheckDecision, ReadPrevious
  <2>2. /\ worker'[w].pc \in {"checked", "read"} /\ worker'[w].seen = worker[w].seen
        /\ worker'[w].reference = worker[w].reference
        /\ worker'[w].approver = worker[w].approver
    BY <1>6, <2>1 DEF CheckDecision, ReadPrevious, TypeOK, DecideSession
  <2>3. worker[w].seen = "pending" /\ worker[w].approver \notin Deciders(worker[w].reference)
    <3>1. CASE CheckDecision(w)
      BY <3>1 DEF CheckDecision, Segregated
    <3>2. CASE ReadPrevious(w)
      BY <3>2 DEF ReadPrevious, Current, InTransaction
    <3>. QED  BY <1>6, <3>1, <3>2
  <2>4. state[worker[w].reference] = worker[w].seen
    BY <1>6, <2>3 DEF CheckDecision, ReadPrevious, Current, Open
  <2>5. state' = state /\ steps' = steps
    BY <1>6 DEF CheckDecision, ReadPrevious
  <2>6. (worker[w].approver \notin Deciders(worker[w].reference))'
    BY <2>2, <2>3, <2>5 DEF Deciders
  <2>. QED  BY <2>2, <2>3, <2>4, <2>5, <2>6 DEF Current
<1>. QED  BY <1>1, <1>2, <1>3, <1>4, <1>5, <1>6 DEF WorkerStep

LEMMA UpToDateNext ==
  ASSUME TypeOK, OneWorker, UpToDate, [Next]_vars
  PROVE  UpToDate'
<1> SUFFICES ASSUME NEW v \in Workers PROVE Current(v)'
  BY DEF UpToDate
<1>0. Current(v)
  BY DEF UpToDate
<1>1. CASE \E w \in Workers : WorkerStep(w)
  BY <1>0, <1>1, CurrentStep DEF OneWorker
<1>2. CASE ExpireDue
  <2>1. /\ worker' = worker /\ request' = request /\ steps' = steps
        /\ \A r \in References : /\ state'[r] = "none" <=> state[r] = "none"
                                 /\ state'[r] \in Open => state'[r] = state[r]
                                 /\ state[r] \in Open => state'[r] = state[r]
    BY <1>2 DEF ExpireDue, Due, TypeOK, Open
  <2>2. worker[v].pc \notin {"idle", "submit"} => worker[v].reference \in References
    BY SessionReference DEF TypeOK
  <2>3. SameAccess(worker[v].form)' = SameAccess(worker[v].form)
    BY <2>1 DEF SameAccess, KeyOf
  <2>4. \A r \in SameAccess(worker[v].form) : r \in References
    BY DEF SameAccess
  <2>5. worker'[v].pc = "submit" =>
          \A r \in SameAccess(worker[v].form)' : state'[r] \notin Open
    BY <1>0, <2>1, <2>3, <2>4 DEF Current
  <2>. QED  BY <1>0, <2>1, <2>2, <2>5 DEF Current, InTransaction, Deciders
<1>3. CASE Tick \/ UNCHANGED vars
  BY <1>0, <1>3 DEF Tick, vars, Current, InTransaction, Deciders, SameAccess, KeyOf
<1>. QED  BY <1>1, <1>2, <1>3 DEF Next

LEMMA UpToDateInit == Init => UpToDate
BY DEF Init, UpToDate, Current, InTransaction, Idle

\* The state decide writes, in terms of what it counted.
LEMMA DecidedPhase ==
  ASSUME TypeOK, NEW w \in Workers, RecordDecision(w), NEW r, r = worker[w].reference
  PROVE  LET d == worker[w].decision
             count == Cardinality(Approvals(r)) + (IF d = "approved" THEN 1 ELSE 0)
         IN /\ state' = [state EXCEPT ![r] = DecidedState(r, d, count)]
            /\ d = "rejected" => state'[r] = "rejected"
            /\ d # "rejected" /\ count >= request[r].approvalsRequired => state'[r] = "approved"
            /\ d # "rejected" /\ ~(count >= request[r].approvalsRequired) => state'[r] = state[r]
<1> DEFINE d == worker[w].decision
           count == Cardinality(Approvals(r)) + (IF d = "approved" THEN 1 ELSE 0)
<1>1. r \in References
  BY NewStep
<1>2. state' = [state EXCEPT ![r] = DecidedState(r, d, count)]
  BY DEF RecordDecision
<1>3. state'[r] = DecidedState(r, d, count)
  BY <1>1, <1>2 DEF TypeOK
<1> HIDE DEF d, count
<1>4. /\ d = "rejected" => state'[r] = "rejected"
      /\ d # "rejected" /\ count >= request[r].approvalsRequired => state'[r] = "approved"
      /\ d # "rejected" /\ ~(count >= request[r].approvalsRequired) => state'[r] = state[r]
  BY <1>3 DEF DecidedState
<1>. QED  BY <1>2, <1>4 DEF d, count

\* While a request keeps its row and its steps, the abstract record of it stays.
LEMMA RecordKept ==
  ASSUME TypeOK, [Next]_vars, ~ \E w \in Workers : Submit(w)
  PROVE  Needed' = Needed /\ BarredFrom' = BarredFrom
<1>1. /\ request' = request
      /\ \A r \in References : state'[r] = "none" <=> state[r] = "none"
  <2>1. request' = request
    BY DEF Next, WorkerStep, CheckForm, FetchToDecide, CheckDecision, ReadPrevious,
           RecordDecision, FetchToHandOff, HandOff, Revoke, RollBack, ExpireDue, Tick, vars
  <2>2. ASSUME NEW r \in References, state[r] = "none"
        PROVE  state'[r] = "none"
    <3>1. CASE \E w \in Workers : RecordDecision(w)
      <4>1. PICK w \in Workers : RecordDecision(w)
        BY <3>1
      <4>2. state[worker[w].reference] # "none"
        BY <4>1 DEF RecordDecision, TypeOK
      <4>. QED  BY <2>2, <4>1, <4>2 DEF RecordDecision, TypeOK
    <3>2. CASE \E w \in Workers : HandOff(w)
      <4>1. PICK w \in Workers : HandOff(w)
        BY <3>2
      <4>2. state[worker[w].reference] # "none"
        BY <4>1 DEF HandOff, TypeOK
      <4>. QED  BY <2>2, <4>1, <4>2 DEF HandOff, TypeOK
    <3>3. CASE \E w \in Workers : Revoke(w)
      BY <2>2, <3>3 DEF Revoke, TypeOK
    <3>4. CASE ExpireDue
      BY <2>2, <3>4 DEF ExpireDue, Due, TypeOK
    <3>5. CASE UNCHANGED state
      BY <2>2, <3>5
    <3>. QED
      BY <3>1, <3>2, <3>3, <3>4, <3>5
         DEF Next, WorkerStep, CheckForm, FetchToDecide, CheckDecision, ReadPrevious,
             FetchToHandOff, RollBack, Tick, vars
  <2>. QED  BY <2>1, <2>2, RequestKept
<1>. QED  BY <1>1 DEF Needed, BarredFrom, Barred

\* Submitting raises the request.
LEMMA SubmitRaises ==
  ASSUME TypeOK, NEW w \in Workers, Submit(w)
  PROVE  Lifecycle!Next
<1>1. PICK r \in References :
           /\ state[r] = "none" /\ state' = [state EXCEPT ![r] = "pending"]
           /\ request'[r] \in Columns
           /\ \A q \in References \ {r} : request'[q] = request[q] /\ state'[q] = state[q]
  BY SubmittedRow
<1>2. state'[r] = "pending"
  BY <1>1 DEF TypeOK
<1>3. Spoken' = Spoken /\ Consents' = Consents
  BY DEF Submit, Spoken, Consents, Deciders, Approvals
<1>4. PICK who : who = {request'[r].requestedBy} \cup request'[r].principal.identities
  OBVIOUS
<1>5. who \in SUBSET People
  BY <1>1, <1>4, WorkflowAssumption DEF Columns
<1>6. BarredFrom' = [BarredFrom EXCEPT ![r] = who]
  <2>1. BarredFrom'[r] = who
    BY <1>2, <1>4 DEF BarredFrom, Barred
  <2>2. \A q \in References \ {r} : BarredFrom'[q] = BarredFrom[q]
    BY <1>1 DEF BarredFrom, Barred
  <2>. QED  BY <2>1, <2>2 DEF BarredFrom
<1>7. Needed'[r] \in Nat /\ Needed' = [Needed EXCEPT ![r] = Needed'[r]]
  <2>1. Needed'[r] = request'[r].approvalsRequired
    BY <1>2 DEF Needed
  <2>2. \A q \in References \ {r} : Needed'[q] = Needed[q]
    BY <1>1 DEF Needed
  <2>. QED  BY <1>1, <2>1, <2>2 DEF Needed, Columns
<1>8. Lifecycle!Raise(r)
  BY <1>1, <1>3, <1>5, <1>6, <1>7 DEF Lifecycle!Raise
<1>. QED  BY <1>8 DEF Lifecycle!Next

\* Who may speak, and twice: the weaknesses the lifecycle is told of, and no others.
LEMMA SpeaksInTurn ==
  ASSUME TypeOK, Vetted, OneWorker => UpToDate, OneAtATime, NEW w \in Workers, RecordDecision(w)
  PROVE  LET r == worker[w].reference
             p == worker[w].approver
         IN /\ state[r] = "pending" \/ (ManyWorkers /\ state[r] # "none")
            /\ p \notin Barred(r)
            /\ p \in Deciders(r) => ManyWorkers /\ ~Serializable
<1>1. InTransaction(w) /\ worker[w].pc \notin {"idle", "submit"}
  BY DEF RecordDecision, InTransaction
<1>2. state[worker[w].reference] # "none"
  BY <1>1 DEF TypeOK
<1>3. worker[w].approver \notin Barred(worker[w].reference)
  BY <1>1 DEF Vetted
<1>4. ~ManyWorkers => /\ state[worker[w].reference] = "pending"
                      /\ worker[w].approver \notin Deciders(worker[w].reference)
  BY <1>1 DEF UpToDate, Current, Open, OneWorker, ManyWorkers
<1>5. Serializable => worker[w].approver \notin Deciders(worker[w].reference)
  BY <1>1 DEF OneAtATime
<1>. QED  BY <1>2, <1>3, <1>4, <1>5, WorkflowAssumption

\* A decision recorded is a voice given.
LEMMA DecisionSpeaks ==
  ASSUME TypeOK, Vetted, OneWorker => UpToDate, OneAtATime, NEW w \in Workers, RecordDecision(w)
  PROVE  Lifecycle!Next
<1> DEFINE r == worker[w].reference
           p == worker[w].approver
           d == worker[w].decision
           yes == d = "approved"
           count == Cardinality(Approvals(r)) + (IF yes THEN 1 ELSE 0)
<1>1. /\ r \in References /\ p \in People /\ d \in Decisions
      /\ state[r] # "none" /\ request[r].approvalsRequired \in Nat
  BY NewStep DEF DecideSession, Columns
<1>2. /\ state[r] = "pending" \/ (ManyWorkers /\ state[r] # "none")
      /\ p \notin Barred(r)
      /\ p \in Deciders(r) => ManyWorkers /\ ~Serializable
  BY SpeaksInTurn
<1>3. Needed' = Needed /\ BarredFrom' = BarredFrom
  <2>1. [Next]_vars /\ ~ \E v \in Workers : Submit(v)
    <3>1. ASSUME NEW v \in Workers, Submit(v) PROVE FALSE
      BY <3>1, <1>1 DEF Submit, RecordDecision, TypeOK
    <3>. QED  BY <3>1 DEF Next, WorkerStep
  <2>. QED  BY <2>1, RecordKept
<1>4. \A q \in References \ {r} : steps'[q] = steps[q]
  BY <1>1 DEF RecordDecision, TypeOK
<1>5. Spoken' = [Spoken EXCEPT ![r] = @ \cup {p}]
  <2>1. Spoken'[r] = Spoken[r] \cup {p}
    BY <1>1, DecidersGrow DEF Spoken
  <2>2. \A q \in References \ {r} : Spoken'[q] = Spoken[q]
    BY <1>4 DEF Spoken, Deciders
  <2>. QED  BY <1>1, <2>1, <2>2 DEF Spoken
<1>6. Cardinality(Approvals(r)) \in Nat
  BY <1>1, ApprovalsFinite
<1>7. Consents'[r] = count /\ Consents[r] = Cardinality(Approvals(r))
  BY <1>1, ApprovalsCounted DEF Consents
<1>8. Consents' = [Consents EXCEPT ![r] = IF yes THEN @ + 1 ELSE @]
  <2>1. Consents'[r] = IF yes THEN Consents[r] + 1 ELSE Consents[r]
    BY <1>6, <1>7
  <2>2. \A q \in References \ {r} : Consents'[q] = Consents[q]
    BY <1>4 DEF Consents, Approvals
  <2>. QED  BY <1>1, <2>1, <2>2 DEF Consents
<1>9. /\ BarredFrom[r] = Barred(r) /\ Spoken[r] = Deciders(r)
      /\ Needed[r] = request[r].approvalsRequired
  BY <1>1 DEF BarredFrom, Spoken, Needed
<1>10. /\ state' = [state EXCEPT ![r] = state'[r]]
       /\ d = "rejected" => state'[r] = "rejected"
       /\ d # "rejected" => state'[r] = IF count >= request[r].approvalsRequired
                                        THEN "approved" ELSE state[r]
  <2>1. /\ state' = [state EXCEPT ![r] = DecidedState(r, d, count)]
        /\ d = "rejected" => state'[r] = "rejected"
        /\ d # "rejected" /\ count >= request[r].approvalsRequired => state'[r] = "approved"
        /\ d # "rejected" /\ ~(count >= request[r].approvalsRequired) => state'[r] = state[r]
    BY DecidedPhase
  <2>2. state' = [state EXCEPT ![r] = state'[r]]
    BY <1>1, <2>1 DEF TypeOK
  <2>. QED  BY <2>1, <2>2
<1> HIDE DEF r, p, d, yes, count
<1>11. Lifecycle!Speak(r, p, yes)
  BY <1>2, <1>3, <1>5, <1>8, <1>9 DEF Lifecycle!Speak
<1>12. CASE d = "rejected"
  <2>1. yes = FALSE
    BY <1>12 DEF yes
  <2>2. Lifecycle!Speak(r, p, FALSE)
    BY <1>11, <2>1
  <2>3. Lifecycle!Refuse(r, p)
    BY <1>10, <1>12, <2>2 DEF Lifecycle!Refuse
  <2>. QED  BY <1>1, <2>3 DEF Lifecycle!Next
<1>13. CASE d # "rejected"
  <2>1. state' = [state EXCEPT ![r] = IF Consents'[r] >= Needed[r] THEN "approved" ELSE @]
    BY <1>1, <1>7, <1>9, <1>10, <1>13 DEF TypeOK
  <2>2. Lifecycle!Answer(r, p, yes)
    BY <1>11, <2>1 DEF Lifecycle!Answer
  <2>3. yes \in BOOLEAN
    BY DEF yes
  <2>. QED  BY <1>1, <2>2, <2>3 DEF Lifecycle!Next
<1>. QED  BY <1>12, <1>13

\* While no decision is recorded, who has spoken and who has consented stays.
LEMMA VoicesKept ==
  ASSUME steps' = steps
  PROVE  Spoken' = Spoken /\ Consents' = Consents
BY DEF Spoken, Consents, Deciders, Approvals

\* Every step of the workflow is a step of the lifecycle it promises, or none.
LEMMA StepIsPromised ==
  ASSUME TypeOK, Vetted, Backed, OneWorker => UpToDate, OneAtATime, [Next]_vars
  PROVE  [Lifecycle!Next]_(Lifecycle!vars)
<1>1. CASE \E w \in Workers : Submit(w)
  BY <1>1, SubmitRaises
<1>2. CASE \E w \in Workers : RecordDecision(w)
  BY <1>2, DecisionSpeaks
<1>3. CASE /\ ~ \E w \in Workers : RecordDecision(w)
           /\ ~ \E w \in Workers : Submit(w)
  <2>1. Spoken' = Spoken /\ Consents' = Consents
    BY <1>3, StepsKept, VoicesKept
  <2>2. Needed' = Needed /\ BarredFrom' = BarredFrom
    BY <1>3, RecordKept
  <2>3. CASE \E w \in Workers : HandOff(w)
    <3>1. PICK w \in Workers : HandOff(w)
      BY <2>3
    <3> DEFINE r == worker[w].reference
    <3>2. r \in References /\ state[r] # "none"
      BY <3>1, SessionReference DEF HandOff, TypeOK
    <3>3. /\ state[r] = "approved" \/ ManyWorkers
          /\ state' = [state EXCEPT ![r] = "provisioned"]
      BY <3>1 DEF HandOff, HandOffAllowed, UpToDate, Current, Open, OneWorker, ManyWorkers
    <3>4. Consents[r] >= Needed[r]
      BY <3>1, <3>2 DEF HandOff, HandOffAllowed, Backed, Consents, Needed
    <3> HIDE DEF r
    <3>5. Lifecycle!Provision(r)
      BY <2>1, <2>2, <3>2, <3>3, <3>4 DEF Lifecycle!Provision
    <3>. QED  BY <3>2, <3>5 DEF Lifecycle!Next
  <2>4. CASE \E w \in Workers : Revoke(w)
    <3>1. PICK r \in References : /\ state[r] # "none"
                                  /\ state' = [state EXCEPT ![r] = "revoked"]
      BY <2>4 DEF Revoke
    <3>2. Lifecycle!Withdraw(r)
      BY <2>1, <2>2, <3>1 DEF Lifecycle!Withdraw
    <3>. QED  BY <3>2 DEF Lifecycle!Next
  <2>5. CASE ExpireDue
    <3>1. /\ Due # {} /\ Due \in SUBSET References
          /\ \A r \in Due : state[r] = "provisioned"
          /\ state' = [r \in References |-> IF r \in Due THEN "expired" ELSE state[r]]
      BY <2>5 DEF ExpireDue, Due
    <3> HIDE DEF Due
    <3>2. Lifecycle!Lapse(Due)
      BY <2>1, <2>2, <3>1 DEF Lifecycle!Lapse
    <3>. QED  BY <3>1, <3>2 DEF Lifecycle!Next
  <2>6. CASE UNCHANGED state
    BY <2>1, <2>2, <2>6 DEF Lifecycle!vars
  <2>. QED
    BY <1>3, <2>3, <2>4, <2>5, <2>6
       DEF Next, WorkerStep, CheckForm, FetchToDecide, CheckDecision, ReadPrevious,
           FetchToHandOff, RollBack, Tick, vars
<1>. QED  BY <1>1, <1>2, <1>3

LEMMA InitIsPromised == Init => Lifecycle!Init
<1> SUFFICES ASSUME Init PROVE Lifecycle!Init
  OBVIOUS
<1>1. /\ Needed = [r \in References |-> 0] /\ BarredFrom = [r \in References |-> {}]
  BY DEF Init, Needed, BarredFrom
<1>2. \A r \in References : Deciders(r) = {} /\ Approvals(r) = {}
  BY DEF Init, Deciders, Approvals
<1>3. Spoken = [r \in References |-> {}] /\ Consents = [r \in References |-> 0]
  BY <1>2, FS_EmptySet DEF Spoken, Consents
<1>. QED  BY <1>1, <1>3 DEF Init, Lifecycle!Init

(***************************************************************************)
(* The workflow is the promised lifecycle, for any workers, people and     *)
(* policies: whatever overlaps, nobody barred speaks, enough consents and  *)
(* nothing less approve a request, one refusal ends it, and only what      *)
(* collected its consents is handed off.  The decision written is on an    *)
(* open request when nothing overlaps, and a person speaks once unless     *)
(* several workers share a database that does not serialise them.          *)
(***************************************************************************)
THEOREM WorkflowKeepsItsPromise == Spec => ImplementsLifecycle
<1>1. Init => (OneWorker => UpToDate)
  BY UpToDateInit
<1>2. TypeOK /\ (OneWorker => UpToDate) /\ [Next]_vars => (OneWorker => UpToDate)'
  BY UpToDateNext DEF OneWorker
<1>3. TypeOK /\ Vetted /\ [Next]_vars => Vetted'
  BY VettedNext
<1>4. TypeOK /\ Backed /\ [Next]_vars => Backed'
  BY BackedNext
<1>5. TypeOK /\ OneAtATime /\ [Next]_vars => OneAtATime'
  BY OneAtATimeNext
<1>6. TypeOK /\ Vetted /\ Backed /\ (OneWorker => UpToDate) /\ OneAtATime /\ [Next]_vars
        => [Lifecycle!Next]_(Lifecycle!vars)
  BY StepIsPromised
<1>. QED
  BY <1>1, <1>2, <1>3, <1>4, <1>5, <1>6, VettedInit, BackedInit, OneAtATimeInit,
     InitIsPromised, TypeCorrect, PTL DEF Spec, ImplementsLifecycle, Lifecycle!Spec
------------------------------------------------------------------------------
(***************************************************************************)
(* The reconciliation pass.  What it has in hand has the types of the      *)
(* columns it was read from.                                               *)
(***************************************************************************)
Hands == [key : Key, row : Grant, matched : References \cup {NoRequest}, until : Days]

Passes == [pc : {"listing", "fetched"}, resource : Resources, reported : SUBSET Key,
           left : SUBSET Key, hand : Hands \cup {NoHand},
           draft : UNION {[D -> Grant] : D \in SUBSET Key}, stable : SUBSET Key]

PassTypes ==
  /\ platform \in SUBSET Key
  /\ pass = NoPass \/ pass \in Passes
  /\ pass.pc = "fetched" => pass.hand \in Hands

\* A grant is linked to a request for it exactly when it counts as approved, and only then revoked.
Linked(k, row) ==
  /\ row.origin = "approved" => row.request # NoRequest
  /\ row.request # NoRequest => /\ row.origin = "approved" /\ row.listed
                                /\ row.request \in For(k) /\ Backing(row.request)
  /\ row.revokedAt # Unset => row.request # NoRequest

\* The row that a pass is about to save.
InHand == Confirmed(pass.hand.row, pass.hand.matched, pass.hand.until)

RowsLinked ==
  /\ \A k \in Key : Linked(k, grant[k])
  /\ pass # NoPass => \A k \in DOMAIN pass.draft : Linked(k, pass.draft[k])
  /\ pass.pc = "fetched" => Linked(pass.hand.key, InHand)

\* What a pass has behind it and before it, and what it may settle.
Tracked ==
  pass # NoPass =>
    /\ pass.reported \subseteq On(pass.resource) /\ pass.left \subseteq pass.reported
    /\ pass.stable \subseteq On(pass.resource)
    /\ settled \cap On(pass.resource) \subseteq pass.stable
    /\ \A k \in pass.stable : k \in platform <=> k \in pass.reported
    /\ pass.pc = "fetched" => pass.hand.key \in pass.reported \ pass.left
    /\ DOMAIN pass.draft = IF pass.pc = "fetched"
                           THEN (pass.reported \ pass.left) \ {pass.hand.key}
                           ELSE pass.reported \ pass.left
    /\ \A k \in DOMAIN pass.draft : pass.draft[k].listed /\ ~pass.draft[k].absent

SeenPresent == \A k \in settled \cap platform : grant[k].listed /\ ~grant[k].absent


\* What a step of the reconciliation leaves of the workflow.
LEMMA ReconcileStep ==
  ASSUME [ReconcileNext]_allVars
  PROVE  [Next]_vars \/ (FinishPass /\ UNCHANGED <<workflowVars, now>>)
BY DEF ReconcileNext, allVars, WorkflowStep, PlatformAdds, PlatformRemoves, StartPass, FetchGrant,
       SaveGrant, FinishPass, AbortPass

\* The row of a record fits its columns.
LEMMA ConfirmedType ==
  ASSUME NEW row \in Grant, NEW matched \in References \cup {NoRequest}, NEW until \in Days
  PROVE  /\ Confirmed(row, matched, until) \in Grant
         /\ Confirmed(row, matched, until).listed /\ ~Confirmed(row, matched, until).absent
         /\ Confirmed(row, matched, until).revokedAt = row.revokedAt
         /\ Confirmed(row, matched, until).expiresAt = until
         /\ matched = NoRequest =>
              /\ Confirmed(row, matched, until).origin = row.origin
              /\ Confirmed(row, matched, until).request = row.request
         /\ matched # NoRequest =>
              /\ Confirmed(row, matched, until).origin = "approved"
              /\ Confirmed(row, matched, until).request = matched
BY DEF Confirmed, Grant

LEMMA MatchingFor ==
  ASSUME TypeOK, NEW k, NEW r \in Matching(k)
  PROVE  /\ r \in References /\ r \in For(k) /\ state[r] \in {"approved", "provisioned"}
BY DEF Matching, For

LEMMA UntilType ==
  ASSUME TypeOK, NEW k \in Key, NEW end \in PlatformEnds, NEW r \in References \cup {NoRequest}
  PROVE  Until(k, r, end) \in Days
<1>1. grant[k].expiresAt \in Days /\ end \in Days
  BY ReconcileAssumption DEF TypeOK, Grant
<1>2. r # NoRequest => dates[r].expiresAt \in Days
  BY DEF TypeOK, Dates
<1>. QED  BY <1>1, <1>2 DEF Until

\* How a pass goes on, field by field.
LEMMA PassFetches ==
  ASSUME TypeOK, PassTypes, NEW k \in Key, FetchGrant(k)
  PROVE  /\ pass \in Passes /\ pass # NoPass /\ pass.pc = "listing" /\ k \in pass.left
         /\ pass' \in Passes /\ pass' # NoPass /\ pass'.pc = "fetched"
         /\ pass'.left = pass.left \ {k} /\ pass'.reported = pass.reported
         /\ pass'.resource = pass.resource /\ pass'.draft = pass.draft
         /\ pass'.stable = pass.stable /\ pass'.hand \in Hands /\ pass'.hand.key = k
         /\ \E r \in References \cup {NoRequest}, end \in PlatformEnds :
              /\ r # NoRequest => r \in Matching(k) /\ grant[k].request = NoRequest
              /\ pass'.hand = [key |-> k, row |-> grant[k], matched |-> r,
                               until |-> Until(k, r, end)]
              /\ early' = IF r # NoRequest /\ state[r] = "approved" THEN early \cup {k} ELSE early
<1>1. pass \in Passes /\ pass # NoPass /\ pass.pc = "listing" /\ k \in pass.left
  BY DEF FetchGrant, PassTypes, NoPass
<1>2. PICK r \in IF grant[k].request # NoRequest \/ Matching(k) = {} THEN {NoRequest} ELSE Matching(k),
           end \in PlatformEnds :
        /\ pass' = [pass EXCEPT !.pc = "fetched", !.left = @ \ {k},
                             !.hand = [key |-> k, row |-> grant[k], matched |-> r,
                                       until |-> Until(k, r, end)]]
        /\ early' = IF r # NoRequest /\ state[r] = "approved" THEN early \cup {k} ELSE early
  BY DEF FetchGrant
<1>3. /\ r \in References \cup {NoRequest}
      /\ r # NoRequest => r \in Matching(k) /\ grant[k].request = NoRequest
  BY <1>2 DEF Matching
<1>4. PICK hand : hand = [key |-> k, row |-> grant[k], matched |-> r, until |-> Until(k, r, end)]
  OBVIOUS
<1>5. hand \in Hands /\ hand.key = k
  BY <1>3, <1>4, UntilType DEF Hands, TypeOK
<1>6. pass' = [pass EXCEPT !.pc = "fetched", !.left = pass.left \ {k}, !.hand = hand]
  BY <1>1, <1>2, <1>4 DEF Passes
<1>7. /\ pass' \in Passes /\ pass'.pc = "fetched"
      /\ pass'.left = pass.left \ {k} /\ pass'.reported = pass.reported
      /\ pass'.resource = pass.resource /\ pass'.draft = pass.draft
      /\ pass'.stable = pass.stable /\ pass'.hand = hand
  <2>1. pass' \in Passes
    BY <1>1, <1>5, <1>6 DEF Passes
  <2>2. /\ DOMAIN pass' = DOMAIN pass
        /\ {"pc", "left", "reported", "resource", "draft", "stable", "hand"} \subseteq DOMAIN pass
    BY <1>1, <1>6 DEF Passes
  <2>3. /\ pass'.pc = "fetched" /\ pass'.left = pass.left \ {k} /\ pass'.hand = hand
    BY <1>6, <2>2
  <2>4. /\ pass'.reported = pass.reported /\ pass'.resource = pass.resource
        /\ pass'.draft = pass.draft /\ pass'.stable = pass.stable
    BY <1>6, <2>2
  <2>. QED  BY <2>1, <2>3, <2>4
<1>. QED  BY <1>1, <1>2, <1>3, <1>4, <1>5, <1>7 DEF NoPass

LEMMA PassSaves ==
  ASSUME PassTypes, SaveGrant
  PROVE  /\ pass \in Passes /\ pass # NoPass /\ pass.pc = "fetched" /\ pass.hand \in Hands
         /\ InHand \in Grant /\ InHand.listed /\ ~InHand.absent
         /\ pass' \in Passes /\ pass' # NoPass /\ pass'.pc = "listing"
         /\ pass'.left = pass.left /\ pass'.reported = pass.reported
         /\ pass'.resource = pass.resource /\ pass'.stable = pass.stable
         /\ DOMAIN pass'.draft = DOMAIN pass.draft \cup {pass.hand.key}
         /\ \A k \in DOMAIN pass'.draft :
              pass'.draft[k] = IF k = pass.hand.key THEN InHand ELSE pass.draft[k]
<1>1. pass \in Passes /\ pass # NoPass /\ pass.pc = "fetched" /\ pass.hand \in Hands
  BY DEF SaveGrant, PassTypes, NoPass
<1>2. InHand \in Grant /\ InHand.listed /\ ~InHand.absent
  BY <1>1, ConfirmedType DEF InHand, Hands
<1>3. PICK row : row = InHand
  OBVIOUS
<1>4. PICK draft : draft = Saved(pass.draft, pass.hand.key, row)
  OBVIOUS
<1>5. /\ DOMAIN draft = DOMAIN pass.draft \cup {pass.hand.key}
      /\ \A k \in DOMAIN draft : draft[k] = IF k = pass.hand.key THEN row ELSE pass.draft[k]
  BY <1>4 DEF Saved
<1>6. draft \in UNION {[D -> Grant] : D \in SUBSET Key}
  <2>1. PICK D \in SUBSET Key : pass.draft \in [D -> Grant]
    BY <1>1 DEF Passes
  <2>2. pass.hand.key \in Key
    BY <1>1 DEF Hands
  <2>3. draft \in [D \cup {pass.hand.key} -> Grant]
    BY <1>2, <1>3, <1>4, <2>1, <2>2 DEF Saved
  <2>4. D \cup {pass.hand.key} \in SUBSET Key
    BY <2>2
  <2>. QED  BY <2>3, <2>4
<1>7. pass' = [pass EXCEPT !.pc = "listing", !.hand = NoHand, !.draft = draft]
  BY <1>1, <1>3, <1>4 DEF SaveGrant, InHand, Passes
<1>8. /\ pass' \in Passes /\ pass'.pc = "listing"
      /\ pass'.left = pass.left /\ pass'.reported = pass.reported
      /\ pass'.resource = pass.resource /\ pass'.stable = pass.stable
      /\ pass'.draft = draft
  BY <1>1, <1>6, <1>7 DEF Passes
<1>. QED  BY <1>1, <1>2, <1>3, <1>5, <1>8 DEF NoPass

LEMMA PassStarts ==
  ASSUME PassTypes, NEW resource \in Resources, StartPass(resource)
  PROVE  /\ pass' \in Passes /\ pass' # NoPass /\ pass'.pc = "listing"
         /\ pass'.resource = resource /\ pass'.stable = On(resource)
         /\ pass'.reported = platform \cap On(resource) /\ pass'.left = platform \cap On(resource)
         /\ DOMAIN pass'.draft = {}
<1>1. PICK draft : draft = [k \in {} |-> NoGrant]
  OBVIOUS
<1>2. draft \in [{} -> Grant] /\ DOMAIN draft = {}
  BY <1>1
<1>3. draft \in UNION {[D -> Grant] : D \in SUBSET Key}
  BY <1>2
<1>4. On(resource) \in SUBSET Key /\ platform \cap On(resource) \in SUBSET Key
  BY DEF On
<1>5. pass' = [pc |-> "listing", resource |-> resource,
               reported |-> platform \cap On(resource), left |-> platform \cap On(resource),
               hand |-> NoHand, draft |-> draft, stable |-> On(resource)]
  BY <1>1 DEF StartPass
<1>6. pass' \in Passes
  BY <1>3, <1>4, <1>5 DEF Passes
<1>. QED  BY <1>2, <1>5, <1>6 DEF NoPass

\* A change of some accesses takes them out of what the pass may settle, and nothing else.
LEMMA PassUnsettled ==
  ASSUME PassTypes, NEW K, Unsettle(K)
  PROVE  /\ settled' = settled \ K
         /\ pass = NoPass => pass' = NoPass
         /\ pass # NoPass =>
              /\ pass' \in Passes /\ pass' # NoPass /\ pass'.pc = pass.pc
              /\ pass'.left = pass.left /\ pass'.reported = pass.reported
              /\ pass'.resource = pass.resource /\ pass'.draft = pass.draft
              /\ pass'.hand = pass.hand /\ pass'.stable = pass.stable \ K
<1>1. CASE pass = NoPass
  BY <1>1 DEF Unsettle
<1>2. CASE pass # NoPass
  <2>1. pass \in Passes
    BY <1>2 DEF PassTypes
  <2>2. pass' = [pass EXCEPT !.stable = pass.stable \ K]
    BY <1>2, <2>1 DEF Unsettle, Passes
  <2>3. /\ pass' \in Passes /\ pass'.pc = pass.pc
        /\ pass'.left = pass.left /\ pass'.reported = pass.reported
        /\ pass'.resource = pass.resource /\ pass'.draft = pass.draft
        /\ pass'.hand = pass.hand /\ pass'.stable = pass.stable \ K
    BY <2>1, <2>2 DEF Passes
  <2>4. pass' # NoPass
    BY <2>3 DEF Passes, NoPass
  <2>. QED  BY <1>2, <2>3, <2>4 DEF Unsettle
<1>. QED  BY <1>1, <1>2

\* The steps that unsettle: the platform's and the workflow's.
LEMMA PassGoesOn ==
  ASSUME [ReconcileNext]_allVars
  PROVE  \/ \E k \in Key : PlatformAdds(k) \/ PlatformRemoves(k)
         \/ WorkflowStep
         \/ \E k \in Key : FetchGrant(k)
         \/ \E resource \in Resources : StartPass(resource)
         \/ SaveGrant \/ FinishPass \/ AbortPass \/ UNCHANGED allVars
BY DEF ReconcileNext

LEMMA PassTypesNext ==
  ASSUME TypeOK, PassTypes, [ReconcileNext]_allVars
  PROVE  PassTypes'
<1>1. CASE \/ \E k \in Key : PlatformAdds(k) \/ PlatformRemoves(k)
           \/ WorkflowStep
  <2>1. \E K : Unsettle(K)
    BY <1>1 DEF PlatformAdds, PlatformRemoves, WorkflowStep
  <2>2. platform' \in SUBSET Key
    BY <1>1 DEF PlatformAdds, PlatformRemoves, WorkflowStep, PassTypes
  <2>3. CASE pass = NoPass
    BY <2>1, <2>2, <2>3, PassUnsettled DEF PassTypes, NoPass
  <2>4. CASE pass # NoPass
    BY <2>1, <2>2, <2>4, PassUnsettled DEF PassTypes
  <2>. QED  BY <2>3, <2>4
<1>2. CASE \E k \in Key : FetchGrant(k)
  <2>1. PICK k \in Key : FetchGrant(k)
    BY <1>2
  <2>2. pass' \in Passes /\ pass'.hand \in Hands
    BY <2>1, PassFetches
  <2>3. platform' = platform
    BY <2>1 DEF FetchGrant
  <2>. QED  BY <2>2, <2>3 DEF PassTypes
<1>3. CASE \E resource \in Resources : StartPass(resource)
  <2>1. PICK resource \in Resources : StartPass(resource)
    BY <1>3
  <2>2. pass' \in Passes /\ pass'.pc = "listing"
    BY <2>1, PassStarts
  <2>3. platform' = platform
    BY <2>1 DEF StartPass
  <2>. QED  BY <2>2, <2>3 DEF PassTypes
<1>4. CASE SaveGrant
  <2>1. pass' \in Passes /\ pass'.pc = "listing"
    BY <1>4, PassSaves
  <2>2. platform' = platform
    BY <1>4 DEF SaveGrant
  <2>. QED  BY <2>1, <2>2 DEF PassTypes
<1>5. CASE FinishPass \/ AbortPass
  BY <1>5 DEF FinishPass, AbortPass, PassTypes, NoPass
<1>6. CASE UNCHANGED allVars
  BY <1>6 DEF allVars, reconcileVars, PassTypes
<1>. QED  BY <1>1, <1>2, <1>3, <1>4, <1>5, <1>6, PassGoesOn

\* What the pass writes when it commits.
LEMMA PassCommits ==
  ASSUME TypeOK, PassTypes, FinishPass, NEW k \in Key
  PROVE  /\ pass \in Passes /\ pass # NoPass /\ pass.pc = "listing" /\ pass.left = {}
         /\ pass' = NoPass /\ settled' = settled \cup pass.stable
         /\ k \in DOMAIN pass.draft => grant'[k] = pass.draft[k]
         /\ k \notin DOMAIN pass.draft =>
              \/ grant'[k] = grant[k]
              \/ /\ k \in On(pass.resource) \ pass.reported
                 /\ grant'[k] = [grant[k] EXCEPT !.absent = TRUE]
         /\ grant' \in [Key -> Grant]
<1>1. pass \in Passes /\ pass # NoPass /\ pass.pc = "listing" /\ pass.left = {}
  BY DEF FinishPass, PassTypes, NoPass
<1>2. grant' = [x \in Key |->
       IF x \in DOMAIN pass.draft THEN pass.draft[x]
       ELSE IF x \in On(pass.resource) \ pass.reported /\ grant[x].listed
            THEN [grant[x] EXCEPT !.absent = TRUE] ELSE grant[x]]
  BY DEF FinishPass
<1>3. ASSUME NEW x \in Key
      PROVE  /\ x \in DOMAIN pass.draft => pass.draft[x] \in Grant
             /\ grant[x] \in Grant /\ [grant[x] EXCEPT !.absent = TRUE] \in Grant
  <2>1. PICK D \in SUBSET Key : pass.draft \in [D -> Grant]
    BY <1>1 DEF Passes
  <2>2. x \in DOMAIN pass.draft => pass.draft[x] \in Grant
    BY <2>1
  <2>3. grant[x] \in Grant
    BY DEF TypeOK
  <2>4. [grant[x] EXCEPT !.absent = TRUE] \in Grant
    BY <2>3 DEF Grant
  <2>. QED  BY <2>2, <2>3, <2>4
<1>4. grant' \in [Key -> Grant]
  BY <1>2, <1>3
<1>5. /\ k \in DOMAIN pass.draft => grant'[k] = pass.draft[k]
      /\ k \notin DOMAIN pass.draft =>
           \/ grant'[k] = grant[k]
           \/ /\ k \in On(pass.resource) \ pass.reported
              /\ grant'[k] = [grant[k] EXCEPT !.absent = TRUE]
  BY <1>2
<1>6. pass' = NoPass /\ settled' = settled \cup pass.stable
  BY DEF FinishPass
<1>. QED  BY <1>1, <1>4, <1>5, <1>6

LEMMA ReconcileTypeNext ==
  ASSUME TypeOK, PassTypes, [ReconcileNext]_allVars
  PROVE  TypeOK'
<1>1. CASE [Next]_vars
  BY <1>1, TypeNext
<1>2. CASE FinishPass /\ UNCHANGED <<workflowVars, now>>
  <2>1. /\ state' = state /\ request' = request /\ dates' = dates /\ steps' = steps
        /\ worker' = worker /\ now' = now
    BY <1>2 DEF workflowVars
  <2>2. grant' \in [Key -> Grant]
    <3>1. CASE Key = {}
      BY <1>2, <3>1 DEF FinishPass
    <3>2. CASE Key # {}
      BY <1>2, <3>2, PassCommits
    <3>. QED  BY <3>1, <3>2
  <2>. QED  BY <2>1, <2>2 DEF TypeOK
<1>. QED  BY <1>1, <1>2, ReconcileStep

LEMMA ReconcileTypesInit == ReconcileInit => TypeOK /\ PassTypes
BY TypeInit DEF ReconcileInit, PassTypes, NoPass

LEMMA ReconcileTypes == ReconcileSpec => [](TypeOK /\ PassTypes)
<1>1. TypeOK /\ PassTypes /\ [ReconcileNext]_allVars => (TypeOK /\ PassTypes)'
  BY PassTypesNext, ReconcileTypeNext
<1>. QED  BY <1>1, ReconcileTypesInit, PTL DEF ReconcileSpec
------------------------------------------------------------------------------
\* A request keeps its access and its approvals, whatever the step.
LEMMA BackingKept ==
  ASSUME TypeOK, [Next]_vars, NEW k, NEW r \in For(k), Backing(r)
  PROVE  r \in For(k)' /\ Backing(r)'
<1>1. r \in References /\ state[r] # "none" /\ KeyOf(r) = k
  BY DEF For
<1>2. request'[r] = request[r] /\ state'[r] # "none" /\ request[r].approvalsRequired \in Nat
  BY <1>1, RequestKept DEF TypeOK, Columns
<1>3. /\ Cardinality(Approvals(r)) \in Nat /\ Cardinality(Approvals(r)') \in Nat
      /\ Cardinality(Approvals(r)') >= Cardinality(Approvals(r))
  BY <1>1, ApprovalsGrow
<1>4. KeyOf(r)' = k
  BY <1>1, <1>2 DEF KeyOf
<1>5. Backing(r)'
  BY <1>2, <1>3 DEF Backing
<1>. QED  BY <1>1, <1>2, <1>4, <1>5 DEF For

LEMMA LinkedKept ==
  ASSUME TypeOK, [Next]_vars, NEW k, NEW row, Linked(k, row)
  PROVE  Linked(k, row)'
BY BackingKept DEF Linked

\* When a pass commits, the requests are as before.
LEMMA LinkedCommitted ==
  ASSUME UNCHANGED workflowVars, NEW k, NEW row, Linked(k, row)
  PROVE  Linked(k, row)'
<1>1. state' = state /\ request' = request /\ steps' = steps
  BY DEF workflowVars
<1>. QED  BY <1>1 DEF Linked, For, KeyOf, Backing, Approvals

\* How the workflow changes a grant: revoke dates the grants of its request.
LEMMA GrantStep ==
  ASSUME TypeOK, [Next]_vars, NEW k \in Key
  PROVE  \/ grant'[k] = grant[k]
         \/ \E w \in Workers, r \in References :
              /\ Revoke(w) /\ grant[k].request = r /\ state'[r] = "revoked"
              /\ \A q \in References \ {r} : state'[q] = state[q]
              /\ grant'[k] = [grant[k] EXCEPT !.revokedAt = now]
<1>1. CASE \E w \in Workers : Revoke(w)
  <2>1. PICK w \in Workers : Revoke(w)
    BY <1>1
  <2>2. PICK r \in References :
          /\ state' = [state EXCEPT ![r] = "revoked"]
          /\ grant' = [x \in Key |-> IF grant[x].request = r /\ grant[x].revokedAt = Unset
                                     THEN [grant[x] EXCEPT !.revokedAt = now] ELSE grant[x]]
    BY <2>1 DEF Revoke
  <2>3. state'[r] = "revoked" /\ \A q \in References \ {r} : state'[q] = state[q]
    BY <2>2 DEF TypeOK
  <2>. QED  BY <2>1, <2>2, <2>3
<1>2. CASE ~ \E w \in Workers : Revoke(w)
  BY <1>2 DEF Next, WorkerStep, CheckForm, Submit, FetchToDecide, CheckDecision, ReadPrevious,
       RecordDecision, FetchToHandOff, HandOff, RollBack, ExpireDue, Tick, vars
<1>. QED  BY <1>1, <1>2

LEMMA GrantsLinkedNext ==
  ASSUME TypeOK, PassTypes, RowsLinked, [ReconcileNext]_allVars, NEW k \in Key
  PROVE  Linked(k, grant[k])'
<1>1. CASE [Next]_vars
  <2>1. PICK row : row = grant[k]
    OBVIOUS
  <2>2. row \in Grant /\ Linked(k, row)
    BY <2>1 DEF TypeOK, RowsLinked
  <2>3. CASE grant'[k] = grant[k]
    BY <1>1, <2>1, <2>2, <2>3, LinkedKept DEF Linked
  <2>4. CASE grant'[k] = [grant[k] EXCEPT !.revokedAt = now] /\ grant[k].request \in References
    <3>1. PICK new : new = [row EXCEPT !.revokedAt = now]
      OBVIOUS
    <3>2. /\ new.origin = row.origin /\ new.request = row.request /\ new.listed = row.listed
      BY <2>2, <3>1 DEF Grant
    <3>3. row.request # NoRequest
      BY <2>1, <2>4, ReconcileAssumption
    <3>4. Linked(k, new)
      BY <2>2, <3>2, <3>3 DEF Linked
    <3>. QED  BY <1>1, <2>1, <2>4, <3>1, <3>4, LinkedKept DEF Linked
  <2>. QED  BY <1>1, <2>3, <2>4, GrantStep
<1>2. CASE FinishPass /\ UNCHANGED <<workflowVars, now>>
  <2>1. PICK row : row = grant'[k]
    OBVIOUS
  <2>2. Linked(k, row)
    <3>1. CASE k \in DOMAIN pass.draft
      BY <1>2, <2>1, <3>1, PassCommits DEF RowsLinked
    <3>2. CASE grant'[k] = grant[k]
      BY <2>1, <3>2 DEF RowsLinked
    <3>3. CASE grant'[k] = [grant[k] EXCEPT !.absent = TRUE]
      <4>1. /\ row.origin = grant[k].origin /\ row.request = grant[k].request
            /\ row.listed = grant[k].listed /\ row.revokedAt = grant[k].revokedAt
        BY <2>1, <3>3 DEF TypeOK, Grant
      <4>. QED  BY <4>1 DEF RowsLinked, Linked
    <3>. QED  BY <1>2, <3>1, <3>2, <3>3, PassCommits
  <2>. QED  BY <1>2, <2>1, <2>2, LinkedCommitted DEF Linked
<1>. QED  BY <1>1, <1>2, ReconcileStep

\* What a pass fetched for a record gives a row that is linked as it should be.
LEMMA FetchedIsLinked ==
  ASSUME TypeOK, Backed, PassTypes, RowsLinked, NEW k \in Key, FetchGrant(k)
  PROVE  (Linked(pass.hand.key, InHand))'
<1>1. PICK r \in References \cup {NoRequest}, end \in PlatformEnds :
              /\ r # NoRequest => r \in Matching(k) /\ grant[k].request = NoRequest
              /\ pass'.hand = [key |-> k, row |-> grant[k], matched |-> r,
                               until |-> Until(k, r, end)]
  BY PassFetches
<1>2. PICK row : row = Confirmed(grant[k], r, Until(k, r, end))
  OBVIOUS
<1>3. pass'.hand.key = k /\ InHand' = row
  BY <1>1, <1>2 DEF InHand, Confirmed
<1>4. grant[k] \in Grant /\ Until(k, r, end) \in Days
  BY UntilType DEF TypeOK
<1>5. Linked(k, grant[k])
  BY DEF RowsLinked
<1>6. Linked(k, row)
  <2>1. CASE r = NoRequest
    <3>1. /\ row.listed /\ row.origin = grant[k].origin /\ row.request = grant[k].request
          /\ row.revokedAt = grant[k].revokedAt
      BY <1>2, <1>4, <2>1 DEF Confirmed, Grant
    <3>. QED  BY <1>5, <3>1 DEF Linked
  <2>2. CASE r # NoRequest
    <3>1. r \in References /\ r \in For(k) /\ state[r] \in {"approved", "provisioned"}
      BY <1>1, <2>2, MatchingFor
    <3>2. Backing(r)
      BY <3>1 DEF Backed, EnoughApprovals, Granted, Backing
    <3>3. row.origin = "approved" /\ row.request = r /\ row.listed
      BY <1>2, <1>4, <2>2, ConfirmedType
    <3>. QED  BY <2>2, <3>1, <3>2, <3>3 DEF Linked
  <2>. QED  BY <2>1, <2>2
<1>7. [Next]_vars
  BY DEF FetchGrant
<1>8. Linked(k, row)'
  BY <1>6, <1>7, LinkedKept
<1>. QED  BY <1>3, <1>8 DEF Linked

LEMMA DraftLinkedNext ==
  ASSUME TypeOK, Backed, PassTypes, RowsLinked, [ReconcileNext]_allVars, pass' # NoPass,
         NEW k \in DOMAIN pass'.draft
  PROVE  Linked(k, pass.draft[k])'
<1> SUFFICES \E row : row = pass'.draft[k] /\ Linked(k, row)
  <2>1. [Next]_vars
    BY ReconcileStep DEF FinishPass
  <2>2. ASSUME NEW row, row = pass'.draft[k], Linked(k, row)
        PROVE  Linked(k, pass.draft[k])'
    BY <2>1, <2>2, LinkedKept DEF Linked
  <2>. QED  BY <2>2
<1>1. CASE \/ \E x \in Key : PlatformAdds(x) \/ PlatformRemoves(x)
           \/ WorkflowStep
  <2>1. \E K : Unsettle(K)
    BY <1>1 DEF PlatformAdds, PlatformRemoves, WorkflowStep
  <2>2. pass # NoPass /\ pass'.draft = pass.draft
    BY <2>1, PassUnsettled
  <2>. QED  BY <2>2 DEF RowsLinked
<1>2. CASE \E x \in Key : FetchGrant(x)
  <2>1. pass # NoPass /\ pass'.draft = pass.draft
    BY <1>2, PassFetches
  <2>. QED  BY <2>1 DEF RowsLinked
<1>3. CASE \E resource \in Resources : StartPass(resource)
  BY <1>3, PassStarts
<1>4. CASE SaveGrant
  <2>1. /\ pass # NoPass /\ pass.pc = "fetched"
        /\ DOMAIN pass'.draft = DOMAIN pass.draft \cup {pass.hand.key}
        /\ pass'.draft[k] = IF k = pass.hand.key THEN InHand ELSE pass.draft[k]
    BY <1>4, PassSaves
  <2>. QED  BY <2>1 DEF RowsLinked
<1>5. CASE FinishPass \/ AbortPass
  BY <1>5 DEF FinishPass, AbortPass
<1>6. CASE UNCHANGED allVars
  BY <1>6 DEF allVars, reconcileVars, RowsLinked
<1>. QED  BY <1>1, <1>2, <1>3, <1>4, <1>5, <1>6, PassGoesOn

\* What a pass has in hand it has just fetched, or it had before the step.
LEMMA HandKept ==
  ASSUME PassTypes, [ReconcileNext]_allVars, pass'.pc = "fetched", ~ \E x \in Key : FetchGrant(x)
  PROVE  pass'.hand = pass.hand /\ pass.pc = "fetched"
<1>1. CASE \/ \E x \in Key : PlatformAdds(x) \/ PlatformRemoves(x)
           \/ WorkflowStep
  <2>1. \E K : Unsettle(K)
    BY <1>1 DEF PlatformAdds, PlatformRemoves, WorkflowStep
  <2>2. pass # NoPass
    BY <2>1, PassUnsettled DEF NoPass
  <2>. QED  BY <2>1, <2>2, PassUnsettled
<1>2. CASE \E resource \in Resources : StartPass(resource)
  BY <1>2, PassStarts
<1>3. CASE SaveGrant
  BY <1>3, PassSaves
<1>4. CASE FinishPass \/ AbortPass
  BY <1>4 DEF FinishPass, AbortPass, NoPass
<1>5. CASE UNCHANGED allVars
  BY <1>5 DEF allVars, reconcileVars
<1>. QED  BY <1>1, <1>2, <1>3, <1>4, <1>5, PassGoesOn

LEMMA HandLinkedNext ==
  ASSUME TypeOK, Backed, PassTypes, RowsLinked, [ReconcileNext]_allVars, pass'.pc = "fetched"
  PROVE  (Linked(pass.hand.key, InHand))'
<1>1. CASE \E x \in Key : FetchGrant(x)
  BY <1>1, FetchedIsLinked
<1>2. CASE pass'.hand = pass.hand /\ pass.pc = "fetched"
  <2>1. [Next]_vars
    BY <1>2, ReconcileStep DEF FinishPass
  <2>2. PICK k, row : k = pass.hand.key /\ row = InHand
    OBVIOUS
  <2>3. Linked(k, row)
    BY <1>2, <2>2 DEF RowsLinked
  <2>4. Linked(k, row)'
    BY <2>1, <2>3, LinkedKept
  <2>5. pass'.hand.key = k /\ InHand' = row
    BY <1>2, <2>2 DEF InHand
  <2>. QED  BY <2>4, <2>5 DEF Linked
<1>3. CASE ~ \E x \in Key : FetchGrant(x)
  BY <1>2, <1>3, HandKept
<1>. QED  BY <1>1, <1>2, <1>3

\* The approvals behind a request are as many after a pass as before it.
LEMMA ReconcileBackedNext ==
  ASSUME TypeOK, Backed, [ReconcileNext]_allVars
  PROVE  Backed'
<1>1. CASE [Next]_vars
  BY <1>1, BackedNext
<1>2. CASE FinishPass /\ UNCHANGED <<workflowVars, now>>
  <2>1. state' = state /\ request' = request /\ steps' = steps /\ worker' = worker
    BY <1>2 DEF workflowVars
  <2>. QED  BY <2>1 DEF Backed, EnoughApprovals, Approvals
<1>. QED  BY <1>1, <1>2, ReconcileStep

LEMMA ReconcileBacked == ReconcileSpec => []Backed
<1>1. TypeOK /\ Backed /\ [ReconcileNext]_allVars => Backed'
  BY ReconcileBackedNext
<1>2. ReconcileInit => Backed
  BY BackedInit DEF ReconcileInit
<1>. QED  BY <1>1, <1>2, ReconcileTypes, PTL DEF ReconcileSpec

LEMMA RowsStayLinked == ReconcileSpec => []RowsLinked
<1>1. ReconcileInit => RowsLinked
  BY DEF ReconcileInit, Init, RowsLinked, Linked, NoGrant, NoPass
<1>2. TypeOK /\ PassTypes /\ Backed /\ RowsLinked /\ [ReconcileNext]_allVars => RowsLinked'
  BY GrantsLinkedNext, DraftLinkedNext, HandLinkedNext DEF RowsLinked
<1>. QED  BY <1>1, <1>2, ReconcileTypes, ReconcileBacked, PTL DEF ReconcileSpec

(***************************************************************************)
(* A grant that counts as approved is always linked to a request for       *)
(* exactly that access with all its approvals, however many workers the    *)
(* pass overlaps with and whatever they submit, decide and revoke.         *)
(***************************************************************************)
THEOREM GovernedMeansApproved == ReconcileSpec => []GovernedGrantsAreBacked
<1>1. RowsLinked => GovernedGrantsAreBacked
  BY DEF RowsLinked, Linked, GovernedGrantsAreBacked
<1>. QED  BY <1>1, RowsStayLinked, PTL
------------------------------------------------------------------------------
\* Every change of the platform, or of the requests, unsettles what it changes.
LEMMA UnsettlingStep ==
  ASSUME \/ \E k \in Key : PlatformAdds(k) \/ PlatformRemoves(k)
         \/ WorkflowStep
  PROVE  \E K : Unsettle(K) /\ \A k : k \notin K => (k \in platform' <=> k \in platform)
<1>1. CASE WorkflowStep
  <2>1. platform' = platform /\ \E K : Unsettle(K)
    BY <1>1 DEF WorkflowStep
  <2>. QED  BY <2>1
<1>2. CASE \E k \in Key : PlatformAdds(k) \/ PlatformRemoves(k)
  <2>1. PICK k \in Key : PlatformAdds(k) \/ PlatformRemoves(k)
    BY <1>2
  <2>2. Unsettle({k}) /\ \A x : x \notin {k} => (x \in platform' <=> x \in platform)
    BY <2>1 DEF PlatformAdds, PlatformRemoves
  <2>. QED  BY <2>2
<1>. QED  BY <1>1, <1>2

LEMMA TrackedNext ==
  ASSUME TypeOK, PassTypes, Tracked, [ReconcileNext]_allVars
  PROVE  Tracked'
<1> SUFFICES ASSUME pass' # NoPass
             PROVE  Tracked'
  BY DEF Tracked
<1>1. CASE \/ \E k \in Key : PlatformAdds(k) \/ PlatformRemoves(k)
           \/ WorkflowStep
  <2>1. PICK K : Unsettle(K) /\ \A k : k \notin K => (k \in platform' <=> k \in platform)
    BY <1>1, UnsettlingStep
  <2>2. /\ pass # NoPass /\ settled' = settled \ K
        /\ pass'.pc = pass.pc /\ pass'.left = pass.left /\ pass'.reported = pass.reported
        /\ pass'.resource = pass.resource /\ pass'.draft = pass.draft
        /\ pass'.hand = pass.hand /\ pass'.stable = pass.stable \ K
    BY <2>1, PassUnsettled
  <2>3. On(pass.resource)' = On(pass.resource)
    BY <2>2 DEF On
  <2>. QED  BY <2>1, <2>2, <2>3 DEF Tracked
<1>2. CASE \E k \in Key : FetchGrant(k)
  <2>1. PICK k \in Key : FetchGrant(k)
    BY <1>2
  <2>2. /\ pass # NoPass /\ pass.pc = "listing" /\ k \in pass.left
        /\ pass'.pc = "fetched"
        /\ pass'.left = pass.left \ {k} /\ pass'.reported = pass.reported
        /\ pass'.resource = pass.resource /\ pass'.draft = pass.draft
        /\ pass'.stable = pass.stable /\ pass'.hand.key = k
    BY <2>1, PassFetches
  <2>3. settled' = settled /\ platform' = platform
    BY <2>1 DEF FetchGrant
  <2>4. On(pass.resource)' = On(pass.resource)
    BY <2>2 DEF On
  <2>5. (pass.reported \ pass.left) = (pass'.reported \ pass'.left) \ {k}
    BY <2>2 DEF Tracked
  <2>. QED  BY <2>2, <2>3, <2>4, <2>5 DEF Tracked
<1>3. CASE \E resource \in Resources : StartPass(resource)
  <2>1. PICK resource \in Resources : StartPass(resource)
    BY <1>3
  <2>2. /\ pass'.pc = "listing" /\ pass'.resource = resource /\ pass'.stable = On(resource)
        /\ pass'.reported = platform \cap On(resource) /\ pass'.left = platform \cap On(resource)
        /\ DOMAIN pass'.draft = {}
    BY <2>1, PassStarts
  <2>3. settled' = settled /\ platform' = platform
    BY <2>1 DEF StartPass
  <2>4. On(pass.resource)' = On(resource)
    BY <2>2 DEF On
  <2>. QED  BY <2>2, <2>3, <2>4 DEF Tracked
<1>4. CASE SaveGrant
  <2>1. /\ pass # NoPass /\ pass.pc = "fetched" /\ InHand.listed /\ ~InHand.absent
        /\ pass'.pc = "listing"
        /\ pass'.left = pass.left /\ pass'.reported = pass.reported
        /\ pass'.resource = pass.resource /\ pass'.stable = pass.stable
        /\ DOMAIN pass'.draft = DOMAIN pass.draft \cup {pass.hand.key}
        /\ \A k \in DOMAIN pass'.draft :
             pass'.draft[k] = IF k = pass.hand.key THEN InHand ELSE pass.draft[k]
    BY <1>4, PassSaves
  <2>2. settled' = settled /\ platform' = platform
    BY <1>4 DEF SaveGrant
  <2>3. On(pass.resource)' = On(pass.resource)
    BY <2>1 DEF On
  <2>4. DOMAIN pass'.draft = pass'.reported \ pass'.left
    BY <2>1 DEF Tracked
  <2>5. \A k \in DOMAIN pass'.draft : pass'.draft[k].listed /\ ~pass'.draft[k].absent
    BY <2>1 DEF Tracked
  <2>. QED  BY <2>1, <2>2, <2>3, <2>4, <2>5 DEF Tracked
<1>5. CASE FinishPass \/ AbortPass
  BY <1>5 DEF FinishPass, AbortPass
<1>6. CASE UNCHANGED allVars
  BY <1>6 DEF allVars, reconcileVars, Tracked, On
<1>. QED  BY <1>1, <1>2, <1>3, <1>4, <1>5, <1>6, PassGoesOn

LEMMA SeenPresentNext ==
  ASSUME TypeOK, PassTypes, Tracked, SeenPresent, [ReconcileNext]_allVars
  PROVE  SeenPresent'
<1> SUFFICES ASSUME NEW k \in settled', k \in platform'
             PROVE  grant'[k].listed /\ ~grant'[k].absent
  BY DEF SeenPresent
<1>1. CASE FinishPass
  <2>1. platform' = platform /\ k \in Key
    BY <1>1 DEF FinishPass, PassTypes
  <2>2. /\ pass # NoPass /\ pass.pc = "listing" /\ pass.left = {}
        /\ settled' = settled \cup pass.stable
        /\ k \in DOMAIN pass.draft => grant'[k] = pass.draft[k]
        /\ k \notin DOMAIN pass.draft =>
             \/ grant'[k] = grant[k]
             \/ k \in On(pass.resource) \ pass.reported
    BY <1>1, <2>1, PassCommits
  <2>3. DOMAIN pass.draft = pass.reported
    BY <2>2 DEF Tracked
  <2>4. CASE k \in pass.stable
    <3>1. k \in pass.reported
      BY <2>1, <2>2, <2>4 DEF Tracked
    <3>. QED  BY <2>2, <2>3, <3>1 DEF Tracked
  <2>5. CASE k \notin pass.stable
    <3>1. k \in settled /\ k \notin On(pass.resource)
      BY <2>2, <2>5 DEF Tracked
    <3>2. k \notin DOMAIN pass.draft
      BY <2>2, <2>3, <3>1 DEF Tracked
    <3>. QED  BY <2>1, <2>2, <3>1, <3>2 DEF SeenPresent
  <2>. QED  BY <2>4, <2>5
<1>2. CASE ~FinishPass
  <2>1. [Next]_vars
    BY <1>2, ReconcileStep
  <2>2. k \in settled /\ k \in platform
    <3>1. CASE \/ \E x \in Key : PlatformAdds(x) \/ PlatformRemoves(x)
               \/ WorkflowStep
      <4>1. PICK K : Unsettle(K) /\ \A x : x \notin K => (x \in platform' <=> x \in platform)
        BY <3>1, UnsettlingStep
      <4>. QED  BY <4>1 DEF Unsettle
    <3>2. CASE UNCHANGED <<settled, platform>>
      BY <3>2
    <3>. QED  BY <1>2, <3>1, <3>2, PassGoesOn
                 DEF FetchGrant, StartPass, SaveGrant, AbortPass, allVars, reconcileVars
  <2>3. grant[k].listed /\ ~grant[k].absent /\ k \in Key
    BY <2>2 DEF SeenPresent, PassTypes
  <2>4. grant[k] \in Grant
    BY <2>3 DEF TypeOK
  <2>5. CASE grant'[k] = grant[k]
    BY <2>3, <2>5
  <2>6. CASE grant'[k] = [grant[k] EXCEPT !.revokedAt = now]
    BY <2>3, <2>4, <2>6 DEF Grant
  <2>. QED  BY <2>1, <2>3, <2>5, <2>6, GrantStep
<1>. QED  BY <1>1, <1>2

LEMMA SeenStaysPresent == ReconcileSpec => [](Tracked /\ SeenPresent)
<1>1. ReconcileInit => Tracked /\ SeenPresent
  BY DEF ReconcileInit, Tracked, SeenPresent
<1>2. TypeOK /\ PassTypes /\ Tracked /\ SeenPresent /\ [ReconcileNext]_allVars
        => (Tracked /\ SeenPresent)'
  BY TrackedNext, SeenPresentNext
<1>. QED  BY <1>1, <1>2, ReconcileTypes, PTL DEF ReconcileSpec

(***************************************************************************)
(* "Does anyone hold access that was never approved?": for any number of   *)
(* workers, resources and passes, an access no request was ever approved   *)
(* for is reported by ACC-001 once a pass has seen it.                     *)
(***************************************************************************)
THEOREM NeverApprovedNeverHides == ReconcileSpec => []NeverApprovedIsReported
<1>1. TypeOK /\ PassTypes /\ RowsLinked /\ SeenPresent => NeverApprovedIsReported
  <2> SUFFICES ASSUME TypeOK, PassTypes, RowsLinked, SeenPresent,
                      NEW k \in settled \cap platform, \A r \in For(k) : ~Backing(r),
                      NEW Anchored \in SUBSET Principals, k[1] \in Anchored
               PROVE  k \in UnapprovedAccess(Anchored)
    BY DEF NeverApprovedIsReported
  <2>1. k \in Key /\ grant[k].listed /\ ~grant[k].absent
    BY DEF PassTypes, SeenPresent
  <2>2. grant[k].request = NoRequest
    BY <2>1 DEF RowsLinked, Linked
  <2>3. grant[k].origin = "discovered" /\ grant[k].revokedAt = Unset
    BY <2>1, <2>2 DEF RowsLinked, Linked, TypeOK, Grant
  <2>. QED  BY <2>1, <2>3 DEF UnapprovedAccess, InForce
<1>. QED  BY <1>1, ReconcileTypes, RowsStayLinked, SeenStaysPresent, PTL
------------------------------------------------------------------------------
\* A row carries the end of the request it is linked to, and is revoked only with it.
Dated(k, row) ==
  row.request # NoRequest =>
    /\ row.revokedAt # Unset => state[row.request] = "revoked"
    /\ k \notin early => /\ row.expiresAt = dates[row.request].expiresAt
                         /\ state[row.request] \in {"provisioned", "expired", "revoked"}

RowsDated ==
  /\ \A k \in Key : Dated(k, grant[k])
  /\ pass # NoPass => \A k \in DOMAIN pass.draft : Dated(k, pass.draft[k])
  /\ pass.pc = "fetched" => Dated(pass.hand.key, InHand)

\* What a lone worker cannot bring back: a request handed off or revoked keeps its end.
LEMMA EndKept ==
  ASSUME TypeOK, UpToDate, [Next]_vars, NEW r \in References,
         state[r] \in {"provisioned", "expired", "revoked"}
  PROVE  /\ state'[r] \in {"provisioned", "expired", "revoked"}
         /\ state[r] = "revoked" => state'[r] = "revoked"
         /\ dates'[r].expiresAt = dates[r].expiresAt
<1>1. CASE \E w \in Workers : Submit(w)
  BY <1>1 DEF Submit, TypeOK
<1>2. CASE \E w \in Workers : RecordDecision(w)
  <2>1. PICK w \in Workers : RecordDecision(w)
    BY <1>2
  <2>2. state[worker[w].reference] = "pending"
    BY <2>1 DEF RecordDecision, UpToDate, Current, InTransaction, Open
  <2>. QED  BY <2>1, <2>2 DEF RecordDecision, TypeOK
<1>3. CASE \E w \in Workers : HandOff(w)
  <2>1. PICK w \in Workers : HandOff(w)
    BY <1>3
  <2>2. state[worker[w].reference] = "approved"
    BY <2>1 DEF HandOff, HandOffAllowed, UpToDate, Current, Open
  <2>. QED  BY <2>1, <2>2 DEF HandOff, TypeOK
<1>4. CASE \E w \in Workers : Revoke(w)
  BY <1>4 DEF Revoke, TypeOK
<1>5. CASE ExpireDue
  BY <1>5 DEF ExpireDue, Due, TypeOK
<1>6. CASE UNCHANGED <<state, dates>>
  BY <1>6
<1>. QED
  BY <1>1, <1>2, <1>3, <1>4, <1>5, <1>6
     DEF Next, WorkerStep, CheckForm, FetchToDecide, CheckDecision, ReadPrevious,
         FetchToHandOff, RollBack, Tick, vars

LEMMA DatedKept ==
  ASSUME TypeOK, UpToDate, [Next]_vars, early \subseteq early', NEW k, NEW row,
         Dated(k, row), Linked(k, row)
  PROVE  Dated(k, row)'
<1> SUFFICES ASSUME row.request # NoRequest
             PROVE  Dated(k, row)'
  BY DEF Dated
<1> DEFINE r == row.request
<1>1. r \in References
  BY DEF Linked, For
<1>2. row.revokedAt # Unset => state'[r] = "revoked"
  BY <1>1, EndKept DEF Dated
<1>3. ASSUME k \notin early'
      PROVE  /\ row.expiresAt = dates'[r].expiresAt
             /\ state'[r] \in {"provisioned", "expired", "revoked"}
  <2>1. k \notin early
    BY <1>3
  <2>. QED  BY <1>1, <2>1, EndKept DEF Dated
<1>. QED  BY <1>2, <1>3 DEF Dated

LEMMA EarlyGrows ==
  ASSUME [ReconcileNext]_allVars
  PROVE  early \subseteq early'
BY DEF ReconcileNext, allVars, reconcileVars, WorkflowStep, PlatformAdds, PlatformRemoves,
       StartPass, FetchGrant, SaveGrant, FinishPass, AbortPass

LEMMA GrantsDatedNext ==
  ASSUME TypeOK, PassTypes, UpToDate, RowsLinked, RowsDated, [ReconcileNext]_allVars,
         NEW k \in Key
  PROVE  Dated(k, grant[k])'
<1>1. CASE [Next]_vars
  <2>1. PICK row : row = grant[k]
    OBVIOUS
  <2>2. row \in Grant /\ Linked(k, row) /\ Dated(k, row)
    BY <2>1 DEF TypeOK, RowsLinked, RowsDated
  <2>3. Dated(k, row)'
    BY <1>1, <2>2, EarlyGrows, DatedKept
  <2>4. CASE grant'[k] = grant[k]
    BY <2>1, <2>3, <2>4 DEF Dated
  <2>5. CASE \E r \in References : /\ grant[k].request = r /\ state'[r] = "revoked"
                                   /\ grant'[k] = [grant[k] EXCEPT !.revokedAt = now]
    <3>1. PICK new : new = [row EXCEPT !.revokedAt = now]
      OBVIOUS
    <3>2. new.request = row.request /\ new.expiresAt = row.expiresAt
      BY <2>2, <3>1 DEF Grant
    <3>3. Dated(k, new)'
      BY <2>1, <2>3, <2>5, <3>2 DEF Dated
    <3>. QED  BY <2>1, <2>5, <3>1, <3>3 DEF Dated
  <2>. QED  BY <1>1, <2>4, <2>5, GrantStep
<1>2. CASE FinishPass /\ UNCHANGED <<workflowVars, now>>
  <2>1. state' = state /\ dates' = dates /\ early' = early
    BY <1>2 DEF workflowVars, FinishPass
  <2>2. PICK row : row = grant'[k]
    OBVIOUS
  <2>3. Dated(k, row)
    <3>1. CASE k \in DOMAIN pass.draft
      BY <1>2, <2>2, <3>1, PassCommits DEF RowsDated
    <3>2. CASE grant'[k] = grant[k]
      BY <2>2, <3>2 DEF RowsDated
    <3>3. CASE grant'[k] = [grant[k] EXCEPT !.absent = TRUE]
      <4>1. /\ row.request = grant[k].request /\ row.expiresAt = grant[k].expiresAt
            /\ row.revokedAt = grant[k].revokedAt
        BY <2>2, <3>3 DEF TypeOK, Grant
      <4>. QED  BY <4>1 DEF RowsDated, Dated
    <3>. QED  BY <1>2, <3>1, <3>2, <3>3, PassCommits
  <2>. QED  BY <2>1, <2>2, <2>3 DEF Dated
<1>. QED  BY <1>1, <1>2, ReconcileStep

\* A request that a pass matches after its hand-off gives the row its end.
LEMMA FetchedIsDated ==
  ASSUME TypeOK, PassTypes, RowsLinked, RowsDated, NEW k \in Key, FetchGrant(k)
  PROVE  (Dated(pass.hand.key, InHand))'
<1>1. PICK r \in References \cup {NoRequest}, end \in PlatformEnds :
              /\ r # NoRequest => r \in Matching(k) /\ grant[k].request = NoRequest
              /\ pass'.hand = [key |-> k, row |-> grant[k], matched |-> r,
                               until |-> Until(k, r, end)]
              /\ early' = IF r # NoRequest /\ state[r] = "approved" THEN early \cup {k} ELSE early
  BY PassFetches
<1>2. PICK until : until = Until(k, r, end)
  OBVIOUS
<1>3. PICK row : row = Confirmed(grant[k], r, until)
  OBVIOUS
<1>4. pass'.hand.key = k /\ InHand' = row
  BY <1>1, <1>2, <1>3 DEF InHand, Confirmed
<1>5. /\ row.request = (IF r = NoRequest THEN grant[k].request ELSE r)
      /\ row.expiresAt = until /\ row.revokedAt = grant[k].revokedAt
  BY <1>3 DEF Confirmed, TypeOK, Grant
<1>6. Linked(k, grant[k]) /\ Dated(k, grant[k])
  BY DEF RowsLinked, RowsDated
<1>7. state' = state /\ dates' = dates
  BY DEF FetchGrant, vars
<1>8. CASE r = NoRequest
  <2>1. grant[k].request # NoRequest => until = grant[k].expiresAt
    BY <1>2, <1>6, <1>8 DEF Until, Linked
  <2>2. Dated(k, row)
    BY <1>5, <1>6, <1>8, <2>1 DEF Dated
  <2>. QED  BY <1>1, <1>4, <1>7, <1>8, <2>2 DEF Dated
<1>9. CASE r # NoRequest
  <2>1. state[r] \in {"approved", "provisioned"}
    BY <1>1, <1>9, MatchingFor
  <2>2. row.revokedAt = Unset /\ row.request = r /\ row.expiresAt = dates[r].expiresAt
    BY <1>1, <1>2, <1>5, <1>6, <1>9 DEF Linked, Until
  <2>3. k \notin early' => state[r] = "provisioned"
    BY <1>1, <1>9, <2>1
  <2>4. Dated(k, row)'
    BY <1>7, <2>2, <2>3 DEF Dated
  <2>. QED  BY <1>4, <2>4 DEF Dated
<1>. QED  BY <1>8, <1>9

LEMMA DraftDatedNext ==
  ASSUME TypeOK, PassTypes, UpToDate, RowsLinked, RowsDated, [ReconcileNext]_allVars,
         pass' # NoPass, NEW k \in DOMAIN pass'.draft
  PROVE  Dated(k, pass.draft[k])'
<1> SUFFICES \E row : row = pass'.draft[k] /\ Dated(k, row) /\ Linked(k, row)
  <2>1. [Next]_vars
    BY ReconcileStep DEF FinishPass
  <2>2. ASSUME NEW row, row = pass'.draft[k], Dated(k, row), Linked(k, row)
        PROVE  Dated(k, pass.draft[k])'
    BY <2>1, <2>2, EarlyGrows, DatedKept DEF Dated
  <2>. QED  BY <2>2
<1>1. CASE \/ \E x \in Key : PlatformAdds(x) \/ PlatformRemoves(x)
           \/ WorkflowStep
  <2>1. \E K : Unsettle(K)
    BY <1>1 DEF PlatformAdds, PlatformRemoves, WorkflowStep
  <2>2. pass # NoPass /\ pass'.draft = pass.draft
    BY <2>1, PassUnsettled
  <2>. QED  BY <2>2 DEF RowsLinked, RowsDated
<1>2. CASE \E x \in Key : FetchGrant(x)
  <2>1. pass # NoPass /\ pass'.draft = pass.draft
    BY <1>2, PassFetches
  <2>. QED  BY <2>1 DEF RowsLinked, RowsDated
<1>3. CASE \E resource \in Resources : StartPass(resource)
  BY <1>3, PassStarts
<1>4. CASE SaveGrant
  <2>1. /\ pass # NoPass /\ pass.pc = "fetched"
        /\ DOMAIN pass'.draft = DOMAIN pass.draft \cup {pass.hand.key}
        /\ pass'.draft[k] = IF k = pass.hand.key THEN InHand ELSE pass.draft[k]
    BY <1>4, PassSaves
  <2>. QED  BY <2>1 DEF RowsLinked, RowsDated
<1>5. CASE FinishPass \/ AbortPass
  BY <1>5 DEF FinishPass, AbortPass
<1>6. CASE UNCHANGED allVars
  BY <1>6 DEF allVars, reconcileVars, RowsLinked, RowsDated
<1>. QED  BY <1>1, <1>2, <1>3, <1>4, <1>5, <1>6, PassGoesOn

LEMMA HandDatedNext ==
  ASSUME TypeOK, PassTypes, UpToDate, RowsLinked, RowsDated, [ReconcileNext]_allVars,
         pass'.pc = "fetched"
  PROVE  (Dated(pass.hand.key, InHand))'
<1>1. CASE \E x \in Key : FetchGrant(x)
  BY <1>1, FetchedIsDated
<1>2. CASE ~ \E x \in Key : FetchGrant(x)
  <2>1. pass'.hand = pass.hand /\ pass.pc = "fetched"
    BY <1>2, HandKept
  <2>2. [Next]_vars
    BY <2>1, ReconcileStep DEF FinishPass
  <2>3. PICK k, row : k = pass.hand.key /\ row = InHand
    OBVIOUS
  <2>4. Linked(k, row) /\ Dated(k, row)
    BY <2>1, <2>3 DEF RowsLinked, RowsDated
  <2>5. Dated(k, row)'
    BY <2>2, <2>4, EarlyGrows, DatedKept
  <2>6. pass'.hand.key = k /\ InHand' = row
    BY <2>1, <2>3 DEF InHand
  <2>. QED  BY <2>5, <2>6 DEF Dated
<1>. QED  BY <1>1, <1>2

LEMMA ReconcileUpToDateNext ==
  ASSUME TypeOK, OneWorker, UpToDate, [ReconcileNext]_allVars
  PROVE  UpToDate'
<1>1. CASE [Next]_vars
  BY <1>1, UpToDateNext
<1>2. CASE FinishPass /\ UNCHANGED <<workflowVars, now>>
  <2>1. state' = state /\ request' = request /\ steps' = steps /\ worker' = worker
    BY <1>2 DEF workflowVars
  <2>. QED  BY <2>1 DEF UpToDate, Current, InTransaction, Deciders, SameAccess, KeyOf
<1>. QED  BY <1>1, <1>2, ReconcileStep

(***************************************************************************)
(* "Did the access that expired on paper actually go away?": with one      *)
(* worker, whatever the pass overlaps with, access that is still on the    *)
(* platform after the end of its only request is reported, by ACC-002 with *)
(* the request's end or by ACC-001.                                        *)
(***************************************************************************)
THEOREM ExpiredNeverHides ==
  ASSUME OneWorker
  PROVE  ReconcileSpec => []ExpiredIsReported
<1>1. ReconcileInit => UpToDate /\ RowsDated
  BY UpToDateInit DEF ReconcileInit, Init, RowsDated, Dated, NoGrant, NoPass
<1>2. TypeOK /\ UpToDate /\ [ReconcileNext]_allVars => UpToDate'
  BY ReconcileUpToDateNext
<1>3. TypeOK /\ PassTypes /\ UpToDate /\ RowsLinked /\ RowsDated /\ [ReconcileNext]_allVars
        => RowsDated'
  BY GrantsDatedNext, DraftDatedNext, HandDatedNext DEF RowsDated
<1>4. TypeOK /\ PassTypes /\ RowsLinked /\ RowsDated /\ SeenPresent => ExpiredIsReported
  <2> SUFFICES ASSUME TypeOK, PassTypes, RowsLinked, RowsDated, SeenPresent,
                      NEW k \in (settled \cap platform) \ early, NEW r \in References,
                      For(k) = {r}, state[r] \in {"provisioned", "expired"},
                      dates[r].expiresAt # Unset, dates[r].expiresAt < now,
                      NEW Anchored \in SUBSET Principals, k[1] \in Anchored
               PROVE  k \in ExpiredAccessStillPresent(Anchored) \cup UnapprovedAccess(Anchored)
    BY DEF ExpiredIsReported, PastItsEnd
  <2>1. k \in Key /\ grant[k].listed /\ ~grant[k].absent
    BY DEF PassTypes, SeenPresent
  <2>2. Linked(k, grant[k]) /\ Dated(k, grant[k])
    BY <2>1 DEF RowsLinked, RowsDated
  <2>3. CASE grant[k].request = NoRequest
    <3>1. grant[k].origin = "discovered" /\ grant[k].revokedAt = Unset
      BY <2>1, <2>2, <2>3 DEF Linked, TypeOK, Grant
    <3>. QED  BY <2>1, <3>1 DEF UnapprovedAccess, InForce
  <2>4. CASE grant[k].request # NoRequest
    <3>1. grant[k].request = r
      BY <2>2, <2>4 DEF Linked
    <3>2. grant[k].revokedAt = Unset /\ grant[k].expiresAt = dates[r].expiresAt
      BY <2>2, <2>4, <3>1 DEF Dated
    <3>. QED  BY <2>1, <3>2 DEF ExpiredAccessStillPresent, StaleExpiries, InForce
  <2>. QED  BY <2>3, <2>4
<1>. QED
  BY <1>1, <1>2, <1>3, <1>4, ReconcileTypes, RowsStayLinked, SeenStaysPresent,
     PTL DEF ReconcileSpec
==============================================================================
