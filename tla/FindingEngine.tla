----------------------------- MODULE FindingEngine -----------------------------
(***************************************************************************)
(* The findings of one rule: the engine that opens and resolves them       *)
(* (rules/engine.py), the triage endpoints (api/views.py) and the export   *)
(* to the event collector (export/splunk_hec.py).                          *)
(*                                                                         *)
(* None of the three runs in a transaction, so every query is a step of    *)
(* its own and what it read can be stale when it is used.  Two evaluations *)
(* may run together: the hourly one, and the one each collection queues.   *)
(* overlaps counts how often that happened: the safety properties hold     *)
(* only until the first time, and the liveness properties say what heals   *)
(* by itself afterwards.                                                   *)
(***************************************************************************)
EXTENDS Naturals, Sequences, FiniteSets

CONSTANTS
  Subjects,     \* (account, subject_key) pairs the rule can raise
  Systems,      \* the PamSystem rows
  SystemOf,     \* [Subjects -> Systems]
  Severities,   \* what a candidate may be rated
  Scopes,       \* what an evaluation may be limited to: every system, or the one just collected
  Engines,      \* Celery workers that evaluate the rule
  BatchSize,    \* BATCH_SIZE of the export
  MaxFindings,  \* bound on the rows
  MaxChanges,   \* bound on what happens outside: conditions, capabilities, triage
  MaxOverlaps   \* bound on the tasks that start while another is under way

ASSUME EngineAssumption ==
  /\ SystemOf \in [Subjects -> Systems] /\ Systems \in Scopes /\ Scopes \subseteq SUBSET Systems
  /\ BatchSize \in Nat \ {0} /\ MaxFindings \in Nat /\ MaxChanges \in Nat /\ MaxOverlaps \in Nat

VARIABLES
  condition,   \* what the inventory says of each subject now
  covered,     \* systems whose cached capabilities the rule needs
  finding,     \* Finding rows of the rule, oldest first; reopened is history: see Reopens
  engine,      \* what each evaluation has in hand
  triage,      \* the row a triage request fetched
  export,      \* the batch an export task read
  received,    \* what the event collector last received of each row
  overlaps,    \* history: how often a task started, or a capability changed, during another
  changes      \* bound: changes from outside so far

vars == <<condition, covered, finding, engine, triage, export, received, overlaps, changes>>
------------------------------------------------------------------------------
Clear == "clear"
Active == {"open", "acknowledged", "suppressed"}
Rows == 1..Len(finding)
Sent(row) == [state |-> row.state, severity |-> row.severity]

NoRow == 0
Resting == [pc |-> "rest"]
NoTriage == [id |-> NoRow]
NoBatch == <<>>

Tasks == Cardinality({e \in Engines : engine[e] # Resting})
           + (IF triage = NoTriage THEN 0 ELSE 1) + (IF export = NoBatch THEN 0 ELSE 1)
Quiet == Tasks = 0
overlapped == overlaps > 0
\* Two tasks at a time are enough for every race here.
Begin == \/ Quiet /\ overlaps' = overlaps
         \/ Tasks = 1 /\ overlaps < MaxOverlaps /\ overlaps' = overlaps + 1
Outside == changes < MaxChanges /\ changes' = changes + 1

Init ==
  /\ condition = [s \in Subjects |-> Clear]
  /\ covered = Systems
  /\ finding = <<>>
  /\ engine = [e \in Engines |-> Resting]
  /\ triage = NoTriage /\ export = NoBatch
  /\ received = <<>>
  /\ overlaps = 0
  /\ changes = 0
------------------------------------------------------------------------------
\* A collection changes what the rule sees of an account.
ConditionChanges(s) ==
  /\ Outside
  /\ \E level \in Severities \cup {Clear} :
       level # condition[s] /\ condition' = [condition EXCEPT ![s] = level]
  /\ UNCHANGED <<covered, finding, engine, triage, export, received, overlaps>>

\* A collection rewrites the capabilities of its platform.
CapabilityChanges(y) ==
  /\ Outside /\ Begin
  /\ covered' = IF y \in covered THEN covered \ {y} ELSE covered \cup {y}
  /\ UNCHANGED <<condition, finding, engine, triage, export, received>>
------------------------------------------------------------------------------
(***************************************************************************)
(* RuleEngine.run for the rule: scope is every system, or the one system   *)
(* whose collection queued the run.  Evaluating the rule fixes how it      *)
(* rated each subject; a rule no system supports is skipped.               *)
(***************************************************************************)
StartRun(e, scope) ==
  /\ engine[e] = Resting /\ Begin
  /\ covered # {}
  /\ LET raised == {s \in Subjects : condition[s] # Clear /\ SystemOf[s] \in covered \cap scope}
     IN engine' = [engine EXCEPT ![e] =
          [pc |-> "upsert", scope |-> scope, rated |-> condition, raised |-> raised,
           todo |-> raised, subject |-> "none", id |-> NoRow, systems |-> {}, keep |-> {}]]
  /\ UNCHANGED <<condition, covered, finding, triage, export, received, changes>>

\* Mutant: a suppressed finding is not looked for.
ExistingUnsuppressed(s) ==
  {i \in Rows : finding[i].subject = s /\ finding[i].state \in {"open", "acknowledged"}}

\* Mutant: a resolved finding counts as the one to update.
ExistingResolvedToo(s) == {i \in Rows : finding[i].subject = s}

Existing(s) == {i \in Rows : finding[i].subject = s /\ finding[i].state \in Active}

\* _upsert, first half: the query for a finding that is still active.
FindExisting(e) ==
  /\ engine[e].pc = "upsert"
  /\ \E s \in engine[e].todo : \E i \in IF Existing(s) = {} THEN {NoRow} ELSE Existing(s) :
       engine' = [engine EXCEPT ![e].pc = "write", ![e].todo = @ \ {s},
                                ![e].subject = s, ![e].id = i]
  /\ UNCHANGED <<condition, covered, finding, triage, export, received, overlaps, changes>>

\* Mutant: a finding that is seen again is not marked for export.
SeenAgainQuietly(row, severity) == [row EXCEPT !.severity = severity]

\* update_fields leaves out the state: a row resolved meanwhile stays resolved.
SeenAgain(row, severity) == [row EXCEPT !.severity = severity, !.exported = FALSE]

Rating(e) == engine[e].rated[engine[e].subject]

\* _upsert, second half: update the row found, or create one.
WriteFinding(e) ==
  /\ engine[e].pc = "write"
  /\ LET i == engine[e].id IN
       IF i = NoRow
       THEN /\ Len(finding) < MaxFindings
            /\ finding' = Append(finding, [subject |-> engine[e].subject, state |-> "open",
                 severity |-> Rating(e), exported |-> FALSE, reopened |-> FALSE])
       ELSE finding' = [finding EXCEPT ![i] = SeenAgain(@, Rating(e))]
  /\ engine' = [engine EXCEPT ![e].pc = "upsert", ![e].id = NoRow]
  /\ UNCHANGED <<condition, covered, triage, export, received, overlaps, changes>>

Stale(scope, systems) ==
  {i \in Rows : /\ finding[i].state \in {"open", "acknowledged"}
                /\ SystemOf[finding[i].subject] \in systems \cap scope}

\* Mutant: the clean-up is not limited to the systems the rule covers.
CleanUpScopeAll(e) == Systems

\* supported_system_ids, asked again for the clean-up.
CleanUpScope(e) == covered

\* _close_cleared, first query: the rows to leave alone.
ReadStale(e) ==
  /\ engine[e].pc = "upsert" /\ engine[e].todo = {}
  /\ LET systems == CleanUpScope(e)
         current == {i \in Stale(engine[e].scope, systems) :
                       finding[i].subject \in engine[e].raised}
     IN engine' = [engine EXCEPT ![e].pc = "close", ![e].systems = systems, ![e].keep = current]
  /\ UNCHANGED <<condition, covered, finding, triage, export, received, overlaps, changes>>

\* Mutant: the resolved row is not marked for export.
ResolvedQuietly(row) == [row EXCEPT !.state = "resolved", !.reopened = FALSE]

Resolved(row) ==
  [row EXCEPT !.state = "resolved", !.exported = FALSE, !.reopened = FALSE]

\* Mutant: the clean-up looks at the open rows only.
ToCloseOpenOnly(e) ==
  {i \in Stale(engine[e].scope, engine[e].systems) \ engine[e].keep : finding[i].state = "open"}

\* _close_cleared, the update: whatever matches now and is not to be left alone.
ToClose(e) == Stale(engine[e].scope, engine[e].systems) \ engine[e].keep

CloseCleared(e) ==
  /\ engine[e].pc = "close"
  /\ finding' = [i \in Rows |-> IF i \in ToClose(e) THEN Resolved(finding[i]) ELSE finding[i]]
  /\ engine' = [engine EXCEPT ![e] = Resting]
  /\ UNCHANGED <<condition, covered, triage, export, received, overlaps, changes>>

\* The worker dies, or a query fails: what it wrote so far stays.
EngineDies(e) ==
  /\ Outside
  /\ engine[e] # Resting
  /\ engine' = [engine EXCEPT ![e] = Resting]
  /\ UNCHANGED <<condition, covered, finding, triage, export, received, overlaps>>
------------------------------------------------------------------------------
(***************************************************************************)
(* Triage.  get_object fetches the row, whatever its state: a resolved one *)
(* comes back into the queue.  save() writes all of the row.               *)
(***************************************************************************)
FetchFinding(i) ==
  /\ Outside
  /\ triage = NoTriage /\ Begin
  /\ triage' = [id |-> i, row |-> finding[i]]
  /\ UNCHANGED <<condition, covered, finding, engine, export, received>>

Save(row) ==
  /\ finding' = [finding EXCEPT ![triage.id] = row]
  /\ triage' = NoTriage
  /\ UNCHANGED <<condition, covered, engine, export, received, overlaps, changes>>

\* History: the row triage saves had left the queue when it was fetched.
Reopens(row) == row.reopened \/ row.state = "resolved"

Acknowledge ==
  /\ triage # NoTriage
  /\ Save([triage.row EXCEPT !.state = "acknowledged", !.exported = FALSE,
                             !.reopened = Reopens(triage.row)])

\* suppress leaves exported_at as it was fetched.  suppressed_until is written and read nowhere.
Suppress ==
  /\ triage # NoTriage
  /\ Save([triage.row EXCEPT !.state = "suppressed", !.reopened = Reopens(triage.row)])
------------------------------------------------------------------------------
(***************************************************************************)
(* export_findings: read the oldest rows to send, post them, stamp them.   *)
(***************************************************************************)
Pending == {i \in Rows : ~finding[i].exported}

ReadBatch ==
  /\ export = NoBatch /\ Begin /\ Pending # {}
  /\ export' = LET batch == {i \in Pending : Cardinality({j \in Pending : j < i}) < BatchSize}
               IN [sent |-> FALSE, rows |-> [i \in batch |-> Sent(finding[i])]]
  /\ UNCHANGED <<condition, covered, finding, engine, triage, received, changes>>

Ship ==
  /\ export # NoBatch /\ ~export.sent
  /\ received' = [i \in DOMAIN received \cup DOMAIN export.rows |->
                    IF i \in DOMAIN export.rows THEN export.rows[i] ELSE received[i]]
  /\ export' = [export EXCEPT !.sent = TRUE]
  /\ UNCHANGED <<condition, covered, finding, engine, triage, overlaps, changes>>

Stamp ==
  /\ export # NoBatch /\ export.sent
  /\ finding' = [i \in Rows |-> IF i \in DOMAIN export.rows
                                THEN [finding[i] EXCEPT !.exported = TRUE] ELSE finding[i]]
  /\ export' = NoBatch
  /\ UNCHANGED <<condition, covered, engine, triage, received, overlaps, changes>>

\* The collector refuses the batch, or the task dies before the stamp.
DropBatch ==
  /\ Outside
  /\ export # NoBatch
  /\ export' = NoBatch
  /\ UNCHANGED <<condition, covered, finding, engine, triage, received, overlaps>>
------------------------------------------------------------------------------
Evaluate(e) == FindExisting(e) \/ WriteFinding(e) \/ ReadStale(e) \/ CloseCleared(e)

Next ==
  \/ \E s \in Subjects : ConditionChanges(s)
  \/ \E y \in Systems : CapabilityChanges(y)
  \/ \E e \in Engines : \/ \E scope \in Scopes : StartRun(e, scope)
                        \/ Evaluate(e) \/ EngineDies(e)
  \/ \E i \in Rows : FetchFinding(i)
  \/ Acknowledge \/ Suppress
  \/ ReadBatch \/ Ship \/ Stamp \/ DropBatch

Spec == Init /\ [][Next]_vars

(***************************************************************************)
(* The hourly evaluation is scheduled again and again and, once started,   *)
(* goes on; so do an export and a triage request.                          *)
(***************************************************************************)
Fairness ==
  /\ \A e \in Engines : SF_vars(StartRun(e, Systems)) /\ WF_vars(Evaluate(e))
  /\ SF_vars(ReadBatch) /\ WF_vars(Ship) /\ WF_vars(Stamp)
  /\ WF_vars(Acknowledge \/ Suppress)

FairSpec == Spec /\ Fairness
------------------------------------------------------------------------------
(***************************************************************************)
(* "A condition holding for six weeks is one finding aged six weeks, not   *)
(* forty-two alerts" (rules/engine.py): no subject has two findings        *)
(* waiting in the queue.  The code breaks it in two ways, and the property *)
(* says there is no third.  Triage takes any row, so an old finding that   *)
(* was resolved can be acknowledged or suppressed next to the one that     *)
(* the engine has raised since (api/views.py:88, 102).  Two evaluations    *)
(* that overlap can both find none and both create one, so the property    *)
(* ends with the first overlap.                                            *)
(***************************************************************************)
OneFindingPerSubject ==
  ~overlapped => \A i, j \in Rows :
    (/\ finding[i].subject = finding[j].subject
     /\ finding[i].state \in Active /\ finding[j].state \in Active) =>
      i = j \/ finding[i].reopened \/ finding[j].reopened

(***************************************************************************)
(* A finding is resolved only by a run that evaluated its system and found *)
(* the condition clear: "losing a capability must not silently resolve     *)
(* every finding the rule had already raised" (_close_cleared).  It does   *)
(* not hold of a capability that comes back between the queries of one     *)
(* run, nor of a row another task created or reopened meanwhile.           *)
(***************************************************************************)
ResolvesOnlyTheCleared ==
  [][\A i \in Rows :
       (~overlapped /\ finding[i].state # "resolved" /\ finding'[i].state = "resolved") =>
         \E e \in Engines : /\ engine[e].pc = "close"
                            /\ engine[e].rated[finding[i].subject] = Clear]_vars

(***************************************************************************)
(* "re-export on material change" (_upsert): a row stamped as exported is  *)
(* known to the event collector as the engine last left it.  Suppression   *)
(* is never exported, so a suppressed row is not compared.  A row that     *)
(* changes between the post and the stamp breaks it: while no task         *)
(* overlaps another, nothing does.                                         *)
(***************************************************************************)
Told(i) ==
  \/ finding[i].state = "suppressed"
  \/ i \in DOMAIN received /\ received[i] = Sent(finding[i])

ExportedMeansReceived == ~overlapped => \A i \in Rows : finding[i].exported => Told(i)

(***************************************************************************)
(* A condition that stays clear on a platform the rule covers leaves the   *)
(* queue, whatever overlapped before.  A suppressed finding does not leave *)
(* it: the engine never resolves one.                                      *)
(***************************************************************************)
ClearedIsResolved ==
  \A s \in Subjects :
    <>[](condition[s] = Clear /\ SystemOf[s] \in covered) =>
      <>[](\A i \in Rows : finding[i].subject = s => finding[i].state \in {"resolved", "suppressed"})

(***************************************************************************)
(* A condition that stays on a platform the rule covers is in the queue    *)
(* and stays there, once evaluations no longer overlap: until then the     *)
(* clean-up of one can go on resolving what the other has just created.    *)
(***************************************************************************)
HeldIsReported ==
  \A s \in Subjects :
    <>[](condition[s] # Clear /\ SystemOf[s] \in covered) =>
      <>[](\E i \in Rows : finding[i].subject = s /\ finding[i].state \in Active)

(***************************************************************************)
(* What the collector last received of every row is, in the end, what the  *)
(* row says.  A stamp over a change of a row that is then left alone is    *)
(* never repaired, so this one needs a history without overlap.            *)
(***************************************************************************)
CollectorCatchesUp ==
  [](~overlapped) => \A i \in 1..MaxFindings : <>[](i \in Rows => Told(i))
==============================================================================
