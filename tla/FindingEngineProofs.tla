-------------------------- MODULE FindingEngineProofs --------------------------
(***************************************************************************)
(* As long as no task starts while another is under way: no subject has    *)
(* two active findings, what is stamped as exported has been received as   *)
(* it stands, and nothing is resolved that was not seen clear.  For any    *)
(* subjects, platforms, workers and batch size.                            *)
(***************************************************************************)
EXTENDS FindingEngine, FiniteSetTheorems, TLAPS

Levels == Severities \cup {Clear}
FindingRow == [subject : Subjects, state : Active \cup {"resolved"}, severity : Levels,
               exported : BOOLEAN, reopened : BOOLEAN]
Run == [pc : {"upsert", "write", "close"}, scope : SUBSET Systems, rated : [Subjects -> Levels],
        raised : SUBSET Subjects, todo : SUBSET Subjects, subject : Subjects \cup {"none"},
        id : Nat, systems : SUBSET Systems, keep : SUBSET Nat]

Busy == {e \in Engines : engine[e] # Resting}

EngineTypes ==
  /\ condition \in [Subjects -> Levels]
  /\ covered \subseteq Systems
  /\ finding \in Seq(FindingRow)
  /\ engine \in [Engines -> {Resting} \cup Run]
  /\ \A e \in Busy : /\ engine[e].id \in Rows \cup {NoRow}
                     /\ engine[e].pc = "write" => engine[e].subject \in Subjects
  /\ triage # NoTriage => triage \in [id : Rows, row : FindingRow]
  /\ export # NoBatch => DOMAIN export.rows \subseteq Rows /\ export.sent \in BOOLEAN
  /\ overlaps \in Nat
  /\ IsFiniteSet(Busy)

(***************************************************************************)
(* Until the first overlap one task is under way at most, ...              *)
(***************************************************************************)
Alone ==
  ~overlapped =>
    /\ \A e, f \in Busy : e = f
    /\ triage # NoTriage \/ export # NoBatch => Busy = {}
    /\ triage = NoTriage \/ export = NoBatch

(***************************************************************************)
(* ... so what each has in hand is what the tables still say: the rule     *)
(* covers what it covered when the run began, a subject without an active  *)
(* finding has got none, the rows to leave alone are those of the subjects *)
(* that were raised; ...                                                   *)
(***************************************************************************)
RunInHand ==
  ~overlapped => \A e \in Busy :
    /\ engine[e].raised = {s \in Subjects : /\ engine[e].rated[s] # Clear
                                           /\ SystemOf[s] \in covered \cap engine[e].scope}
    /\ engine[e].pc = "write" /\ engine[e].id = NoRow => Existing(engine[e].subject) = {}
    /\ engine[e].pc = "close" =>
         /\ engine[e].systems = covered
         /\ engine[e].keep = {i \in Stale(engine[e].scope, covered) :
                                finding[i].subject \in engine[e].raised}

\* ... triage holds the row as it is, ...
TriageInHand ==
  ~overlapped /\ triage # NoTriage => triage.row = finding[triage.id]

\* ... and the export the rows as they are, which the collector has once they are posted.
BatchInHand ==
  ~overlapped /\ export # NoBatch => \A i \in DOMAIN export.rows :
    /\ export.rows[i] = Sent(finding[i])
    /\ export.sent => i \in DOMAIN received /\ received[i] = export.rows[i]

EInv ==
  EngineTypes /\ Alone /\ RunInHand /\ TriageInHand /\ BatchInHand /\ ExportedMeansReceived
------------------------------------------------------------------------------
(***************************************************************************)
(* Facts about the tasks.                                                  *)
(***************************************************************************)
LEMMA QuietMeansNobody ==
  ASSUME EngineTypes, Quiet
  PROVE  Busy = {} /\ triage = NoTriage /\ export = NoBatch
<1>1. Cardinality(Busy) \in Nat
  BY FS_CardinalityType DEF EngineTypes
<1>2. Cardinality(Busy) = 0 /\ triage = NoTriage /\ export = NoBatch
  BY <1>1 DEF Quiet, Tasks, Busy
<1> QED
  BY <1>2, FS_EmptySet DEF EngineTypes

\* A task that starts without an overlap starts alone.
LEMMA BeginsAlone ==
  ASSUME EngineTypes, Begin
  PROVE  /\ overlaps' \in Nat
         /\ ~overlapped' => /\ ~overlapped
                            /\ Busy = {} /\ triage = NoTriage /\ export = NoBatch
<1>1. overlaps' = overlaps \/ overlaps' = overlaps + 1
  BY DEF Begin
<1>2. ~overlapped' => Quiet /\ ~overlapped
  BY DEF Begin, EngineTypes, overlapped
<1> QED
  BY <1>1, <1>2, QuietMeansNobody DEF EngineTypes

LEMMA BusyStaysFinite ==
  ASSUME EngineTypes, NEW e \in Engines, NEW run, engine' = [engine EXCEPT ![e] = run]
  PROVE  /\ IsFiniteSet(Busy')
         /\ engine'[e] = run /\ \A f \in Engines \ {e} : engine'[f] = engine[f]
         /\ Busy' \subseteq Busy \cup {e}
<1>1. engine'[e] = run /\ \A f \in Engines \ {e} : engine'[f] = engine[f]
  BY DEF EngineTypes
<1>2. Busy' \subseteq Busy \cup {e}
  BY <1>1 DEF Busy
<1>3. IsFiniteSet(Busy \cup {e})
  BY FS_AddElement DEF EngineTypes
<1> QED
  BY <1>1, <1>2, <1>3, FS_Subset

\* A run under way is a record of a run.
LEMMA RunsAreTyped ==
  ASSUME EngineTypes, NEW e \in Busy
  PROVE  engine[e] \in Run /\ engine[e] # Resting /\ e \in Engines
BY DEF EngineTypes, Busy

LEMMA RunIsBusy ==
  ASSUME NEW e \in Engines, engine[e].pc \in {"upsert", "write", "close"}
  PROVE  e \in Busy
BY DEF Busy, Resting

LEMMA NotResting == ASSUME NEW run \in Run PROVE run # Resting
BY DEF Run, Resting
------------------------------------------------------------------------------
LEMMA EngineInit == Init => EInv
<1> SUFFICES ASSUME Init PROVE EInv
  OBVIOUS
<1>1. Busy = {} /\ Rows = {}
  BY DEF Init, Busy, Rows
<1>2. EngineTypes
  BY <1>1, FS_EmptySet DEF Init, EngineTypes, Levels
<1>3. ExportedMeansReceived
  BY <1>1 DEF ExportedMeansReceived
<1> QED
  BY <1>1, <1>2, <1>3 DEF Init, EInv, Alone, RunInHand, TriageInHand, BatchInHand

LEMMA EngineStutters ==
  ASSUME EInv, UNCHANGED <<covered, finding, engine, triage, export, received, overlaps>>,
         condition' \in [Subjects -> Levels]
  PROVE  EInv'
<1>1. Busy' = Busy /\ Rows' = Rows
  BY DEF Busy, Rows
<1>2. EngineTypes'
  BY <1>1 DEF EInv, EngineTypes
<1>3. Alone' /\ TriageInHand' /\ BatchInHand'
  BY <1>1 DEF EInv, Alone, TriageInHand, BatchInHand, overlapped
<1>4. RunInHand'
  BY <1>1 DEF EInv, RunInHand, overlapped, Existing, Stale, Rows
<1>5. ExportedMeansReceived'
  BY <1>1 DEF EInv, ExportedMeansReceived, overlapped, Told
<1> QED
  BY <1>2, <1>3, <1>4, <1>5 DEF EInv

LEMMA ConditionKeeps ==
  ASSUME EInv, NEW s \in Subjects, ConditionChanges(s)
  PROVE  EInv'
<1>1. condition' \in [Subjects -> Levels]
  BY DEF ConditionChanges, EInv, EngineTypes, Levels
<1> QED
  BY <1>1, EngineStutters DEF ConditionChanges

LEMMA CapabilityKeeps ==
  ASSUME EInv, NEW y \in Systems, CapabilityChanges(y)
  PROVE  EInv'
<1> USE DEF EInv
<1>1. UNCHANGED <<condition, finding, engine, triage, export, received>>
  BY DEF CapabilityChanges
<1>2. Busy' = Busy /\ Rows' = Rows
  BY <1>1 DEF Busy, Rows
<1>3. /\ overlaps' \in Nat
      /\ ~overlapped' => ~overlapped /\ Busy = {} /\ triage = NoTriage /\ export = NoBatch
  BY BeginsAlone DEF CapabilityChanges
<1>4. EngineTypes'
  BY <1>1, <1>2, <1>3 DEF EngineTypes, CapabilityChanges
<1>5. Alone' /\ RunInHand' /\ TriageInHand' /\ BatchInHand'
  BY <1>1, <1>2, <1>3 DEF Alone, RunInHand, TriageInHand, BatchInHand
<1>6. ExportedMeansReceived'
  BY <1>1, <1>2, <1>3 DEF ExportedMeansReceived, Told
<1> QED
  BY <1>4, <1>5, <1>6
------------------------------------------------------------------------------
(***************************************************************************)
(* The engine: a step that changes nothing but what one run has in hand.   *)
(***************************************************************************)
LEMMA RunStepKeeps ==
  ASSUME EInv, NEW e \in Engines, NEW run \in {Resting} \cup Run,
         engine' = [engine EXCEPT ![e] = run],
         run # Resting => /\ run.id \in Rows \cup {NoRow}
                          /\ run.pc = "write" => run.subject \in Subjects,
         UNCHANGED <<condition, covered, finding, triage, export, received>>,
         overlaps' \in Nat,
         ~overlapped' => ~overlapped,
         ~overlapped' /\ run # Resting => Busy \subseteq {e} /\ triage = NoTriage /\ export = NoBatch,
         ~overlapped' /\ run # Resting =>
           /\ run.raised = {s \in Subjects : run.rated[s] # Clear /\ SystemOf[s] \in covered \cap run.scope}
           /\ run.pc = "write" /\ run.id = NoRow => Existing(run.subject) = {}
           /\ run.pc = "close" =>
                /\ run.systems = covered
                /\ run.keep = {i \in Stale(run.scope, covered) : finding[i].subject \in run.raised}
  PROVE  EInv'
<1> USE DEF EInv
<1>1. /\ IsFiniteSet(Busy') /\ engine'[e] = run
      /\ \A f \in Engines \ {e} : engine'[f] = engine[f]
      /\ Busy' \subseteq Busy \cup {e}
  BY BusyStaysFinite
<1>2. Rows' = Rows
  BY DEF Rows
<1>3. engine' \in [Engines -> {Resting} \cup Run]
  BY DEF EngineTypes
<1>4. \A f \in Busy' : (f = e /\ run # Resting) \/ (f # e /\ f \in Busy /\ engine'[f] = engine[f])
  BY <1>1 DEF Busy
<1>5. EngineTypes'
  <2>1. \A f \in Busy' : /\ engine'[f].id \in Rows' \cup {NoRow}
                         /\ engine'[f].pc = "write" => engine'[f].subject \in Subjects
    BY <1>1, <1>2, <1>4 DEF EngineTypes
  <2> QED
    BY <1>1, <1>2, <1>3, <2>1 DEF EngineTypes
<1>6. Alone'
  BY <1>1, <1>4 DEF Alone
<1>7. RunInHand'
  <2> SUFFICES ASSUME ~overlapped', NEW f \in Busy'
      PROVE /\ engine'[f].raised = {s \in Subjects : /\ engine'[f].rated[s] # Clear
                                                    /\ SystemOf[s] \in covered \cap engine'[f].scope}
            /\ engine'[f].pc = "write" /\ engine'[f].id = NoRow => Existing(engine'[f].subject) = {}
            /\ engine'[f].pc = "close" =>
                 /\ engine'[f].systems = covered
                 /\ engine'[f].keep = {i \in Stale(engine'[f].scope, covered) :
                                        finding[i].subject \in engine'[f].raised}
    BY <1>2 DEF RunInHand, Existing, Stale
  <2>1. CASE f = e
    BY <2>1, <1>1, <1>4
  <2>2. CASE f # e
    BY <2>2, <1>4 DEF RunInHand
  <2> QED
    BY <2>1, <2>2
<1>8. TriageInHand' /\ BatchInHand'
  BY DEF TriageInHand, BatchInHand
<1>9. ExportedMeansReceived'
  BY <1>2 DEF ExportedMeansReceived, Told
<1> QED
  BY <1>5, <1>6, <1>7, <1>8, <1>9

LEMMA StartKeeps ==
  ASSUME EInv, NEW e \in Engines, NEW scope \in Scopes, StartRun(e, scope)
  PROVE  EInv'
<1> DEFINE raised == {s \in Subjects : condition[s] # Clear /\ SystemOf[s] \in covered \cap scope}
           run == [pc |-> "upsert", scope |-> scope, rated |-> condition, raised |-> raised,
                   todo |-> raised, subject |-> "none", id |-> NoRow, systems |-> {}, keep |-> {}]
<1>1. /\ engine' = [engine EXCEPT ![e] = run]
      /\ UNCHANGED <<condition, covered, finding, triage, export, received>>
  BY DEF StartRun
<1>2. run \in Run
  BY EngineAssumption DEF Run, NoRow, EInv, EngineTypes
<1>3. /\ overlaps' \in Nat
      /\ ~overlapped' => ~overlapped /\ Busy = {} /\ triage = NoTriage /\ export = NoBatch
  BY BeginsAlone DEF StartRun, EInv
<1> QED
  BY <1>1, <1>2, <1>3, RunStepKeeps

\* What a run finds is an active row of the subject, or there is none.
LEMMA FindKeeps ==
  ASSUME EInv, NEW e \in Engines, FindExisting(e)
  PROVE  EInv'
<1>1. PICK s \in engine[e].todo : \E i \in IF Existing(s) = {} THEN {NoRow} ELSE Existing(s) :
        engine' = [engine EXCEPT ![e].pc = "write", ![e].todo = @ \ {s},
                                 ![e].subject = s, ![e].id = i]
  BY DEF FindExisting
<1>2. PICK i \in IF Existing(s) = {} THEN {NoRow} ELSE Existing(s) :
        engine' = [engine EXCEPT ![e].pc = "write", ![e].todo = @ \ {s},
                                 ![e].subject = s, ![e].id = i]
  BY <1>1
<1> DEFINE run == [engine[e] EXCEPT !.pc = "write", !.todo = @ \ {s}, !.subject = s, !.id = i]
<1>3. e \in Busy /\ engine[e] \in Run
  BY RunIsBusy, RunsAreTyped DEF FindExisting, EInv
<1>4. engine' = [engine EXCEPT ![e] = run]
  BY <1>2
<1>5. s \in Subjects /\ i \in Rows \cup {NoRow} /\ i \in Nat /\ (i = NoRow => Existing(s) = {})
  BY <1>3 DEF Run, Existing, Rows, NoRow, EInv, EngineTypes
<1>6. /\ run \in Run /\ run.pc = "write" /\ run.subject = s /\ run.id = i
      /\ run.raised = engine[e].raised /\ run.rated = engine[e].rated /\ run.scope = engine[e].scope
  BY <1>3, <1>5 DEF Run
<1>7. UNCHANGED <<condition, covered, finding, triage, export, received, overlaps>>
  BY DEF FindExisting
<1>8. /\ overlaps' \in Nat /\ (~overlapped' => ~overlapped)
      /\ ~overlapped' => Busy \subseteq {e} /\ triage = NoTriage /\ export = NoBatch
  BY <1>3, <1>7 DEF EInv, EngineTypes, Alone, overlapped
<1>9. ~overlapped' => run.raised = {q \in Subjects : /\ run.rated[q] # Clear
                                                    /\ SystemOf[q] \in covered \cap run.scope}
  BY <1>3, <1>6, <1>8 DEF EInv, RunInHand
<1> HIDE DEF run
<1> QED
  BY <1>4, <1>5, <1>6, <1>7, <1>8, <1>9, RunStepKeeps

LEMMA ReadStaleKeeps ==
  ASSUME EInv, NEW e \in Engines, ReadStale(e)
  PROVE  EInv'
<1> DEFINE current == {i \in Stale(engine[e].scope, covered) : finding[i].subject \in engine[e].raised}
           run == [engine[e] EXCEPT !.pc = "close", !.systems = covered, !.keep = current]
<1>1. engine' = [engine EXCEPT ![e] = run]
  BY DEF ReadStale, CleanUpScope
<1>2. e \in Busy /\ engine[e] \in Run
  BY RunIsBusy, RunsAreTyped DEF ReadStale, EInv
<1>3. current \in SUBSET Nat /\ covered \in SUBSET Systems
  BY DEF Stale, Rows, EInv, EngineTypes
<1>4. /\ run \in Run /\ run.pc = "close" /\ run.id = engine[e].id
      /\ run.systems = covered /\ run.keep = current
      /\ run.raised = engine[e].raised /\ run.rated = engine[e].rated /\ run.scope = engine[e].scope
  <2> HIDE DEF current
  <2> QED
    BY <1>2, <1>3 DEF Run
<1>5. UNCHANGED <<condition, covered, finding, triage, export, received, overlaps>>
  BY DEF ReadStale
<1>6. /\ overlaps' \in Nat /\ (~overlapped' => ~overlapped)
      /\ ~overlapped' => Busy \subseteq {e} /\ triage = NoTriage /\ export = NoBatch
  BY <1>2, <1>5 DEF EInv, EngineTypes, Alone, overlapped
<1>7. run.id \in Rows \cup {NoRow}
  BY <1>2, <1>4 DEF EInv, EngineTypes
<1>8. ~overlapped' => run.raised = {q \in Subjects : /\ run.rated[q] # Clear
                                                    /\ SystemOf[q] \in covered \cap run.scope}
  BY <1>2, <1>4, <1>6 DEF EInv, RunInHand
<1>9. run.keep = {i \in Stale(run.scope, covered) : finding[i].subject \in run.raised}
  BY <1>4
<1> HIDE DEF run
<1> QED
  BY <1>1, <1>4, <1>5, <1>6, <1>7, <1>8, <1>9, RunStepKeeps

LEMMA DeathKeeps ==
  ASSUME EInv, NEW e \in Engines, EngineDies(e)
  PROVE  EInv'
<1>1. /\ engine' = [engine EXCEPT ![e] = Resting]
      /\ UNCHANGED <<condition, covered, finding, triage, export, received, overlaps>>
  BY DEF EngineDies
<1>2. overlaps' \in Nat /\ (~overlapped' => ~overlapped)
  BY <1>1 DEF EInv, EngineTypes, overlapped
<1> QED
  BY <1>1, <1>2, RunStepKeeps
------------------------------------------------------------------------------
(***************************************************************************)
(* A step of the one task under way that changes rows: the others have     *)
(* nothing in hand.  What it leaves marked as exported was so before, or   *)
(* the collector has it.                                                   *)
(***************************************************************************)
LEMMA LoneWriteKeeps ==
  ASSUME EInv, finding' \in Seq(FindingRow), Len(finding) <= Len(finding'),
         UNCHANGED <<condition, covered, received, overlaps>>,
         NEW e \in Engines, NEW run \in {Resting} \cup Run, e \in Busy,
         engine' = [engine EXCEPT ![e] = run], UNCHANGED <<triage, export>>,
         run # Resting => run.pc = "upsert" /\ run.id = NoRow,
         ~overlapped /\ run # Resting =>
           run.raised = {s \in Subjects : run.rated[s] # Clear /\ SystemOf[s] \in covered \cap run.scope},
         \A i \in Rows' : finding'[i].exported => i \in Rows /\ finding'[i] = finding[i]
  PROVE  EInv'
<1> USE DEF EInv
<1>1. /\ IsFiniteSet(Busy') /\ engine'[e] = run
      /\ \A f \in Engines \ {e} : engine'[f] = engine[f]
      /\ Busy' \subseteq Busy \cup {e}
  BY BusyStaysFinite
<1>2. Rows \subseteq Rows'
  BY DEF Rows, EngineTypes
<1>3. engine' \in [Engines -> {Resting} \cup Run]
  BY DEF EngineTypes
<1>4. \A f \in Busy' : (f = e /\ run # Resting) \/ (f # e /\ f \in Busy /\ engine'[f] = engine[f])
  BY <1>1 DEF Busy
<1>5. EngineTypes'
  <2>1. \A f \in Busy' : /\ engine'[f].id \in Rows' \cup {NoRow}
                         /\ engine'[f].pc = "write" => engine'[f].subject \in Subjects
    BY <1>1, <1>2, <1>4 DEF EngineTypes
  <2>2. triage' # NoTriage => triage' \in [id : Rows', row : FindingRow]
    BY <1>2 DEF EngineTypes
  <2>3. export' # NoBatch => DOMAIN export'.rows \subseteq Rows' /\ export'.sent \in BOOLEAN
    BY <1>2 DEF EngineTypes
  <2> QED
    BY <1>1, <1>3, <2>1, <2>2, <2>3 DEF EngineTypes
<1>6. ~overlapped => Busy = {e} /\ triage = NoTriage /\ export = NoBatch
  BY DEF Alone
<1>7. Alone' /\ TriageInHand' /\ BatchInHand'
  BY <1>1, <1>6 DEF Alone, TriageInHand, BatchInHand, overlapped
<1>8. RunInHand'
  BY <1>1, <1>4, <1>6 DEF RunInHand, overlapped
<1>9. ExportedMeansReceived'
  BY DEF ExportedMeansReceived, Told, overlapped
<1> QED
  BY <1>5, <1>7, <1>8, <1>9

LEMMA WriteFindingKeeps ==
  ASSUME EInv, NEW e \in Engines, WriteFinding(e)
  PROVE  EInv'
<1> DEFINE run == [engine[e] EXCEPT !.pc = "upsert", !.id = NoRow]
           row == [subject |-> engine[e].subject, state |-> "open", severity |-> Rating(e),
                   exported |-> FALSE, reopened |-> FALSE]
           i == engine[e].id
<1>1. /\ engine' = [engine EXCEPT ![e] = run]
      /\ UNCHANGED <<condition, covered, triage, export, received, overlaps>>
      /\ engine[e].pc = "write"
      /\ finding' = IF i = NoRow THEN Append(finding, row)
                    ELSE [finding EXCEPT ![i] = SeenAgain(@, Rating(e))]
  BY DEF WriteFinding
<1>2. e \in Busy /\ engine[e] \in Run
  BY <1>1, RunIsBusy, RunsAreTyped DEF EInv
<1>3. engine[e].subject \in Subjects /\ i \in Rows \cup {NoRow} /\ finding \in Seq(FindingRow)
  BY <1>1, <1>2 DEF EInv, EngineTypes
<1>4. Rating(e) \in Levels
  BY <1>2, <1>3 DEF Rating, Run
<1>5. row \in FindingRow
  BY <1>3, <1>4 DEF FindingRow, Active
<1>6. /\ run \in Run /\ run.pc = "upsert" /\ run.id = NoRow
      /\ run.raised = engine[e].raised /\ run.rated = engine[e].rated /\ run.scope = engine[e].scope
  BY <1>2 DEF Run, NoRow
<1>7. CASE i = NoRow
  <2>1. /\ finding' \in Seq(FindingRow) /\ Len(finding') = Len(finding) + 1
        /\ finding'[Len(finding) + 1] = row /\ \A j \in Rows : finding'[j] = finding[j]
    <3> HIDE DEF row
    <3> QED
      BY <1>1, <1>3, <1>5, <1>7 DEF Rows
  <2>2. \A j \in Rows' : finding'[j].exported => j \in Rows /\ finding'[j] = finding[j]
    <3> SUFFICES ASSUME NEW j \in Rows', j \notin Rows PROVE ~finding'[j].exported
      BY <2>1
    <3>1. j = Len(finding) + 1
      BY <2>1, <1>3 DEF Rows
    <3> QED
      BY <3>1, <2>1
  <2>3. ~overlapped => run.raised = {s \in Subjects : /\ run.rated[s] # Clear
                                                     /\ SystemOf[s] \in covered \cap run.scope}
    BY <1>2, <1>6 DEF EInv, RunInHand
  <2>4. Len(finding) <= Len(finding')
    BY <2>1, <1>3
  <2> HIDE DEF run, row
  <2> QED
    BY <2>1, <2>2, <2>3, <2>4, <1>1, <1>2, <1>6, LoneWriteKeeps
<1>8. CASE i # NoRow
  <2>1. i \in Rows /\ finding[i] \in FindingRow
    BY <1>3, <1>8 DEF Rows
  <2>2. SeenAgain(finding[i], Rating(e)) \in FindingRow /\ ~SeenAgain(finding[i], Rating(e)).exported
    BY <2>1, <1>4 DEF SeenAgain, FindingRow
  <2>3. /\ finding' \in Seq(FindingRow) /\ Len(finding') = Len(finding)
        /\ finding'[i] = SeenAgain(finding[i], Rating(e))
        /\ \A j \in Rows \ {i} : finding'[j] = finding[j]
    BY <1>1, <1>3, <1>8, <2>1, <2>2 DEF Rows
  <2>4. \A j \in Rows' : finding'[j].exported => j \in Rows /\ finding'[j] = finding[j]
    BY <2>2, <2>3 DEF Rows
  <2>5. ~overlapped => run.raised = {s \in Subjects : /\ run.rated[s] # Clear
                                                     /\ SystemOf[s] \in covered \cap run.scope}
    BY <1>2, <1>6 DEF EInv, RunInHand
  <2>6. Len(finding) <= Len(finding')
    BY <2>3, <1>3
  <2> HIDE DEF run
  <2> QED
    BY <2>3, <2>4, <2>5, <2>6, <1>1, <1>2, <1>6, LoneWriteKeeps
<1> QED
  BY <1>7, <1>8

LEMMA CloseKeeps ==
  ASSUME EInv, NEW e \in Engines, CloseCleared(e)
  PROVE  EInv'
<1>1. /\ engine' = [engine EXCEPT ![e] = Resting]
      /\ UNCHANGED <<condition, covered, triage, export, received, overlaps>>
      /\ finding' = [i \in Rows |-> IF i \in ToClose(e) THEN Resolved(finding[i]) ELSE finding[i]]
  BY DEF CloseCleared
<1>2. e \in Busy
  BY RunIsBusy DEF CloseCleared
<1>3. finding \in Seq(FindingRow) /\ \A i \in Rows : finding[i] \in FindingRow
  BY DEF EInv, EngineTypes, Rows
<1>4. \A i \in Rows : Resolved(finding[i]) \in FindingRow /\ ~Resolved(finding[i]).exported
  BY <1>3 DEF Resolved, FindingRow
<1>5. finding' \in Seq(FindingRow) /\ Len(finding') = Len(finding)
  BY <1>1, <1>3, <1>4 DEF Rows
<1>6. \A i \in Rows' : finding'[i].exported => i \in Rows /\ finding'[i] = finding[i]
  BY <1>1, <1>4, <1>5 DEF Rows
<1>7. Len(finding) <= Len(finding')
  BY <1>3, <1>5
<1> QED
  BY <1>1, <1>2, <1>5, <1>6, <1>7, LoneWriteKeeps
------------------------------------------------------------------------------
(***************************************************************************)
(* Triage: what is fetched is saved whole, acknowledged and to be exported *)
(* again, or suppressed.                                                   *)
(***************************************************************************)
LEMMA FetchKeeps ==
  ASSUME EInv, NEW i \in Rows, FetchFinding(i)
  PROVE  EInv'
<1> USE DEF EInv
<1>1. /\ triage' = [id |-> i, row |-> finding[i]]
      /\ UNCHANGED <<condition, covered, finding, engine, export, received>>
  BY DEF FetchFinding
<1>2. Busy' = Busy /\ Rows' = Rows
  BY <1>1 DEF Busy, Rows
<1>3. /\ overlaps' \in Nat
      /\ ~overlapped' => ~overlapped /\ Busy = {} /\ triage = NoTriage /\ export = NoBatch
  BY BeginsAlone DEF FetchFinding
<1>4. finding[i] \in FindingRow
  BY DEF EngineTypes, Rows
<1>5. EngineTypes'
  BY <1>1, <1>2, <1>3, <1>4 DEF EngineTypes
<1>6. Alone' /\ RunInHand' /\ TriageInHand' /\ BatchInHand'
  BY <1>1, <1>2, <1>3 DEF Alone, RunInHand, TriageInHand, BatchInHand
<1>7. ExportedMeansReceived'
  BY <1>1, <1>2, <1>3 DEF ExportedMeansReceived, Told
<1> QED
  BY <1>5, <1>6, <1>7

LEMMA SaveKeeps ==
  ASSUME EInv, triage # NoTriage, NEW row \in FindingRow, Save(row),
         row.exported => row.state = "suppressed"
  PROVE  EInv'
<1> USE DEF EInv
<1>1. /\ finding' = [finding EXCEPT ![triage.id] = row] /\ triage' = NoTriage
      /\ UNCHANGED <<condition, covered, engine, export, received, overlaps>>
  BY DEF Save
<1>2. triage.id \in Rows /\ finding \in Seq(FindingRow)
  BY DEF EngineTypes
<1>3. /\ finding' \in Seq(FindingRow) /\ Len(finding') = Len(finding)
      /\ finding'[triage.id] = row
      /\ \A i \in Rows \ {triage.id} : finding'[i] = finding[i]
  BY <1>1, <1>2 DEF Rows
<1>4. Rows' = Rows /\ Busy' = Busy
  BY <1>1, <1>3 DEF Rows, Busy
<1>5. EngineTypes'
  BY <1>1, <1>3, <1>4 DEF EngineTypes
<1>6. ~overlapped => Busy = {} /\ export = NoBatch
  BY DEF Alone
<1>7. Alone' /\ RunInHand' /\ TriageInHand' /\ BatchInHand'
  BY <1>1, <1>4, <1>6 DEF Alone, RunInHand, TriageInHand, BatchInHand, overlapped
<1>8. ExportedMeansReceived'
  BY <1>1, <1>2, <1>3, <1>4 DEF ExportedMeansReceived, Told, overlapped
<1> QED
  BY <1>5, <1>7, <1>8

LEMMA AcknowledgeKeeps == EInv /\ Acknowledge => EInv'
<1> SUFFICES ASSUME EInv, Acknowledge PROVE EInv'
  OBVIOUS
<1> DEFINE row == [triage.row EXCEPT !.state = "acknowledged", !.exported = FALSE,
                                    !.reopened = Reopens(triage.row)]
<1>1. triage # NoTriage /\ Save(row)
  BY DEF Acknowledge
<1>2. triage.row \in FindingRow
  BY <1>1 DEF EInv, EngineTypes
<1>3. row \in FindingRow /\ ~row.exported
  BY <1>2 DEF FindingRow, Active, Reopens
<1> QED
  BY <1>1, <1>3, SaveKeeps

LEMMA SuppressKeeps == EInv /\ Suppress => EInv'
<1> SUFFICES ASSUME EInv, Suppress PROVE EInv'
  OBVIOUS
<1> DEFINE row == [triage.row EXCEPT !.state = "suppressed", !.reopened = Reopens(triage.row)]
<1>1. triage # NoTriage /\ Save(row)
  BY DEF Suppress
<1>2. triage.row \in FindingRow
  BY <1>1 DEF EInv, EngineTypes
<1>3. row \in FindingRow /\ row.state = "suppressed"
  BY <1>2 DEF FindingRow, Active, Reopens
<1> QED
  BY <1>1, <1>3, SaveKeeps
------------------------------------------------------------------------------
(***************************************************************************)
(* The export: what is stamped was posted as it stands.                    *)
(***************************************************************************)
LEMMA ReadBatchKeeps == EInv /\ ReadBatch => EInv'
<1> SUFFICES ASSUME EInv, ReadBatch PROVE EInv'
  OBVIOUS
<1> USE DEF EInv
<1> DEFINE batch == {i \in Pending : Cardinality({j \in Pending : j < i}) < BatchSize}
<1>1. /\ export' = [sent |-> FALSE, rows |-> [i \in batch |-> Sent(finding[i])]]
      /\ UNCHANGED <<condition, covered, finding, engine, triage, received>>
  BY DEF ReadBatch
<1>2. batch \subseteq Rows
  BY DEF Pending
<1> HIDE DEF batch
<1>3. /\ ~export'.sent /\ DOMAIN export'.rows = batch
      /\ \A i \in batch : export'.rows[i] = Sent(finding[i])
  BY <1>1
<1>4. Busy' = Busy /\ Rows' = Rows
  BY <1>1 DEF Busy, Rows
<1>5. /\ overlaps' \in Nat
      /\ ~overlapped' => ~overlapped /\ Busy = {} /\ triage = NoTriage /\ export = NoBatch
  BY BeginsAlone DEF ReadBatch
<1>6. EngineTypes'
  BY <1>1, <1>2, <1>3, <1>4, <1>5 DEF EngineTypes
<1>7. Alone' /\ RunInHand' /\ TriageInHand'
  BY <1>1, <1>4, <1>5 DEF Alone, RunInHand, TriageInHand
<1>8. BatchInHand'
  BY <1>1, <1>3 DEF BatchInHand, Sent
<1>9. ExportedMeansReceived'
  BY <1>1, <1>4, <1>5 DEF ExportedMeansReceived, Told
<1> QED
  BY <1>6, <1>7, <1>8, <1>9

LEMMA ShipKeeps == EInv /\ Ship => EInv'
<1> SUFFICES ASSUME EInv, Ship PROVE EInv'
  OBVIOUS
<1> USE DEF EInv
<1>1. /\ export # NoBatch /\ export' = [export EXCEPT !.sent = TRUE]
      /\ received' = [i \in DOMAIN received \cup DOMAIN export.rows |->
                        IF i \in DOMAIN export.rows THEN export.rows[i] ELSE received[i]]
      /\ UNCHANGED <<condition, covered, finding, engine, triage, overlaps>>
  BY DEF Ship
<1>2. export'.rows = export.rows /\ export'.sent \in BOOLEAN
  BY <1>1 DEF EngineTypes
<1>3. Busy' = Busy /\ Rows' = Rows
  BY <1>1 DEF Busy, Rows
<1>4. EngineTypes'
  BY <1>1, <1>2, <1>3 DEF EngineTypes
<1>5. Alone' /\ TriageInHand'
  BY <1>1, <1>3 DEF Alone, TriageInHand, overlapped
<1>6. RunInHand'
  BY <1>1, <1>3 DEF RunInHand, overlapped, Existing, Stale, Rows
<1>7. BatchInHand'
  BY <1>1, <1>2 DEF BatchInHand, overlapped, Sent
<1>8. ExportedMeansReceived'
  <2> SUFFICES ASSUME ~overlapped, NEW i \in Rows, finding[i].exported
               PROVE  Told(i)'
    BY <1>1, <1>3 DEF ExportedMeansReceived, overlapped
  <2>1. Told(i)
    BY DEF ExportedMeansReceived
  <2>2. i \in DOMAIN export.rows => export.rows[i] = Sent(finding[i])
    BY <1>1 DEF BatchInHand
  <2> QED
    BY <2>1, <2>2, <1>1 DEF Told, Sent
<1> QED
  BY <1>4, <1>5, <1>6, <1>7, <1>8

LEMMA StampKeeps == EInv /\ Stamp => EInv'
<1> SUFFICES ASSUME EInv, Stamp PROVE EInv'
  OBVIOUS
<1> USE DEF EInv
<1>1. /\ export # NoBatch /\ export.sent /\ export' = NoBatch
      /\ finding' = [i \in Rows |-> IF i \in DOMAIN export.rows
                                    THEN [finding[i] EXCEPT !.exported = TRUE] ELSE finding[i]]
      /\ UNCHANGED <<condition, covered, engine, triage, received, overlaps>>
  BY DEF Stamp
<1>2. finding \in Seq(FindingRow) /\ \A i \in Rows : finding[i] \in FindingRow
  BY DEF EngineTypes, Rows
<1>3. \A i \in Rows :
        /\ [finding[i] EXCEPT !.exported = TRUE] \in FindingRow
        /\ Sent([finding[i] EXCEPT !.exported = TRUE]) = Sent(finding[i])
        /\ [finding[i] EXCEPT !.exported = TRUE].state = finding[i].state
  BY <1>2 DEF FindingRow, Sent
<1>4. finding' \in Seq(FindingRow) /\ Len(finding') = Len(finding)
  BY <1>1, <1>2, <1>3 DEF Rows
<1>5. Rows' = Rows /\ Busy' = Busy
  BY <1>1, <1>4 DEF Rows, Busy
<1>6. EngineTypes'
  BY <1>1, <1>4, <1>5 DEF EngineTypes
<1>7. ~overlapped => Busy = {} /\ triage = NoTriage
  BY <1>1 DEF Alone
<1>8. Alone' /\ RunInHand' /\ TriageInHand' /\ BatchInHand'
  BY <1>1, <1>5, <1>7 DEF Alone, RunInHand, TriageInHand, BatchInHand, overlapped
<1>9. ExportedMeansReceived'
  <2> SUFFICES ASSUME ~overlapped, NEW i \in Rows, finding'[i].exported
               PROVE  Told(i)'
    BY <1>1, <1>5 DEF ExportedMeansReceived, overlapped
  <2>1. CASE i \in DOMAIN export.rows
    <3>1. i \in DOMAIN received /\ received[i] = Sent(finding[i])
      BY <2>1, <1>1 DEF BatchInHand
    <3>2. Sent(finding[i])' = Sent(finding[i])
      BY <2>1, <1>1, <1>3 DEF Sent
    <3> QED
      BY <3>1, <3>2, <1>1 DEF Told
  <2>2. CASE i \notin DOMAIN export.rows
    <3>1. finding'[i] = finding[i]
      BY <2>2, <1>1
    <3> QED
      BY <3>1, <1>1 DEF ExportedMeansReceived, Told, Sent
  <2> QED
    BY <2>1, <2>2
<1> QED
  BY <1>6, <1>8, <1>9

LEMMA DropKeeps == EInv /\ DropBatch => EInv'
<1> SUFFICES ASSUME EInv, DropBatch PROVE EInv'
  OBVIOUS
<1> USE DEF EInv
<1>1. export' = NoBatch /\ UNCHANGED <<condition, covered, finding, engine, triage, received, overlaps>>
  BY DEF DropBatch
<1>2. Busy' = Busy /\ Rows' = Rows
  BY <1>1 DEF Busy, Rows
<1>3. EngineTypes'
  BY <1>1, <1>2 DEF EngineTypes
<1>4. Alone' /\ TriageInHand' /\ BatchInHand'
  BY <1>1, <1>2 DEF Alone, TriageInHand, BatchInHand, overlapped
<1>5. RunInHand'
  BY <1>1, <1>2 DEF RunInHand, overlapped, Existing, Stale, Rows
<1>6. ExportedMeansReceived'
  BY <1>1, <1>2 DEF ExportedMeansReceived, overlapped, Told
<1> QED
  BY <1>3, <1>4, <1>5, <1>6
------------------------------------------------------------------------------
LEMMA EngineNext == EInv /\ [Next]_vars => EInv'
<1> SUFFICES ASSUME EInv, [Next]_vars PROVE EInv'
  OBVIOUS
<1>1. CASE \E s \in Subjects : ConditionChanges(s)
  BY <1>1, ConditionKeeps
<1>2. CASE \E y \in Systems : CapabilityChanges(y)
  BY <1>2, CapabilityKeeps
<1>3. ASSUME NEW e \in Engines,
             (\E scope \in Scopes : StartRun(e, scope)) \/ Evaluate(e) \/ EngineDies(e)
      PROVE  EInv'
  BY <1>3, StartKeeps, FindKeeps, WriteFindingKeeps, ReadStaleKeeps, CloseKeeps, DeathKeeps
     DEF Evaluate
<1>4. CASE \E i \in Rows : FetchFinding(i)
  BY <1>4, FetchKeeps
<1>5. CASE Acknowledge \/ Suppress
  BY <1>5, AcknowledgeKeeps, SuppressKeeps
<1>6. CASE ReadBatch \/ Ship \/ Stamp \/ DropBatch
  BY <1>6, ReadBatchKeeps, ShipKeeps, StampKeeps, DropKeeps
<1>7. CASE UNCHANGED vars
  <2>1. condition' \in [Subjects -> Levels]
    BY <1>7 DEF vars, EInv, EngineTypes
  <2> QED
    BY <1>7, <2>1, EngineStutters DEF vars
<1> QED
  BY <1>1, <1>2, <1>3, <1>4, <1>5, <1>6, <1>7 DEF Next

LEMMA EngineInvariant == Spec => []EInv
BY EngineInit, EngineNext, PTL DEF Spec

(***************************************************************************)
(* "re-export on material change" (rules/engine.py, _upsert): what is      *)
(* stamped as exported has been received as it stands.                     *)
(***************************************************************************)
THEOREM StampedIsReceived == Spec => []ExportedMeansReceived
<1>1. EInv => ExportedMeansReceived
  BY DEF EInv
<1> QED
  BY <1>1, EngineInvariant, PTL
------------------------------------------------------------------------------
(***************************************************************************)
(* Only the clean-up resolves a row: a run updates what it found without   *)
(* touching its state, and triage and the export write other states.       *)
(***************************************************************************)
LEMMA OnlyTheCleanUpResolves ==
  ASSUME EInv, [Next]_vars, NEW i \in Rows,
         finding[i].state # "resolved", finding'[i].state = "resolved"
  PROVE  \E e \in Engines : CloseCleared(e) /\ i \in ToClose(e)
<1> USE DEF EInv
<1>1. finding \in Seq(FindingRow) /\ finding[i] \in FindingRow /\ finding' # finding
  BY DEF EngineTypes, Rows
<1>2. ASSUME NEW e \in Engines, CloseCleared(e)
      PROVE  i \in ToClose(e)
  BY <1>2, <1>1 DEF CloseCleared
<1>3. ASSUME NEW e \in Engines, WriteFinding(e)
      PROVE  FALSE
  <2> DEFINE j == engine[e].id
             row == [subject |-> engine[e].subject, state |-> "open", severity |-> Rating(e),
                     exported |-> FALSE, reopened |-> FALSE]
  <2>1. finding' = IF j = NoRow THEN Append(finding, row)
                   ELSE [finding EXCEPT ![j] = SeenAgain(@, Rating(e))]
    BY <1>3 DEF WriteFinding
  <2>2. CASE j = NoRow
    <3> HIDE DEF row
    <3> QED
      BY <2>1, <2>2, <1>1 DEF Rows
  <2>3. CASE j # NoRow
    <3>1. SeenAgain(finding[i], Rating(e)).state = finding[i].state
      BY <1>1 DEF SeenAgain, FindingRow
    <3>2. finding'[i] = IF i = j THEN SeenAgain(finding[i], Rating(e)) ELSE finding[i]
      BY <2>1, <2>3, <1>1 DEF Rows
    <3> QED
      BY <3>1, <3>2
  <2> QED
    BY <2>2, <2>3
<1>4. CASE Acknowledge \/ Suppress
  <2>1. triage # NoTriage /\ triage.row \in FindingRow
    BY <1>4 DEF Acknowledge, Suppress, EngineTypes
  <2> DEFINE confirmed == [triage.row EXCEPT !.state = "acknowledged", !.exported = FALSE,
                                             !.reopened = Reopens(triage.row)]
             hidden == [triage.row EXCEPT !.state = "suppressed",
                                          !.reopened = Reopens(triage.row)]
  <2>2. PICK row \in {confirmed, hidden} : finding' = [finding EXCEPT ![triage.id] = row]
    BY <1>4 DEF Acknowledge, Suppress, Save
  <2>3. row.state # "resolved"
    BY <2>1 DEF FindingRow
  <2> QED
    BY <2>2, <2>3, <1>1 DEF Rows
<1>5. CASE Stamp
  <2>1. finding'[i].state = finding[i].state
    BY <1>5, <1>1 DEF Stamp, FindingRow
  <2> QED
    BY <2>1
<1>6. CASE \/ \E s \in Subjects : ConditionChanges(s)
           \/ \E y \in Systems : CapabilityChanges(y)
           \/ \E e \in Engines : \/ \E scope \in Scopes : StartRun(e, scope)
                                 \/ FindExisting(e) \/ ReadStale(e) \/ EngineDies(e)
           \/ \E j \in Rows : FetchFinding(j)
           \/ ReadBatch \/ Ship \/ DropBatch \/ UNCHANGED vars
  <2>1. finding' = finding
    BY <1>6 DEF ConditionChanges, CapabilityChanges, StartRun, FindExisting, ReadStale, EngineDies,
                FetchFinding, ReadBatch, Ship, DropBatch, vars
  <2> QED
    BY <2>1, <1>1
<1> QED
  BY <1>2, <1>3, <1>4, <1>5, <1>6 DEF Next, Evaluate

(***************************************************************************)
(* "losing a capability must not silently resolve every finding the rule   *)
(* had already raised" (_close_cleared): what a run resolves, it saw       *)
(* clear, as long as no task overlaps another.                             *)
(***************************************************************************)
THEOREM OnlyTheClearedIsResolved == Spec => ResolvesOnlyTheCleared
<1> DEFINE Step == \A i \in Rows :
       (~overlapped /\ finding[i].state # "resolved" /\ finding'[i].state = "resolved") =>
         \E e \in Engines : /\ engine[e].pc = "close"
                            /\ engine[e].rated[finding[i].subject] = Clear
<1>1. EInv /\ [Next]_vars => Step
  <2> SUFFICES ASSUME EInv, [Next]_vars, NEW i \in Rows, ~overlapped,
                      finding[i].state # "resolved", finding'[i].state = "resolved"
               PROVE  \E e \in Engines : /\ engine[e].pc = "close"
                                         /\ engine[e].rated[finding[i].subject] = Clear
    OBVIOUS
  <2>1. PICK e \in Engines : CloseCleared(e) /\ i \in ToClose(e)
    BY OnlyTheCleanUpResolves
  <2>2. engine[e].pc = "close" /\ e \in Busy
    BY <2>1, RunIsBusy DEF CloseCleared
  <2>3. /\ engine[e].systems = covered
        /\ engine[e].keep = {j \in Stale(engine[e].scope, covered) :
                               finding[j].subject \in engine[e].raised}
        /\ engine[e].raised = {s \in Subjects : /\ engine[e].rated[s] # Clear
                                               /\ SystemOf[s] \in covered \cap engine[e].scope}
    BY <2>2 DEF EInv, RunInHand
  <2>4. i \in Stale(engine[e].scope, covered) /\ finding[i].subject \notin engine[e].raised
    BY <2>1, <2>3 DEF ToClose
  <2>5. finding[i].subject \in Subjects
    <3>1. finding[i] \in FindingRow
      BY DEF EInv, EngineTypes, Rows
    <3> QED
      BY <3>1 DEF FindingRow
  <2>6. SystemOf[finding[i].subject] \in covered \cap engine[e].scope
    BY <2>4 DEF Stale
  <2> QED
    BY <2>2, <2>3, <2>4, <2>5, <2>6
<1> QED
  BY <1>1, EngineInvariant, PTL DEF Spec, ResolvesOnlyTheCleared
------------------------------------------------------------------------------
(***************************************************************************)
(* A step leaves one finding to a subject if every row it leaves active    *)
(* and not reopened was so before, of the same subject.                    *)
(***************************************************************************)
LEMMA NothingNew ==
  ASSUME EInv, OneFindingPerSubject,
         ~overlapped' => ~overlapped,
         ~overlapped' => \A i \in Rows' :
           finding'[i].state \in Active /\ ~finding'[i].reopened =>
             /\ i \in Rows /\ finding[i].state \in Active /\ ~finding[i].reopened
             /\ finding[i].subject = finding'[i].subject
  PROVE  OneFindingPerSubject'
BY DEF OneFindingPerSubject

LEMMA OneFindingNext ==
  ASSUME EInv, OneFindingPerSubject, [Next]_vars
  PROVE  OneFindingPerSubject'
<1> USE DEF EInv
<1>1. finding \in Seq(FindingRow) /\ \A i \in Rows : finding[i] \in FindingRow
  BY DEF EngineTypes, Rows
<1>2. ~overlapped' => ~overlapped
  <2>1. CASE Begin
    BY <2>1, BeginsAlone
  <2>2. CASE overlaps' = overlaps
    BY <2>2 DEF overlapped
  <2> QED
    BY <2>1, <2>2 DEF Next, vars, ConditionChanges, CapabilityChanges, StartRun, Evaluate,
       FindExisting, WriteFinding, ReadStale, CloseCleared, EngineDies, FetchFinding, Acknowledge,
       Suppress, Save, ReadBatch, Ship, Stamp, DropBatch
<1>3. CASE finding' = finding
  BY <1>2, <1>3, NothingNew DEF Rows
<1>4. ASSUME NEW e \in Engines, WriteFinding(e)
      PROVE  OneFindingPerSubject'
  <2> DEFINE j == engine[e].id
             s == engine[e].subject
             row == [subject |-> s, state |-> "open", severity |-> Rating(e), exported |-> FALSE,
                     reopened |-> FALSE]
  <2>1. /\ engine[e].pc = "write" /\ e \in Busy
        /\ finding' = IF j = NoRow THEN Append(finding, row)
                      ELSE [finding EXCEPT ![j] = SeenAgain(@, Rating(e))]
    BY <1>4, RunIsBusy DEF WriteFinding
  <2>2. CASE j = NoRow
    <3> HIDE DEF row
    <3>1. /\ Len(finding') = Len(finding) + 1 /\ finding'[Len(finding) + 1] = row
          /\ \A i \in Rows : finding'[i] = finding[i]
      BY <2>1, <2>2, <1>1 DEF Rows
    <3>2. \A i \in Rows' : i = Len(finding) + 1 \/ i \in Rows
      BY <3>1, <1>1 DEF Rows
    <3>3. row.subject = s
      BY DEF row
    <3>4. ~overlapped' => \A i \in Rows : finding[i].state \in Active => finding[i].subject # s
      BY <1>2, <2>1, <2>2 DEF RunInHand, Existing
    <3> QED
      BY <1>2, <3>1, <3>2, <3>3, <3>4 DEF OneFindingPerSubject
  <2>3. CASE j # NoRow
    <3>1. \A i \in Rows : /\ SeenAgain(finding[i], Rating(e)).state = finding[i].state
                          /\ SeenAgain(finding[i], Rating(e)).subject = finding[i].subject
                          /\ SeenAgain(finding[i], Rating(e)).reopened = finding[i].reopened
      BY <1>1 DEF SeenAgain, FindingRow
    <3>2. Rows' = Rows /\ \A i \in Rows :
            finding'[i] = IF i = j THEN SeenAgain(finding[i], Rating(e)) ELSE finding[i]
      BY <2>1, <2>3, <1>1 DEF Rows
    <3>3. \A i \in Rows' : /\ i \in Rows /\ finding[i].state = finding'[i].state
                           /\ finding[i].subject = finding'[i].subject
                           /\ finding[i].reopened = finding'[i].reopened
      BY <3>1, <3>2
    <3> QED
      BY <1>2, <3>3, NothingNew
  <2> QED
    BY <2>2, <2>3
<1>5. ASSUME NEW e \in Engines, CloseCleared(e)
      PROVE  OneFindingPerSubject'
  <2>1. finding' = [i \in Rows |-> IF i \in ToClose(e) THEN Resolved(finding[i]) ELSE finding[i]]
    BY <1>5 DEF CloseCleared
  <2>2. \A i \in Rows : Resolved(finding[i]).state = "resolved"
    BY <1>1 DEF Resolved, FindingRow
  <2>3. Rows' = Rows
    BY <2>1, <1>1 DEF Rows
  <2>4. \A i \in Rows' : finding'[i].state \in Active => finding'[i] = finding[i]
    BY <2>1, <2>2, <2>3 DEF Active
  <2> QED
    BY <1>2, <2>3, <2>4, NothingNew
<1>6. CASE Acknowledge \/ Suppress
  <2>1. triage # NoTriage /\ triage.id \in Rows /\ triage.row \in FindingRow
    BY <1>6 DEF Acknowledge, Suppress, EngineTypes
  <2>2. PICK row : /\ finding' = [finding EXCEPT ![triage.id] = row]
                   /\ row.subject = triage.row.subject /\ row.reopened = Reopens(triage.row)
    <3>1. PICK row \in {[triage.row EXCEPT !.state = "acknowledged", !.exported = FALSE,
                                           !.reopened = Reopens(triage.row)],
                        [triage.row EXCEPT !.state = "suppressed",
                                           !.reopened = Reopens(triage.row)]} :
            finding' = [finding EXCEPT ![triage.id] = row]
      BY <1>6 DEF Acknowledge, Suppress, Save
    <3>2. row.subject = triage.row.subject /\ row.reopened = Reopens(triage.row)
      BY <2>1, <3>1 DEF FindingRow
    <3> QED
      BY <3>1, <3>2
  <2>3. Rows' = Rows /\ \A i \in Rows : finding'[i] = IF i = triage.id THEN row ELSE finding[i]
    BY <2>2, <1>1 DEF Rows
  <2>4. ~overlapped' => triage.row = finding[triage.id]
    BY <2>1, <1>2 DEF TriageInHand
  <2>5. ~row.reopened => triage.row.state \in Active /\ ~triage.row.reopened
    BY <2>1, <2>2 DEF Reopens, FindingRow
  <2>6. ~overlapped' => \A i \in Rows' :
          finding'[i].state \in Active /\ ~finding'[i].reopened =>
            /\ i \in Rows /\ finding[i].state \in Active /\ ~finding[i].reopened
            /\ finding[i].subject = finding'[i].subject
    BY <2>2, <2>3, <2>4, <2>5
  <2> QED
    BY <1>2, <2>6, NothingNew
<1>7. CASE Stamp
  <2>1. finding' = [i \in Rows |-> IF i \in DOMAIN export.rows
                                   THEN [finding[i] EXCEPT !.exported = TRUE] ELSE finding[i]]
    BY <1>7 DEF Stamp
  <2>2. Rows' = Rows
    BY <2>1, <1>1 DEF Rows
  <2>3. \A i \in Rows : /\ finding'[i].state = finding[i].state
                        /\ finding'[i].subject = finding[i].subject
                        /\ finding'[i].reopened = finding[i].reopened
    BY <2>1, <1>1 DEF FindingRow
  <2> QED
    BY <1>2, <2>2, <2>3, NothingNew
<1> QED
  BY <1>3, <1>4, <1>5, <1>6, <1>7 DEF Next, vars, ConditionChanges, CapabilityChanges, StartRun,
     Evaluate, FindExisting, ReadStale, EngineDies, FetchFinding, ReadBatch, Ship, DropBatch

(***************************************************************************)
(* "one finding aged six weeks, not forty-two alerts" (rules/engine.py):   *)
(* while no task overlaps another, of two findings of one subject in the   *)
(* queue one was resolved and brought back by triage (api/views.py:88).    *)
(***************************************************************************)
THEOREM NeverTwoFindings == Spec => []OneFindingPerSubject
<1>1. Init => OneFindingPerSubject
  BY DEF Init, OneFindingPerSubject, Rows
<1>2. EInv /\ OneFindingPerSubject /\ [Next]_vars => OneFindingPerSubject'
  BY OneFindingNext
<1> QED
  BY <1>1, <1>2, EngineInvariant, PTL DEF Spec
==============================================================================
