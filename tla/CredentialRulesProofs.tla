------------------------- MODULE CredentialRulesProofs -------------------------
(***************************************************************************)
(* For every set of credentials' settings, every threshold and every       *)
(* connector: what is overdue, by its interval and by the date the         *)
(* platform sets, is reported; a finding rests on what the record says,    *)
(* with the exceptions the property names; and an account that waits for   *)
(* its deletion is reported only where it has not been seen.               *)
(***************************************************************************)
EXTENDS CredentialRules, TLAPS

(***************************************************************************)
(* The inductive strengthening: a stored account is what the connector     *)
(* made of the record that was last pulled, or that retired; while it is   *)
(* live and the last pull listed it, it was seen that day; and a failure   *)
(* counted, or a switch recorded as turned off, was told by some pull.     *)
(***************************************************************************)
RetiredCopy(item) == [ToAccount(item) EXCEPT !.status = "deleted"]

RuleTypes ==
  /\ vendor \in {"cyberark", "delinea", "beyondtrust", "hashicorp", "generic"}
  /\ today \in Nat
  /\ Held => /\ {secret.changed, secret.attempted, secret.next} \subseteq Nat \cup {Never}
             /\ secret.posture \in Postures
  /\ Held => secret = [held |-> TRUE, posture |-> secret.posture, created |-> secret.created,
                       changed |-> secret.changed, attempted |-> secret.attempted,
                       next |-> secret.next, used |-> secret.used, result |-> secret.result]

StoredAsPulled ==
  Stored => /\ row = [stored |-> TRUE, account |-> row.account, seen |-> row.seen,
                      first |-> row.first, failures |-> row.failures, item |-> row.item,
                      missed |-> row.missed, told |-> row.told]
            /\ row.account \in {ToAccount(row.item), RetiredCopy(row.item)}
            /\ row.failures \in Nat

SeenWhenPulled == pulled \in Nat \cup {Never} /\ (Live /\ ~row.missed => row.seen = pulled)

SaysItself == vendor \notin {"beyondtrust", "hashicorp"}

ToldBefore ==
  /\ Stored => /\ row.item.posture.auto \in {"on", "off", Absent}
               /\ SaysItself /\ row.item.posture.auto # Absent => "switch" \in row.told
               /\ SaysItself /\ switchedOff # Never => "switch" \in row.told
               /\ row.failures > 0 => "failure" \in row.told
  /\ ~Stored => switchedOff = Never

CInv == RuleTypes /\ StoredAsPulled /\ SeenWhenPulled /\ ToldBefore
------------------------------------------------------------------------------
LEMMA RulesInit == Init => CInv
BY RulesAssumption
DEF Init, CInv, RuleTypes, StoredAsPulled, SeenWhenPulled, ToldBefore, Live, Held, Stored, Gone, None

(***************************************************************************)
(* Every connector states the status and the switch, so a retired copy is  *)
(* a deleted one whose switch is kept, and what is live is what the        *)
(* connector made of the record.                                           *)
(***************************************************************************)
LEMMA StatusIsThere ==
  ASSUME RuleTypes, NEW item
  PROVE  {"status", "auto"} \subseteq DOMAIN ToAccount(item)
BY DEF RuleTypes, ToAccount, CyberArkAccount, DelineaAccount, BeyondTrustAccount, VaultAccount,
   GenericAccount

(***************************************************************************)
(* What the connector stores of the switch, the failure, the owner and the *)
(* last use, record by record: `failed' and, but for the two vendors whose *)
(* connectors fill it in, the switch come from something the record says.  *)
(***************************************************************************)
LEMMA FailureIsSaid ==
  ASSUME RuleTypes, NEW item, ToAccount(item).failed
  PROVE  "failure" \in Said(item)
<1>1. CASE vendor = "cyberark"
  BY <1>1 DEF ToAccount, CyberArkAccount, Said
<1>2. CASE vendor = "delinea"
  BY <1>2 DEF ToAccount, DelineaAccount, Said
<1>3. CASE vendor = "beyondtrust"
  BY <1>3 DEF ToAccount, BeyondTrustAccount, Said
<1>4. CASE vendor = "hashicorp"
  BY <1>4 DEF ToAccount, VaultAccount
<1>5. CASE vendor = "generic"
  BY <1>5 DEF ToAccount, GenericAccount, Said
<1> QED
  BY <1>1, <1>2, <1>3, <1>4, <1>5 DEF RuleTypes

LEMMA SwitchAsStored ==
  ASSUME RuleTypes, NEW item
  PROVE  /\ SaysItself => ToAccount(item).auto = Stated(item.posture.auto)
         /\ vendor = "beyondtrust" => ToAccount(item).auto = OffUnlessOn(item.posture.auto)
         /\ vendor = "hashicorp" =>
              ToAccount(item).auto = IF item.posture.interval = Never THEN "off" ELSE "on"
<1>1. CASE vendor = "cyberark"
  BY <1>1 DEF ToAccount, CyberArkAccount
<1>2. CASE vendor = "delinea"
  BY <1>2 DEF ToAccount, DelineaAccount
<1>3. CASE vendor = "beyondtrust"
  BY <1>3 DEF ToAccount, BeyondTrustAccount, SaysItself
<1>4. CASE vendor = "hashicorp"
  BY <1>4 DEF ToAccount, VaultAccount, SaysItself
<1>5. CASE vendor = "generic"
  BY <1>5 DEF ToAccount, GenericAccount
<1> QED
  BY <1>1, <1>2, <1>3, <1>4, <1>5 DEF RuleTypes

LEMMA SwitchOutlivesRetirement ==
  ASSUME RuleTypes, StoredAsPulled, Stored
  PROVE  row.account.auto = ToAccount(row.item).auto
<1>1. RetiredCopy(row.item).auto = ToAccount(row.item).auto
  BY StatusIsThere DEF RetiredCopy
<1> QED
  BY <1>1 DEF StoredAsPulled

LEMMA LiveIsAsPulled ==
  ASSUME RuleTypes, StoredAsPulled, Stored, row.account.status # "deleted"
  PROVE  row.account = ToAccount(row.item)
<1>1. RetiredCopy(row.item).status = "deleted"
  BY StatusIsThere DEF RetiredCopy
<1> QED
  BY <1>1 DEF StoredAsPulled

(***************************************************************************)
(* The platform keeps the shape of its record; the row is not touched.     *)
(***************************************************************************)
LEMMA PlatformKeeps ==
  ASSUME CInv, Appear \/ Disappear \/ Administer \/ Rotate \/ FailToRotate \/ Restate \/ Use
  PROVE  CInv'
<1>1. UNCHANGED <<vendor, row, pulled, switchedOff, today>>
  BY DEF Appear, Disappear, Administer, Rotate, FailToRotate, Restate, Use, VaultStep
<1>2. StoredAsPulled'
  BY <1>1 DEF CInv, StoredAsPulled, Stored, RetiredCopy, ToAccount
<1>3. RuleTypes'
  <2> NextDates \subseteq Nat \cup {Never}
    BY RulesAssumption DEF NextDates, CInv, RuleTypes
  <2>1. CASE Appear
    BY <1>1, <2>1 DEF Appear, CInv, RuleTypes, Held
  <2>2. CASE Disappear
    BY <1>1, <2>2 DEF Disappear, Gone, CInv, RuleTypes, Held
  <2>3. CASE Administer
    BY <1>1, <2>3, ZenonT(40) DEF Administer, CInv, RuleTypes, Held
  <2>4. CASE Rotate
    BY <1>1, <2>4, ZenonT(40) DEF Rotate, CInv, RuleTypes, Held
  <2>5. CASE FailToRotate
    BY <1>1, <2>5, ZenonT(40) DEF FailToRotate, CInv, RuleTypes, Held
  <2>6. CASE Use
    BY <1>1, <2>6, ZenonT(40) DEF Use, CInv, RuleTypes, Held
  <2>7. CASE Restate
    BY <1>1, <2>7, ZenonT(40) DEF Restate, CInv, RuleTypes, Held
  <2> QED
    BY <2>1, <2>2, <2>3, <2>4, <2>5, <2>6, <2>7
<1>4. SeenWhenPulled'
  BY <1>1 DEF CInv, SeenWhenPulled, Live, Account, Stored
<1>5. ToldBefore'
  BY <1>1 DEF CInv, ToldBefore, SaysItself, Stored
<1> QED
  BY <1>2, <1>3, <1>4, <1>5 DEF CInv

(***************************************************************************)
(* A pull stores what the connector makes of the record.                   *)
(***************************************************************************)
LEMMA PullStores ==
  ASSUME CInv, Pull
  PROVE  CInv'
<1>1. UNCHANGED <<vendor, secret, today>> /\ Held
  BY DEF Pull
<1>2. PICK item \in Items :
        /\ row' = [stored |-> TRUE, account |-> ToAccount(item), seen |-> SeenAt,
                   first |-> IF Stored THEN row.first ELSE today,
                   failures |-> IF Stored THEN Failures(row.account, ToAccount(item)) ELSE 0,
                   item |-> item, missed |-> FALSE,
                   told |-> (IF Stored THEN row.told ELSE {}) \cup Said(item)]
        /\ switchedOff' =
             IF Stored /\ row.account.auto # "unknown" /\ row.account.auto # ToAccount(item).auto
                  /\ ToAccount(item).auto # "on"
             THEN today ELSE switchedOff
  BY DEF Pull
<1>3. PICK f, n, t :
        /\ row' = [stored |-> TRUE, account |-> ToAccount(item), seen |-> today, first |-> f,
                   failures |-> n, item |-> item, missed |-> FALSE, told |-> t]
        /\ n = IF Stored THEN Failures(row.account, ToAccount(item)) ELSE 0
        /\ t = (IF Stored THEN row.told ELSE {}) \cup Said(item)
  BY <1>2 DEF SeenAt
<1>4. n \in Nat /\ (n > 0 => ToAccount(item).failed \/ (Stored /\ row.failures > 0))
  BY <1>3, RulesAssumption DEF CInv, StoredAsPulled, Failures
<1>5. ToAccount(item)' = ToAccount(item)
  BY <1>1 DEF ToAccount
<1>6. StoredAsPulled'
  <2>1. row'.item = item /\ row'.account = ToAccount(item) /\ row'.failures \in Nat
    BY <1>3, <1>4
  <2>2. ToAccount(row.item)' = ToAccount(item)
    BY <1>5, <2>1 DEF ToAccount
  <2> QED
    BY <1>3, <2>1, <2>2 DEF StoredAsPulled
<1>7. RuleTypes'
  BY <1>1 DEF CInv, RuleTypes, Held
<1>8. SeenWhenPulled'
  <2>1. row'.seen = today /\ pulled' = today
    BY <1>3 DEF Pull
  <2> QED
    BY <2>1 DEF CInv, RuleTypes, SeenWhenPulled
<1>9. ToldBefore'
  <2>1. row'.stored /\ row'.item = item /\ row'.told = t /\ row'.failures = n
    BY <1>3
  <2>2. item.posture.auto \in {"on", "off", Absent}
    <3>1. CASE item = secret
      BY <1>1, <3>1, RulesAssumption DEF CInv, RuleTypes, Absent
    <3>2. CASE item # secret
      <4>1. item = [secret EXCEPT !.posture = [secret.posture EXCEPT !.auto = Absent,
                                                                     !.heartbeat = Absent]]
        BY <1>2, <3>2 DEF Items, WithoutDetail
      <4>2. item.posture = [secret.posture EXCEPT !.auto = Absent, !.heartbeat = Absent]
        BY <1>1, <4>1 DEF CInv, RuleTypes
      <4>3. CASE "auto" \in DOMAIN secret.posture
        BY <4>2, <4>3
      <4> QED
        BY <4>2, <4>3
    <3> QED
      BY <3>1, <3>2
  <2>3. item.posture.auto # Absent => "switch" \in t
    BY <1>3 DEF Said
  <2>4. n > 0 => "failure" \in t
    BY <1>3, <1>4, FailureIsSaid DEF CInv, ToldBefore
  <2>5. SaysItself /\ switchedOff' # Never => "switch" \in t
    <3> SUFFICES ASSUME SaysItself, switchedOff' # Never
                 PROVE  "switch" \in t
      OBVIOUS
    <3>1. CASE switchedOff' = switchedOff
      BY <1>3, <3>1 DEF CInv, ToldBefore
    <3>2. CASE switchedOff' # switchedOff
      <4>1. Stored /\ row.account.auto # "unknown"
        BY <1>2, <3>2
      <4>2. row.account.auto = Stated(row.item.posture.auto)
        <5>1. row.account.auto = ToAccount(row.item).auto
          BY <4>1, SwitchOutlivesRetirement DEF CInv
        <5> QED
          BY <5>1, SwitchAsStored DEF CInv
      <4>3. row.item.posture.auto # Absent
        BY <4>1, <4>2 DEF Stated
      <4> QED
        BY <1>3, <4>1, <4>3 DEF CInv, ToldBefore
    <3> QED
      BY <3>1, <3>2
  <2> QED
    BY <1>1, <2>1, <2>2, <2>3, <2>4, <2>5 DEF ToldBefore, SaysItself, Stored
<1> QED
  BY <1>6, <1>7, <1>8, <1>9 DEF CInv

(***************************************************************************)
(* An account that is missing from a pull keeps all but its status.        *)
(***************************************************************************)
LEMMA RetireKeeps ==
  ASSUME CInv, Retire
  PROVE  CInv'
<1>1. UNCHANGED <<vendor, secret, switchedOff, today>> /\ Stored /\ row.account.status # "deleted"
  BY DEF Retire
<1> DEFINE copy == [row.account EXCEPT !.status = "deleted"]
<1>2. row' = [row EXCEPT !.account = copy]
  BY DEF Retire
<1>3. row.account = ToAccount(row.item)
  BY <1>1, LiveIsAsPulled DEF CInv
<1>4. PICK a, d, f, n, i, m, t :
        row = [stored |-> TRUE, account |-> a, seen |-> d, first |-> f, failures |-> n, item |-> i,
               missed |-> m, told |-> t]
  BY <1>1 DEF CInv, StoredAsPulled
<1>5. copy = RetiredCopy(row.item)
  BY <1>3 DEF RetiredCopy
<1> HIDE DEF copy
<1>6. row' = [stored |-> TRUE, account |-> copy, seen |-> d, first |-> f, failures |-> n, item |-> i,
              missed |-> m, told |-> t]
  BY <1>2, <1>4
<1>7. /\ row'.stored /\ row'.account = copy /\ row'.item = row.item /\ row'.failures = row.failures
      /\ row'.told = row.told
  BY <1>4, <1>6
<1>8. RetiredCopy(row.item)' = copy
  BY <1>1, <1>5, <1>7 DEF RetiredCopy, ToAccount
<1>9. StoredAsPulled'
  BY <1>1, <1>6, <1>7, <1>8 DEF CInv, StoredAsPulled
<1>10. RuleTypes'
  BY <1>1 DEF CInv, RuleTypes, Held
<1>11. SeenWhenPulled'
  <2>1. "status" \in DOMAIN ToAccount(row.item)
    BY StatusIsThere DEF CInv
  <2>2. row'.account.status = "deleted"
    BY <1>5, <1>7, <2>1 DEF RetiredCopy
  <2> QED
    BY <2>2 DEF CInv, RuleTypes, SeenWhenPulled, Live, Account, Retire
<1>12. ToldBefore'
  BY <1>1, <1>7 DEF CInv, ToldBefore, SaysItself, Stored
<1> QED
  BY <1>9, <1>10, <1>11, <1>12 DEF CInv

(***************************************************************************)
(* A pull that is too short leaves the row as it is, but for the history.  *)
(***************************************************************************)
LEMMA PassOverKeeps ==
  ASSUME CInv, PassOver
  PROVE  CInv'
<1>1. UNCHANGED <<vendor, secret, switchedOff, today>> /\ Stored /\ pulled' = today
  BY DEF PassOver, Live
<1>2. PICK a, d, f, n, i, m, t :
        row = [stored |-> TRUE, account |-> a, seen |-> d, first |-> f, failures |-> n, item |-> i,
               missed |-> m, told |-> t]
  BY <1>1 DEF CInv, StoredAsPulled
<1>3. row' = [stored |-> TRUE, account |-> a, seen |-> d, first |-> f, failures |-> n, item |-> i,
              missed |-> TRUE, told |-> t]
  BY <1>2 DEF PassOver
<1>4. /\ row'.stored /\ row'.account = row.account /\ row'.item = row.item
      /\ row'.failures = row.failures /\ row'.told = row.told /\ row'.missed
  BY <1>2, <1>3
<1>5. StoredAsPulled'
  BY <1>1, <1>3, <1>4 DEF CInv, StoredAsPulled, RetiredCopy, ToAccount
<1>6. RuleTypes'
  BY <1>1 DEF CInv, RuleTypes, Held
<1>7. SeenWhenPulled'
  BY <1>1, <1>4 DEF CInv, RuleTypes, SeenWhenPulled
<1>8. ToldBefore'
  BY <1>1, <1>4 DEF CInv, ToldBefore, SaysItself, Stored
<1> QED
  BY <1>5, <1>6, <1>7, <1>8 DEF CInv

LEMMA RulesNext == CInv /\ [Next]_vars => CInv'
<1> SUFFICES ASSUME CInv, [Next]_vars PROVE CInv'
  OBVIOUS
<1>1. CASE NextDay \/ Sweep \/ UNCHANGED vars
  <2>1. UNCHANGED <<vendor, secret, row, pulled, switchedOff>> /\ today' \in {today, today + 1}
    BY <1>1 DEF NextDay, Sweep, vars
  <2>2. RuleTypes'
    BY <2>1 DEF CInv, RuleTypes, Held
  <2>3. StoredAsPulled'
    BY <2>1 DEF CInv, StoredAsPulled, Stored, RetiredCopy, ToAccount
  <2>4. SeenWhenPulled'
    BY <2>1 DEF CInv, SeenWhenPulled, Live, Account, Stored
  <2>5. ToldBefore'
    BY <2>1 DEF CInv, ToldBefore, SaysItself, Stored
  <2> QED
    BY <2>2, <2>3, <2>4, <2>5 DEF CInv
<1> QED
  BY <1>1, PlatformKeeps, PullStores, RetireKeeps, PassOverKeeps DEF Next
------------------------------------------------------------------------------
(***************************************************************************)
(* A rotation is due an interval after the last change at the latest, or   *)
(* on the day the platform itself has set.                                 *)
(***************************************************************************)
LEMMA DueByTheLastChange ==
  ASSUME CInv, Held, Active, row.item = secret, LastChange # Never
  PROVE  /\ RotationDue \in Int
         /\ \/ RotationDue <= LastChange + PolicyInterval
            \/ secret.next # Never /\ RotationDue = secret.next
<1>1. Account = ToAccount(secret)
  BY LiveIsAsPulled DEF CInv, Active, Account
<1>2. /\ {secret.changed, secret.attempted, secret.next} \subseteq Nat \cup {Never}
      /\ secret.posture.interval \in Nat \cup {Never} /\ FallbackInterval \in Nat
  BY RulesAssumption DEF CInv, RuleTypes
<1>3. CASE vendor = "cyberark"
  <2>1. /\ Account.changed = secret.changed /\ Account.interval = WholeDays(secret.posture.interval)
        /\ Account.due = DueAfter(secret.changed, WholeDays(secret.posture.interval))
    BY <1>1, <1>3 DEF ToAccount, CyberArkAccount
  <2> QED
    BY <1>2, <1>3, <2>1 DEF RotationDue, DueAfter, WholeDays, LastChange, PolicyInterval, Never
<1>4. CASE vendor = "delinea"
  <2>1. /\ Account.changed = IF secret.attempted # Never THEN secret.attempted ELSE secret.changed
        /\ Account.interval = WholeDays(secret.posture.interval) /\ Account.due = Never
    BY <1>1, <1>4 DEF ToAccount, DelineaAccount
  <2> QED
    BY <1>2, <1>4, <2>1 DEF RotationDue, WholeDays, LastChange, PolicyInterval, Never
<1>5. CASE vendor = "beyondtrust"
  <2>1. /\ Account.changed = secret.changed /\ Account.interval = WholeDays(secret.posture.interval)
        /\ Account.due = secret.next
    BY <1>1, <1>5 DEF ToAccount, BeyondTrustAccount
  <2> QED
    BY <1>2, <1>5, <2>1 DEF RotationDue, WholeDays, LastChange, PolicyInterval, Never
<1>6. CASE vendor = "hashicorp"
  <2>1. /\ Account.changed = secret.changed
        /\ Account.interval = IF secret.posture.interval = 0 THEN 1 ELSE secret.posture.interval
        /\ Account.due = DueAfter(secret.changed, secret.posture.interval)
    BY <1>1, <1>6 DEF ToAccount, VaultAccount
  <2> QED
    BY <1>2, <1>6, <2>1 DEF RotationDue, DueAfter, LastChange, PolicyInterval, Never
<1>7. CASE vendor = "generic"
  <2>1. /\ Account.changed = secret.changed /\ Account.interval = WholeDays(secret.posture.interval)
        /\ Account.due = IF secret.next # Never THEN secret.next
                         ELSE DueAfter(secret.changed, WholeDays(secret.posture.interval))
    BY <1>1, <1>7 DEF ToAccount, GenericAccount
  <2> QED
    BY <1>2, <1>7, <2>1 DEF RotationDue, DueAfter, WholeDays, LastChange, PolicyInterval, Never
<1> QED
  BY <1>3, <1>4, <1>5, <1>6, <1>7 DEF CInv, RuleTypes

(***************************************************************************)
(* A credential whose interval has run out since its last change, and with *)
(* it any date the platform has set, is a candidate of ROT-001 at every    *)
(* moment its row is up to date: no connector has to declare anything for  *)
(* that rule.                                                              *)
(***************************************************************************)
THEOREM OverdueIsAlwaysReported == Spec => []OverdueIsReported
<1>1. CInv => OverdueIsReported
  <2> SUFFICES ASSUME CInv, Held, Active, row.item = secret, TrulyOverdue
               PROVE  Finding("ROT-001") \in Candidates
    BY DEF OverdueIsReported
  <2>1. today > RotationDue + Grace
    <3>1. /\ LastChange # Never /\ today > LastChange + PolicyInterval + Grace
          /\ secret.next # Never => today > secret.next + Grace
      BY DEF TrulyOverdue
    <3>2. /\ LastChange \in Nat /\ PolicyInterval \in Nat /\ Grace \in Nat /\ today \in Nat
          /\ secret.next \in Nat \cup {Never}
      BY <3>1, RulesAssumption DEF CInv, RuleTypes, LastChange, PolicyInterval
    <3>3. /\ RotationDue \in Int
          /\ \/ RotationDue <= LastChange + PolicyInterval
             \/ secret.next # Never /\ RotationDue = secret.next
      BY <3>1, DueByTheLastChange
    <3> QED
      BY <3>1, <3>2, <3>3 DEF Never
  <2>2. Fires["ROT-001"] = RotationOverdue
    BY DEF Fires, Rules
  <2>3. RotationOverdue
    BY <2>1 DEF RotationOverdue
  <2>4. "ROT-001" \in Supported
    BY DEF Supported, Rules, Requires, Capabilities, CInv, RuleTypes
  <2> QED
    BY <2>2, <2>3, <2>4 DEF Candidates, Finding
<1> QED
  BY <1>1, RulesInit, RulesNext, PTL DEF Spec
------------------------------------------------------------------------------
(***************************************************************************)
(* A finding opens in a sweep only, for a rule the connector's             *)
(* capabilities support and whose condition the stored row meets.          *)
(***************************************************************************)
LEMMA OpenedBySweep ==
  ASSUME [Next]_vars, NEW rule \in Rules \ {"ONB-001"}, Newly(rule)
  PROVE  Sweep /\ rule \in Supported /\ Fires[rule]
<1>1. open' # open
  BY DEF Newly
<1>2. Sweep
  BY <1>1 DEF Next, vars, VaultStep, Appear, Disappear, Administer, Rotate, FailToRotate, Restate, Use,
     Pull, Retire, PassOver, NextDay
<1>3. Finding(rule) \in Candidates
  BY <1>2 DEF Sweep, Newly
<1>4. rule # "ONB-001"
  OBVIOUS
<1> QED
  BY <1>2, <1>3, <1>4 DEF Candidates, Finding

(***************************************************************************)
(* What each field a rule reads says of the record, connector by           *)
(* connector.                                                              *)
(***************************************************************************)
LEMMA VerifiedOffIsStated ==
  ASSUME RuleTypes, NEW item, ToAccount(item).verified = "off"
  PROVE  item.result \notin Named \/ item.posture.heartbeat = "off"
<1>1. CASE vendor = "cyberark"
  BY <1>1 DEF ToAccount, CyberArkAccount, Outcome, Named
<1>2. CASE vendor = "delinea"
  BY <1>2 DEF ToAccount, DelineaAccount, Stated
<1>3. CASE vendor = "beyondtrust"
  BY <1>3 DEF ToAccount, BeyondTrustAccount, Outcome, Named
<1>4. CASE vendor = "hashicorp"
  BY <1>4 DEF ToAccount, VaultAccount
<1>5. CASE vendor = "generic"
  BY <1>5 DEF ToAccount, GenericAccount, Stated
<1> QED
  BY <1>1, <1>2, <1>3, <1>4, <1>5 DEF RuleTypes

LEMMA OwnerAndUseAreStated ==
  ASSUME RuleTypes, NEW item
  PROVE  /\ ToAccount(item).owner # Nobody => item.posture.owner # Nobody
         /\ ToAccount(item).used # Never => item.used # Never
<1>1. CASE vendor = "cyberark"
  BY <1>1 DEF ToAccount, CyberArkAccount
<1>2. CASE vendor = "delinea"
  BY <1>2 DEF ToAccount, DelineaAccount
<1>3. CASE vendor = "beyondtrust"
  BY <1>3 DEF ToAccount, BeyondTrustAccount
<1>4. CASE vendor = "hashicorp"
  BY <1>4 DEF ToAccount, VaultAccount
<1>5. CASE vendor = "generic"
  BY <1>5 DEF ToAccount, GenericAccount
<1> QED
  BY <1>1, <1>2, <1>3, <1>4, <1>5 DEF RuleTypes

(***************************************************************************)
(* A finding rests on what the record says, for every vendor's record and  *)
(* every threshold, but for the exceptions AccusationsRestOnTheRecord      *)
(* names.  The argument behind BOT-003 and ROT-002, which look back: a     *)
(* switch recorded as turned off was stated by some pull before it fell    *)
(* silent, and a counted failure was told by some pull.                    *)
(***************************************************************************)
THEOREM FindingsRestOnTheRecord == Spec => AccusationsRestOnTheRecord
<1> DEFINE item == row.item
<1>1. CInv /\ [Next]_vars =>
        (Newly("ROT-003") => item.result \notin Named \/ item.posture.heartbeat = "off")
  <2> SUFFICES ASSUME CInv, [Next]_vars, Newly("ROT-003")
               PROVE  item.result \notin Named \/ item.posture.heartbeat = "off"
    OBVIOUS
  <2>1. VaultOutOfSync
    BY OpenedBySweep DEF Rules, Fires
  <2> QED
    BY <2>1, LiveIsAsPulled, VerifiedOffIsStated DEF VaultOutOfSync, Live, Account, CInv
<1>2. CInv /\ [Next]_vars => (Newly("ROT-002") /\ FailureThreshold > 0 => "failure" \in row.told)
  <2> SUFFICES ASSUME CInv, [Next]_vars, Newly("ROT-002"), FailureThreshold > 0
               PROVE  "failure" \in row.told
    OBVIOUS
  <2>1. RotationFailing
    BY OpenedBySweep DEF Rules, Fires
  <2>2. Stored /\ row.failures > 0
    BY <2>1, RulesAssumption DEF RotationFailing, Live, CInv, StoredAsPulled
  <2> QED
    BY <2>2 DEF CInv, ToldBefore
<1>3. CInv /\ [Next]_vars => (Newly("BOT-001") => SaysOff(item))
  <2> SUFFICES ASSUME CInv, [Next]_vars, Newly("BOT-001")
               PROVE  SaysOff(item)
    OBVIOUS
  <2>1. NonHumanRotationDisabled
    BY OpenedBySweep DEF Rules, Fires
  <2>2. ToAccount(item).auto = "off"
    BY <2>1, LiveIsAsPulled DEF NonHumanRotationDisabled, Active, Account, CInv
  <2> QED
    BY <2>2, SwitchAsStored DEF CInv, RuleTypes, SaysOff, SaysItself, Stated, OffUnlessOn
<1>4. CInv /\ [Next]_vars =>
        (Newly("BOT-003") =>
           SaysOff(item) \/ (item.posture.auto = Absent /\ "switch" \in row.told))
  <2> SUFFICES ASSUME CInv, [Next]_vars, Newly("BOT-003"), ~SaysOff(item)
               PROVE  item.posture.auto = Absent /\ "switch" \in row.told
    OBVIOUS
  <2>1. Stored /\ switchedOff # Never /\ Account.auto # "on"
    BY OpenedBySweep DEF Rules, Fires, NonHumanRotationDisabledRecently
  <2>2. ToAccount(item).auto # "on"
    BY <2>1, SwitchOutlivesRetirement DEF CInv, Account
  <2>3. SaysItself
    <3>1. CASE vendor = "beyondtrust"
      BY <2>2, <3>1, SwitchAsStored DEF CInv, SaysOff, OffUnlessOn
    <3>2. CASE vendor = "hashicorp"
      BY <2>2, <3>2, SwitchAsStored DEF CInv, SaysOff
    <3> QED
      BY <3>1, <3>2 DEF SaysItself
  <2>4. item.posture.auto # "off"
    BY <2>3 DEF SaysOff, SaysItself
  <2>5. item.posture.auto # "on"
    BY <2>2, <2>3, SwitchAsStored DEF CInv, Stated, Absent
  <2> QED
    BY <2>1, <2>3, <2>4, <2>5 DEF CInv, ToldBefore
<1>5. CInv /\ [Next]_vars => (Newly("OWN-002") => item.posture.owner # Nobody)
  <2> SUFFICES ASSUME CInv, [Next]_vars, Newly("OWN-002")
               PROVE  item.posture.owner # Nobody
    OBVIOUS
  <2>1. OwnerDeparted
    BY OpenedBySweep DEF Rules, Fires
  <2> QED
    BY <2>1, LiveIsAsPulled, OwnerAndUseAreStated DEF OwnerDeparted, Live, Account, CInv
<1>6. CInv /\ [Next]_vars => (Newly("USE-001") => item.used # Never)
  <2> SUFFICES ASSUME CInv, [Next]_vars, Newly("USE-001")
               PROVE  item.used # Never
    OBVIOUS
  <2>1. DormantPrivilegedAccount
    BY OpenedBySweep DEF Rules, Fires
  <2> QED
    BY <2>1, LiveIsAsPulled, OwnerAndUseAreStated
    DEF DormantPrivilegedAccount, OlderThan, Active, Account, CInv
<1>7. CInv /\ [Next]_vars => (Newly("SOD-001") => SaysShared(item))
  <2> SUFFICES ASSUME CInv, [Next]_vars, Newly("SOD-001")
               PROVE  SaysShared(item)
    OBVIOUS
  <2>1. SharedHumanAccount /\ "SOD-001" \in Supported
    BY OpenedBySweep DEF Rules, Fires
  <2>2. ToAccount(item).exclusive = "off"
    BY <2>1, LiveIsAsPulled DEF SharedHumanAccount, Active, Account, CInv
  <2>3. CASE vendor = "beyondtrust"
    BY <2>2, <2>3 DEF ToAccount, BeyondTrustAccount, SaysShared
  <2>4. CASE vendor = "generic"
    BY <2>2, <2>4 DEF ToAccount, GenericAccount, SaysShared, Stated
  <2> QED
    BY <2>1, <2>3, <2>4 DEF Supported, Requires, Capabilities, CInv, RuleTypes
<1>8. CInv /\ [Next]_vars =>
        [/\ Newly("ROT-003") => item.result \notin Named \/ item.posture.heartbeat = "off"
         /\ Newly("ROT-002") /\ FailureThreshold > 0 => "failure" \in row.told
         /\ Newly("BOT-001") => SaysOff(item)
         /\ Newly("BOT-003") => SaysOff(item) \/ (item.posture.auto = Absent /\ "switch" \in row.told)
         /\ Newly("OWN-002") => item.posture.owner # Nobody
         /\ Newly("USE-001") => item.used # Never
         /\ Newly("SOD-001") => SaysShared(item)]_vars
  BY <1>1, <1>2, <1>3, <1>4, <1>5, <1>6, <1>7, Zenon
<1> QED
  BY <1>8, RulesInit, RulesNext, PTL DEF Spec, AccusationsRestOnTheRecord

(***************************************************************************)
(* Where DEL-001 reports an account that no pull has missed, none has come *)
(* through for the whole grace, and OPS-001 reports the platform if the    *)
(* grace is two collection intervals or more: every pull that lists the    *)
(* account refreshes the date the rule waits on.                           *)
(***************************************************************************)
THEOREM PendingDeletionMeansUnseen == Spec => PendingDeletionOnlySeenWhenBlind
<1> DEFINE blind == /\ pulled + PendingGrace < today
                    /\ 2 * CollectionDays <= PendingGrace => Finding("OPS-001") \in open'
<1>1. CInv /\ [Next]_vars => (Newly("DEL-001") /\ ~row.missed => blind)
  <2> SUFFICES ASSUME CInv, [Next]_vars, Newly("DEL-001"), ~row.missed
               PROVE  blind
    OBVIOUS
  <2>1. Sweep /\ StalePendingDeletion
    BY OpenedBySweep DEF Rules, Fires
  <2>2. row.seen = pulled /\ pulled # Never /\ pulled + PendingGrace < today
    BY <2>1 DEF StalePendingDeletion, OlderThan, Account, CInv, SeenWhenPulled, Live
  <2> SUFFICES ASSUME 2 * CollectionDays <= PendingGrace
               PROVE  Finding("OPS-001") \in open'
    BY <2>2
  <2>3. CollectionOverdue
    <3>1. pulled \in Nat /\ today \in Nat /\ PendingGrace \in Nat /\ CollectionDays \in Nat
      BY <2>2, RulesAssumption DEF CInv, SeenWhenPulled, RuleTypes
    <3> QED
      BY <2>2, <3>1 DEF CollectionOverdue
  <2>4. Fires["OPS-001"]
    BY <2>1, <2>3 DEF Fires, Rules, CollectionStale, StalePendingDeletion
  <2>5. "OPS-001" \in Supported
    BY DEF Supported, Rules, Requires, Capabilities, CInv, RuleTypes
  <2> QED
    BY <2>1, <2>4, <2>5 DEF Sweep, Candidates, Finding
<1>2. CInv /\ [Next]_vars => [Newly("DEL-001") /\ ~row.missed => blind]_vars
  BY <1>1
<1> QED
  BY <1>2, RulesInit, RulesNext, PTL DEF Spec, PendingDeletionOnlySeenWhenBlind
==============================================================================
