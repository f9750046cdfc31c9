----------------------------- MODULE CredentialRules -----------------------------
(***************************************************************************)
(* From what a vault says about one credential to the findings about it:   *)
(* each connector's _to_account normalises the vendor's record, the        *)
(* reconciliation stores it and counts failures, time passes, and a sweep  *)
(* of the engine evaluates the rules of rules/builtin.py that read the     *)
(* inventory and closes what has cleared.                                  *)
(*                                                                         *)
(* A vendor's record may lack a field; what the connector makes of the     *)
(* silence decides what the rules see.  Dates are days; a pull and a sweep *)
(* may happen at any moment of a day, any number of times.                 *)
(***************************************************************************)
EXTENDS Integers, FiniteSets

CONSTANTS
  Vendors,          \* the connectors the platform may be read with
  Postures,         \* the administrative part of a vendor's record
  Discovered,       \* names a scanner found on the target on the first day
  Own,              \* the account's own name
  ActiveIdentities, \* the cache entry of the identity feed, empty when there is none
  FallbackInterval, \* ROT-001 fallback_interval_days
  Grace,            \* ROT-001 grace_days
  FailureThreshold, \* ROT-002 failure_threshold
  MinimumAge,       \* BOT-002, ONB-001 minimum_age_days
  Lookback,         \* BOT-003 lookback_days
  DormantDays,      \* USE-001 dormant_days
  Entitled,         \* SOD-001 entitlement_threshold
  PendingGrace,     \* DEL-001 grace_days
  CollectionDays,   \* collection_interval_minutes, in days
  MaxDay,           \* bound: the last day
  Delays,           \* how far ahead a platform may set the next rotation, in days
  MaxChanges        \* bound: how often the vault changes

Never == -1

ASSUME RulesAssumption ==
  /\ Vendors \subseteq {"cyberark", "delinea", "beyondtrust", "hashicorp", "generic"}
  /\ {FallbackInterval, Grace, FailureThreshold, MinimumAge, Lookback, DormantDays, Entitled,
      PendingGrace, CollectionDays, MaxDay, MaxChanges} \subseteq Nat
  /\ Delays \subseteq Nat
  /\ \A p \in Postures :
       p.interval \in Nat \cup {Never} /\ p.auto \in {"on", "off", "absent"}

VARIABLES
  vendor,      \* the connector of the platform
  secret,      \* the vendor's record of the credential, or Gone
  row,         \* the ManagedAccount row, or None
  pulled,      \* last_successful_collection, or Never
  switchedOff, \* the day of the last AUTO_ROTATION_DISABLED event, or Never
  onboarded,   \* the discoveries marked onboarded
  open,        \* the rules with an open finding about this account
  today,
  changes      \* how often the vault has changed

vars == <<vendor, secret, row, pulled, switchedOff, onboarded, open,
          today, changes>>
------------------------------------------------------------------------------
Absent == "absent"
Null == "null"
Nobody == ""
Gone == [held |-> FALSE]
None == [stored |-> FALSE]

NonHuman == {"service", "bot", "application"}

Held == secret.held
Stored == row.stored
Account == row.account
Live == Stored /\ Account.status # "deleted"

\* History of the pulls, which no rule reads: what they have said of the credential.  A null
\* result is a failure to Password Safe, whose connector tells it from a missing one.
Said(item) ==
  {s \in {"switch", "failure"} :
     CASE s = "switch" -> item.posture.auto # Absent
       [] OTHER -> \/ item.result = "failed"
                   \/ vendor = "beyondtrust" /\ item.result \notin {"success", Absent}}

Init ==
  /\ vendor \in Vendors
  /\ today = 0 /\ changes = 0
  /\ secret = Gone /\ row = None /\ pulled = Never /\ switchedOff = Never
  /\ onboarded = {} /\ open = {}
------------------------------------------------------------------------------
(***************************************************************************)
(* The platform.  A rotation attempt succeeds or fails; an administrator   *)
(* changes the rest; somebody uses the credential.  Two connectors read    *)
(* the date the platform itself has set for the next rotation, which need  *)
(* not be an interval away.                                                *)
(***************************************************************************)
VaultStep ==
  /\ changes < MaxChanges /\ changes' = changes + 1
  /\ UNCHANGED <<vendor, row, pulled, switchedOff, onboarded, open, today>>

NextDates ==
  {Never} \cup (IF vendor \in {"beyondtrust", "generic"} THEN {today + d : d \in Delays} ELSE {})

\* Only one connector tells a null result from a missing one.
NoResult == {Null} \cup (IF vendor = "beyondtrust" THEN {Absent} ELSE {})

\* A platform may set a new password as it takes the credential in.
Appear ==
  /\ ~Held
  /\ \E p \in Postures, next \in NextDates,
        first \in ({Never} \X NoResult) \cup {<<today, "success">>} :
       secret' = [held |-> TRUE, posture |-> p, created |-> today, changed |-> first[1],
                  attempted |-> first[1], next |-> next, used |-> Never, result |-> first[2]]
  /\ VaultStep

Disappear == Held /\ secret' = Gone /\ VaultStep

Administer ==
  /\ Held
  /\ \E p \in Postures \ {secret.posture} : secret' = [secret EXCEPT !.posture = p]
  /\ VaultStep

Rotate ==
  /\ Held
  /\ \E next \in NextDates :
       secret' = [secret EXCEPT !.changed = today, !.attempted = today, !.next = next,
                                !.result = "success"]
  /\ VaultStep

FailToRotate ==
  /\ Held
  /\ secret' = [secret EXCEPT !.attempted = today, !.result = "failed"]
  /\ VaultStep

\* Where the status is a text of the platform's own: a rotation under way, a file marked deleted.
Restate ==
  /\ Held /\ vendor \in {"cyberark", "beyondtrust"}
  /\ \E text \in {"pending", "deleted"} \ {secret.result} : secret' = [secret EXCEPT !.result = text]
  /\ VaultStep

\* The date is kept where a connector reads it.
Use ==
  /\ Held /\ secret.used # today /\ vendor \notin {"beyondtrust", "hashicorp"}
  /\ secret' = [secret EXCEPT !.used = today]
  /\ VaultStep
------------------------------------------------------------------------------
(***************************************************************************)
(* _to_account of each connector.  A truth value is on, off or unknown.    *)
(***************************************************************************)
Stated(value) == IF value = Absent THEN "unknown" ELSE value
OffUnlessOn(value) == IF value = "on" THEN "on" ELSE "off"
\* int(interval) if interval: zero days are no interval.
WholeDays(interval) == IF interval = 0 THEN Never ELSE interval
DueAfter(changed, interval) == IF Never \in {changed, interval} THEN Never ELSE changed + interval
\* Mutant: a copy nobody has verified is out of step.
WorstOutcome(result) == IF result = "success" THEN "on" ELSE "off"

\* Any text but success is a copy out of step; only where there is none is nothing known.
Outcome(result) ==
  CASE result \in {Null, Absent} -> "unknown" [] result = "success" -> "on" [] OTHER -> "off"
TextOf(status) == IF status = "disabled" THEN "disabled" ELSE "active"

CyberArkStatus(item) ==
  CASE item.posture.managed = "manually" -> "active"
    [] item.result = "deleted" -> "disabled"
    [] item.posture.managed = Absent /\ item.result \in {Null, Absent} -> "unknown"
    [] OTHER -> "active"

\* One status text serves as verification, as rotation result and as status.
CyberArkAccount(item) ==
  [kind |-> item.posture.kind,
   status |-> CyberArkStatus(item), onboarded |-> item.created, changed |-> item.changed,
   interval |-> WholeDays(item.posture.interval),
   due |-> DueAfter(item.changed, WholeDays(item.posture.interval)),
   auto |-> Stated(item.posture.auto),
   verified |-> Outcome(item.result),
   failed |-> item.result = "failed", owner |-> item.posture.owner, used |-> item.used,
   exclusive |-> OffUnlessOn(item.posture.exclusive), entitled |-> Never]

\* The date of an attempt stands for the date of the change; a pending heartbeat is a good one.
DelineaAccount(item) ==
  [kind |-> item.posture.kind,
   status |-> TextOf(item.posture.status), onboarded |-> item.created,
   changed |-> IF item.attempted # Never THEN item.attempted ELSE item.changed,
   interval |-> WholeDays(item.posture.interval), due |-> Never,
   auto |-> Stated(item.posture.auto),
   verified |-> IF item.posture.heartbeat = "pending" THEN "on" ELSE Stated(item.posture.heartbeat),
   failed |-> item.result = "failed", owner |-> item.posture.owner, used |-> item.used,
   exclusive |-> OffUnlessOn(item.posture.exclusive), entitled |-> Never]

\* bool() of an absent flag is off; a result that is null, not missing, is "none": a failure.
BeyondTrustAccount(item) ==
  [kind |-> item.posture.kind,
   status |-> TextOf(item.posture.status), onboarded |-> Never,
   changed |-> item.changed, interval |-> WholeDays(item.posture.interval), due |-> item.next,
   auto |-> OffUnlessOn(item.posture.auto),
   verified |-> Outcome(item.result),
   failed |-> item.result \notin {"success", Absent}, owner |-> item.posture.owner, used |-> Never,
   exclusive |-> IF item.posture.exclusive = "on" /\ item.posture.entitled = 1 THEN "on" ELSE "off",
   entitled |-> item.posture.entitled]

\* A static role rotates when it has a period.  One shorter than a day, 0 here, is due by its
\* seconds and counts as a day.
VaultAccount(item) ==
  [kind |-> item.posture.kind,
   status |-> "active", onboarded |-> Never, changed |-> item.changed,
   interval |-> IF item.posture.interval = 0 THEN 1 ELSE item.posture.interval,
   due |-> DueAfter(item.changed, item.posture.interval),
   auto |-> IF item.posture.interval = Never THEN "off" ELSE "on", verified |-> "unknown",
   failed |-> FALSE, owner |-> Nobody, used |-> Never, exclusive |-> "unknown", entitled |-> Never]

\* Every field mapped, and left out where the platform says nothing; a due date it does not
\* state is computed.
GenericAccount(item) ==
  [kind |-> item.posture.kind,
   status |-> Stated(item.posture.status), onboarded |-> item.created, changed |-> item.changed,
   interval |-> WholeDays(item.posture.interval),
   due |-> IF item.next # Never THEN item.next
           ELSE DueAfter(item.changed, WholeDays(item.posture.interval)),
   auto |-> Stated(item.posture.auto), verified |-> Stated(item.posture.heartbeat),
   failed |-> item.result = "failed", owner |-> item.posture.owner, used |-> item.used,
   exclusive |-> Stated(item.posture.exclusive), entitled |-> item.posture.entitled]

ToAccount(item) ==
  CASE vendor = "cyberark" -> CyberArkAccount(item)
    [] vendor = "delinea" -> DelineaAccount(item)
    [] vendor = "beyondtrust" -> BeyondTrustAccount(item)
    [] vendor = "hashicorp" -> VaultAccount(item)
    [] OTHER -> GenericAccount(item)

------------------------------------------------------------------------------
(***************************************************************************)
(* Secret Server gives the heartbeat and the rotation switch with each     *)
(* secret's summary, and a refused summary leaves them out.                *)
(***************************************************************************)
WithoutDetail(item) ==
  [item EXCEPT !.posture = [@ EXCEPT !.auto = Absent, !.heartbeat = Absent]]

Items == IF vendor = "delinea" THEN {secret, WithoutDetail(secret)} ELSE {secret}
------------------------------------------------------------------------------
\* Mutant: only a failure after a success counts.
FailuresOfTransitions(account, incoming) ==
  IF incoming.failed /\ ~account.failed THEN row.failures + 1 ELSE row.failures

\* A new rotation date clears the counter; each pull that reports a failure adds one.
Failures(account, incoming) ==
  LET rotated == incoming.changed # Never /\ incoming.changed # account.changed
      before == IF rotated THEN 0 ELSE row.failures
      after == before + (IF incoming.failed THEN 1 ELSE 0)
  IN IF after > FailureThreshold THEN FailureThreshold ELSE after

\* Mutant: an update leaves the date the account was first stored.
SeenAtFirst == IF Stored THEN row.seen ELSE today

\* _create_account and _apply_update stamp the row with every pull.
SeenAt == today

\* collect_system's capabilities and rows, one account of it: create, or compare and overwrite.
Pull ==
  /\ Held
  /\ \E item \in Items :
       LET incoming == ToAccount(item)
       IN /\ row' = [stored |-> TRUE, account |-> incoming, seen |-> SeenAt,
                     first |-> IF Stored THEN row.first ELSE today,
                     failures |-> IF Stored THEN Failures(row.account, incoming) ELSE 0,
                     item |-> item, missed |-> FALSE,
                     told |-> (IF Stored THEN row.told ELSE {}) \cup Said(item)]
          /\ switchedOff' =
               IF Stored /\ row.account.auto # "unknown" /\ row.account.auto # incoming.auto
                    /\ incoming.auto # "on"
               THEN today ELSE switchedOff
  /\ pulled' = today
  /\ UNCHANGED <<vendor, secret, onboarded, open, today, changes>>

\* The account is missing from a pull that is long enough to be believed.
Retire ==
  /\ ~Held /\ Stored /\ row.account.status # "deleted"
  /\ row' = [row EXCEPT !.account = [@ EXCEPT !.status = "deleted"]]
  /\ pulled' = today
  /\ UNCHANGED <<vendor, secret, switchedOff, onboarded, open, today, changes>>

\* The listing has less than half of what the platform is known to hold: nothing is retired,
\* the row stays as it was, and the platform counts as collected all the same.
PassOver ==
  /\ Live
  /\ row' = [row EXCEPT !.missed = TRUE]
  /\ pulled' = today
  /\ UNCHANGED <<vendor, secret, switchedOff, onboarded, open, today, changes>>

NextDay ==
  /\ today < MaxDay /\ today' = today + 1
  /\ UNCHANGED <<vendor, secret, row, pulled, switchedOff, onboarded, open, changes>>
------------------------------------------------------------------------------
(***************************************************************************)
(* The rules.  Each is judged on the stored row; live() leaves out what is *)
(* deleted.                                                                *)
(***************************************************************************)
Active == Stored /\ Account.status = "active"
OlderThan(date, days) == date # Never /\ date + days < today
KnownSince == IF Account.onboarded # Never THEN Account.onboarded ELSE row.first

RotationDue ==
  LET interval == IF Account.interval = Never THEN FallbackInterval ELSE Account.interval
  IN CASE Account.changed = Never -> KnownSince + interval
       [] Account.due # Never -> Account.due
       [] OTHER -> Account.changed + interval

\* Mutant: the due date is the platform's or nothing.
RotationOverdueByThePlatform == Active /\ Account.due # Never /\ today > Account.due + Grace

RotationOverdue == Active /\ today > RotationDue + Grace

RotationFailing == Live /\ row.failures >= FailureThreshold

VaultOutOfSync == Live /\ Account.verified = "off"

NonHumanRotationDisabled == Active /\ Account.kind \in NonHuman /\ Account.auto = "off"

NonHumanNeverRotated ==
  /\ Active /\ Account.kind \in NonHuman
  /\ Account.changed = Never /\ OlderThan(KnownSince, MinimumAge)

\* Read from the events, not from the live accounts.
NonHumanRotationDisabledRecently ==
  /\ Stored /\ Account.kind \in NonHuman
  /\ switchedOff # Never /\ switchedOff + Lookback >= today
  /\ Account.auto # "on"

MissingOwner == Active /\ Account.owner = Nobody

OwnerDeparted == ActiveIdentities # {} /\ Live /\ Account.owner \notin ActiveIdentities \cup {Nobody}

DormantPrivilegedAccount == Active /\ OlderThan(Account.used, DormantDays)

SharedHumanAccount ==
  Active /\ Account.kind = "human" /\ Account.exclusive = "off" /\ Account.entitled >= Entitled

StalePendingDeletion == Stored /\ Account.status = "pending_delete" /\ OlderThan(row.seen, PendingGrace)

\* A scanner's name is new only while no stored account, live or not, bears it.
Pending(d) == OlderThan(0, MinimumAge) /\ d \notin onboarded
Matched(d) == Pending(d) /\ Stored /\ d = Own
PrivilegedAccountOutsideVault(d) == Pending(d) /\ Stored /\ ~Matched(d)

CollectionOverdue == pulled = Never \/ pulled + 2 * CollectionDays < today
CollectionStale == Stored /\ CollectionOverdue

Requires(rule) ==
  CASE rule = "ROT-003" -> "verification"
    [] rule \in {"OWN-001", "OWN-002"} -> "ownership"
    [] rule = "USE-001" -> "usage_timestamps"
    [] rule = "SOD-001" -> "entitlements"
    [] OTHER -> "accounts"

Capabilities ==
  CASE vendor = "cyberark" -> {"accounts", "verification", "usage_timestamps", "ownership"}
    [] vendor = "delinea" -> {"accounts", "verification", "usage_timestamps", "ownership"}
    [] vendor = "beyondtrust" -> {"accounts", "verification", "ownership", "entitlements"}
    [] vendor = "hashicorp" -> {"accounts"}
    [] OTHER -> {"accounts", "verification", "usage_timestamps", "ownership", "entitlements"}

Rules == {"ROT-001", "ROT-002", "ROT-003", "BOT-001", "BOT-002", "BOT-003", "OWN-001", "OWN-002",
          "USE-001", "ONB-001", "SOD-001", "DEL-001", "OPS-001"}

Supported == {rule \in Rules : Requires(rule) \in Capabilities}

Fires ==
  [rule \in Rules \ {"ONB-001"} |->
     CASE rule = "ROT-001" -> RotationOverdue
       [] rule = "ROT-002" -> RotationFailing
       [] rule = "ROT-003" -> VaultOutOfSync
       [] rule = "BOT-001" -> NonHumanRotationDisabled
       [] rule = "BOT-002" -> NonHumanNeverRotated
       [] rule = "BOT-003" -> NonHumanRotationDisabledRecently
       [] rule = "OWN-001" -> MissingOwner
       [] rule = "OWN-002" -> OwnerDeparted
       [] rule = "USE-001" -> DormantPrivilegedAccount
       [] rule = "SOD-001" -> SharedHumanAccount
       [] rule = "DEL-001" -> StalePendingDeletion
       [] OTHER -> CollectionStale]

Candidates ==
  {<<rule, Nobody>> : rule \in {r \in Supported \ {"ONB-001"} : Fires[r]}}
    \cup {<<"ONB-001", d>> : d \in {n \in Discovered : PrivilegedAccountOutsideVault(n)}}

\* RuleEngine.run, whose rules' capabilities do not change: open what is found, close the rest.
Sweep ==
  /\ open' = Candidates
  /\ onboarded' = onboarded \cup {d \in Discovered : Matched(d)}
  /\ UNCHANGED <<vendor, secret, row, pulled, switchedOff, today, changes>>
------------------------------------------------------------------------------
Next ==
  \/ Appear \/ Disappear \/ Administer \/ Rotate \/ FailToRotate \/ Restate \/ Use
  \/ Pull \/ Retire \/ PassOver \/ NextDay \/ Sweep

Spec == Init /\ [][Next]_vars

\* Beat runs the collection and the sweep for ever.
FairSpec == Spec /\ WF_vars(Pull) /\ WF_vars(Retire) /\ WF_vars(Sweep)
------------------------------------------------------------------------------
Finding(rule) == <<rule, Nobody>>
Newly(rule) == Finding(rule) \in open' \ open

(***************************************************************************)
(* A finding about the target's copy, the rotation, its switch, the        *)
(* owner's departure, dormancy or a shared login rests on something the    *)
(* vendor's record says, and an absent field is no statement (Capability,  *)
(* connectors/base.py:175: "an absent field and an unsupported field look  *)
(* identical downstream").  Where the code takes silence for a statement   *)
(* the property says so:                                                   *)
(*   - Password Safe: an absent flag is off and a null result a failure;   *)
(*   - Vault: a static role without a period does not rotate;              *)
(*   - any status text but success puts a copy out of step;                *)
(*   - BOT-003: a switch the platform no longer states, on or off before,  *)
(*     is recorded as turned off (collection/reconcile.py:206) and accuses *)
(*     (rules/builtin.py:208), as after a refused summary of Secret        *)
(*     Server.  Only a switch no pull has ever stated is safe from it.     *)
(* Nothing is said of BOT-002 and OWN-001, which report an absent date of  *)
(* change and an absent owner as such.  A failure threshold of zero        *)
(* reports every account.                                                  *)
(***************************************************************************)
Named == {Null, Absent, "success"}

SaysOff(item) ==
  CASE vendor = "beyondtrust" -> item.posture.auto # "on"
    [] vendor = "hashicorp" -> item.posture.interval = Never
    [] OTHER -> item.posture.auto = "off"

SaysShared(item) ==
  IF vendor = "beyondtrust" THEN item.posture.exclusive # "on" \/ item.posture.entitled # 1
  ELSE item.posture.exclusive = "off"

AccusationsRestOnTheRecord ==
  [][LET item == row.item
     IN /\ Newly("ROT-003") => item.result \notin Named \/ item.posture.heartbeat = "off"
        /\ Newly("ROT-002") /\ FailureThreshold > 0 => "failure" \in row.told
        /\ Newly("BOT-001") => SaysOff(item)
        /\ Newly("BOT-003") => SaysOff(item) \/ (item.posture.auto = Absent /\ "switch" \in row.told)
        /\ Newly("OWN-002") => item.posture.owner # Nobody
        /\ Newly("USE-001") => item.used # Never
        /\ Newly("SOD-001") => SaysShared(item)]_vars

(***************************************************************************)
(* A credential whose policy interval has run out since its last change,   *)
(* and whose platform has set no later date itself, is reported by the     *)
(* next sweep, whatever else the platform leaves unsaid                    *)
(* (rules/builtin.py:46).  A date the platform states is believed, however *)
(* late (rules/builtin.py:56); Secret Server's connector dates a change by *)
(* the last attempt, so that a failing rotation is not overdue; and only   *)
(* active accounts are looked at.                                          *)
(***************************************************************************)
LastChange ==
  IF vendor = "delinea" /\ secret.attempted # Never THEN secret.attempted ELSE secret.changed

PolicyInterval ==
  IF secret.posture.interval \in {Never, 0} THEN FallbackInterval ELSE secret.posture.interval

TrulyOverdue ==
  /\ LastChange # Never
  /\ today > LastChange + PolicyInterval + Grace
  /\ secret.next # Never => today > secret.next + Grace

OverdueIsReported ==
  Held /\ Active /\ row.item = secret /\ TrulyOverdue => Finding("ROT-001") \in Candidates

(***************************************************************************)
(* Every pull that lists an account refreshes last_seen_at, so an account  *)
(* that waits for its deletion is reported only where no pull has come     *)
(* through for the whole grace (rules/builtin.py:479 against               *)
(* collection/reconcile.py:171), and then OPS-001 reports the platform     *)
(* too, unless the grace is under two collection intervals.  The one       *)
(* exception: a pull that missed the account and was too short to retire   *)
(* it (collection/reconcile.py:261) leaves it waiting, on a platform that  *)
(* counts as collected.                                                    *)
(***************************************************************************)
PendingDeletionOnlySeenWhenBlind ==
  [][Newly("DEL-001") /\ ~row.missed =>
       /\ pulled + PendingGrace < today
       /\ 2 * CollectionDays <= PendingGrace => Finding("OPS-001") \in open']_vars

(***************************************************************************)
(* A rotation that keeps failing is reported, and stays reported, on every *)
(* platform that tells the result: each pull counts one failure, and only  *)
(* a new rotation date clears the count (collection/reconcile.py:193).     *)
(* Secret Server is left out: each new attempt is a new date there, so the *)
(* count starts over as often as the rotation fails.                       *)
(***************************************************************************)
Failing == Held /\ secret.result = "failed" /\ vendor \notin {"hashicorp", "delinea"}

FailingIsReported == <>[]Failing => <>[](Finding("ROT-002") \in open)
==============================================================================
