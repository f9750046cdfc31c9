----------------------------- MODULE InventoryDiff -----------------------------
(***************************************************************************)
(* The reconciliation of one vault's inventory (collection/reconcile.py):  *)
(* a pull streams the accounts the vault reports, updates the stored rows, *)
(* derives lifecycle events and snapshots from the differences, and        *)
(* retires what is missing.                                                *)
(*                                                                         *)
(* reconcile_accounts is one READ COMMITTED transaction.  For each record  *)
(* it fetches the row and later saves all of it; at the end it counts what *)
(* is live, asks for what is missing and retires it row by row.  Its       *)
(* writes are kept in a draft, another pull that wants to write the same   *)
(* row waits for the commit, and each query sees what others committed.    *)
(* The vault goes on changing while it is read.  Two pulls of one system   *)
(* overlap when a collection outlasts its interval, is retried, or is      *)
(* started by hand.                                                        *)
(***************************************************************************)
EXTENDS Naturals, FiniteSets

CONSTANTS
  Accounts,     \* external identifiers the vault may hold
  Profiles,     \* what the vault may report: status, owner, rotated, failed, auto, verified
  Workers,      \* workers that may be collecting this system
  MaxFailures,  \* bound: no pull starts once a failure counter has reached it
  MaxChanges    \* bound: how often the vault changes

(***************************************************************************)
(* No profile says "deleted": no vendor's connector reports that status    *)
(* (cyberark.py:180-181 turns it into disabled).  Only a mapping document  *)
(* written for the generic connector could (generic.py:44), and the one    *)
(* the repository shows does not.                                          *)
(***************************************************************************)
ASSUME DiffAssumption ==
  /\ MaxFailures \in Nat /\ MaxChanges \in Nat
  /\ IsFiniteSet(Accounts)
  /\ \A p \in Profiles :
       /\ p = [status |-> p.status, owner |-> p.owner, rotated |-> p.rotated,
               failed |-> p.failed, auto |-> p.auto, verified |-> p.verified]
       /\ p.status \notin {"deleted", "gone"}

VARIABLES
  vault,      \* [Accounts -> Profiles or Gone]: what the platform holds
  changes,    \* how often it has changed
  account,    \* ManagedAccount rows
  snapshot,   \* the profile of each account's last snapshot
  pull,       \* the reconciliation each worker is in
  recorded,   \* history: the events this step committed
  settled,    \* history: accounts a complete, undisturbed pull answered for last
  overlapped  \* history: two pulls were under way at once

vars == <<vault, changes, account, snapshot, pull, recorded, settled, overlapped>>
------------------------------------------------------------------------------
Never == "never"
Gone == [status |-> "gone"]
Deleted(profile) == [profile EXCEPT !.status = "deleted"]
StoredProfiles == Profiles \cup {Deleted(p) : p \in Profiles}

Unknown == [known |-> FALSE]
Row == [known : {TRUE}, profile : StoredProfiles, failures : Nat, retired : BOOLEAN]

Idle == [pc |-> "idle"]
Pulling == {w \in Workers : pull[w] # Idle}
Listing == {w \in Workers : pull[w].pc \in {"pulling", "fetched"}}
InVault == {a \in Accounts : vault[a] # Gone}

Init ==
  /\ vault = [a \in Accounts |-> Gone] /\ changes = 0
  /\ account = [a \in Accounts |-> Unknown]
  /\ snapshot = [a \in Accounts |-> Gone]
  /\ pull = [w \in Workers |-> Idle]
  /\ recorded = {} /\ settled = {} /\ overlapped = FALSE
------------------------------------------------------------------------------
(***************************************************************************)
(* The platform: an account changes, is removed, or appears; one that      *)
(* appears may still come on a later page of a listing under way.          *)
(***************************************************************************)
VaultChanges(a) ==
  /\ changes < MaxChanges /\ changes' = changes + 1
  /\ \E profile \in Profiles \cup {Gone} :
       profile # vault[a] /\ vault' = [vault EXCEPT ![a] = profile]
  /\ \E later \in SUBSET {w \in Listing : a \notin pull[w].seen} :
       pull' = [w \in Workers |->
         IF pull[w] = Idle THEN Idle
         ELSE [pull[w] EXCEPT !.stable = @ \ {a},
                              !.left = IF w \in later THEN @ \cup {a} ELSE @]]
  /\ settled' = settled \ {a} /\ recorded' = {}
  /\ UNCHANGED <<account, snapshot, overlapped>>
------------------------------------------------------------------------------
StartPull(w) ==
  /\ pull[w] = Idle
  /\ \A a \in Accounts : account[a].known => account[a].failures < MaxFailures
  /\ pull' = [v \in Workers |->
       IF v = w THEN [pc |-> "pulling", left |-> InVault, seen |-> {}, hand |-> Gone,
                      draft |-> [a \in {} |-> Unknown], events |-> {}, shots |-> {},
                      counted |-> {}, missing |-> {}, gone |-> {},
                      stable |-> Accounts, alone |-> Pulling = {}]
       ELSE IF pull[v] = Idle THEN Idle ELSE [pull[v] EXCEPT !.alone = FALSE]]
  /\ recorded' = {} /\ overlapped' = (overlapped \/ Pulling # {})
  /\ UNCHANGED <<vault, changes, account, snapshot, settled>>

\* What a worker's queries see: what is committed, and what it wrote itself.
Visible(w) ==
  [a \in Accounts |-> IF a \in DOMAIN pull[w].draft THEN pull[w].draft[a] ELSE account[a]]

(***************************************************************************)
(* The next record of the listing, and the row it is compared with.  An    *)
(* account removed since the listing began is no longer on its page.       *)
(***************************************************************************)
ReadAccount(w) ==
  /\ pull[w].pc = "pulling"
  /\ \E a \in pull[w].left \cap InVault :
       pull' = [pull EXCEPT ![w].pc = "fetched", ![w].left = @ \ {a}, ![w].seen = @ \cup {a},
                            ![w].hand = [id |-> a, row |-> account[a], incoming |-> vault[a]]]
  /\ recorded' = {}
  /\ UNCHANGED <<vault, changes, account, snapshot, settled, overlapped>>

\* A new rotation date clears the counter; every pull that reports a failure adds to it.
Counted(row, incoming) ==
  (IF incoming.rotated # Never /\ incoming.rotated # row.profile.rotated THEN 0 ELSE row.failures)
    + (IF incoming.failed THEN 1 ELSE 0)

\* Mutant: the events are derived from the row after it was overwritten.
TransitionsAfterwards(before, after) == {}

\* The kinds of event _apply_update derives from the two versions of the tracked columns.
Transitions(before, after) ==
  {kind \in {"rotated", "failed", "auto on", "auto off", "owner", "status", "verification"} :
     CASE kind = "rotated" -> after.rotated # Never /\ before.rotated # after.rotated
       [] kind = "failed" -> after.failed
       [] kind = "auto on" -> before.auto # "unknown" /\ before.auto # after.auto /\ after.auto = "on"
       [] kind = "auto off" -> before.auto # "unknown" /\ before.auto # after.auto /\ after.auto # "on"
       [] kind = "owner" -> before.owner # after.owner
       [] kind = "status" -> before.status # after.status
       [] OTHER -> after.verified = "no" /\ before.verified # "no"}

\* Mutant: only a new account is photographed at once.
ChangedOnCreation(row, incoming) == ~row.known

\* Mutant: only an event is worth a snapshot.
ChangedByEvent(row, incoming) == row.known /\ Transitions(row.profile, incoming) # {}

\* What makes _should_snapshot write at once: a new row or an event.
Changed(row, incoming) == ~row.known \/ Transitions(row.profile, incoming) # {}

\* The row as created or updated; an update keeps the mark of an earlier retirement.
Written(row, incoming) ==
  IF row.known
  THEN [row EXCEPT !.profile = incoming, !.failures = Counted(row, incoming)]
  ELSE [known |-> TRUE, profile |-> incoming, failures |-> 0, retired |-> FALSE]

\* The rows a pull has written and not committed.
Locked(w) == IF pull[w] = Idle THEN {} ELSE DOMAIN pull[w].draft \cup pull[w].gone

\* The rows of a draft with one row saved.
With(rows, a, row) == [b \in DOMAIN rows \cup {a} |-> IF b = a THEN row ELSE rows[b]]

(***************************************************************************)
(* Create or update the row, record the events, take the snapshot.  The    *)
(* insert of an account another pull created meanwhile violates            *)
(* unique_together: then only FailPull is left.  A snapshot is also taken  *)
(* when the last one is old enough.                                        *)
(***************************************************************************)
SaveAccount(w) ==
  /\ pull[w].pc = "fetched"
  /\ LET a == pull[w].hand.id
         row == pull[w].hand.row
         incoming == pull[w].hand.incoming
         kinds == IF row.known THEN Transitions(row.profile, incoming) ELSE {"onboarded"}
     IN /\ \A v \in Workers \ {w} : a \notin Locked(v)
        /\ row.known \/ ~account[a].known
        /\ \E heartbeat \in {FALSE} \cup {~Changed(row, incoming)} :
             pull' = [pull EXCEPT
               ![w].pc = "pulling", ![w].hand = Gone,
               ![w].draft = With(@, a, Written(row, incoming)),
               ![w].events = @ \cup {<<a, k>> : k \in kinds},
               ![w].shots = IF heartbeat \/ Changed(row, incoming) THEN @ \cup {a} ELSE @]
  /\ recorded' = {}
  /\ UNCHANGED <<vault, changes, account, snapshot, settled, overlapped>>

Live(rows) == {a \in Accounts : rows[a].known /\ rows[a].profile.status # "deleted"}

\* Mutant: the guard only knows of rows this pull has written.
MayRetireOfSeen(w) == Cardinality(pull[w].seen) * 2 >= Cardinality(DOMAIN pull[w].draft)

\* The guard against a short pull: half of what was live when it counted.
MayRetire(w) == Cardinality(pull[w].seen) * 2 >= Cardinality(pull[w].counted)

\* Mutant: what is missing is what this pull did not change.
MissingUnchanged(w) ==
  {a \in Live(Visible(w)) : \A e \in pull[w].events : e[1] # a}

Missing(w) == Live(Visible(w)) \ pull[w].seen

\* The listing has shown every account the vault still holds of those it set out to show.
Complete(w) == pull[w].left \cap InVault = {}

(***************************************************************************)
(* The listing ends, at its last page or too early.  _retire_missing       *)
(* counts what is live, its own additions included, and asks again for     *)
(* what is missing: another pull may commit between the two queries, and   *)
(* between them and the saves.                                             *)
(***************************************************************************)
CountLive(w) ==
  /\ pull[w].pc = "pulling"
  /\ pull' = [pull EXCEPT ![w].pc = "counted", ![w].counted = Live(Visible(w))]
  /\ recorded' = {}
  /\ UNCHANGED <<vault, changes, account, snapshot, settled, overlapped>>

FindMissing(w) ==
  /\ pull[w].pc = "counted"
  /\ pull' = [pull EXCEPT ![w].pc = "retiring",
                          ![w].missing = IF MayRetire(w) THEN Missing(w) ELSE {}]
  /\ recorded' = {}
  /\ UNCHANGED <<vault, changes, account, snapshot, settled, overlapped>>

\* save(update_fields) of the next row: a row another pull has written is waited for.
RetireAccount(w) ==
  /\ pull[w].pc = "retiring"
  /\ \E a \in pull[w].missing :
       /\ \A v \in Workers \ {w} : a \notin Locked(v)
       /\ pull' = [pull EXCEPT ![w].missing = @ \ {a}, ![w].gone = @ \cup {a}]
  /\ recorded' = {}
  /\ UNCHANGED <<vault, changes, account, snapshot, settled, overlapped>>

\* The commit.  Of a retired row only the status and retired_at were written.
FinishPull(w) ==
  /\ pull[w].pc = "retiring" /\ pull[w].missing = {}
  /\ LET retired == pull[w].gone
         rows == Visible(w)
     IN /\ account' = [a \in Accounts |->
             IF a \in retired
             THEN [rows[a] EXCEPT !.profile = Deleted(@), !.retired = TRUE] ELSE rows[a]]
        /\ snapshot' = [a \in Accounts |->
             IF a \in pull[w].shots THEN rows[a].profile ELSE snapshot[a]]
        /\ recorded' = pull[w].events \cup {<<a, "retired">> : a \in retired}
        /\ settled' = IF Complete(w) /\ pull[w].alone /\ MayRetire(w)
                      THEN settled \cup pull[w].stable
                      ELSE settled \ (DOMAIN pull[w].draft \cup retired)
  /\ pull' = [pull EXCEPT ![w] = Idle]
  /\ UNCHANGED <<vault, changes, overlapped>>

\* A connector error, a violated constraint or a deadlock: the transaction leaves nothing.
FailPull(w) ==
  /\ pull[w] # Idle
  /\ pull' = [pull EXCEPT ![w] = Idle]
  /\ recorded' = {}
  /\ UNCHANGED <<vault, changes, account, snapshot, settled, overlapped>>

Next ==
  \/ \E a \in Accounts : VaultChanges(a)
  \/ \E w \in Workers : \/ StartPull(w) \/ ReadAccount(w) \/ SaveAccount(w)
                        \/ CountLive(w) \/ FindMissing(w) \/ RetireAccount(w)
                        \/ FinishPull(w) \/ FailPull(w)

Spec == Init /\ [][Next]_vars
------------------------------------------------------------------------------
(***************************************************************************)
(* Types; a row marked deleted was retired and keeps the mark, and no row  *)
(* is stored without the snapshot that opens its history.                  *)
(***************************************************************************)
TypeOK ==
  /\ vault \in [Accounts -> Profiles \cup {Gone}]
  /\ account \in [Accounts -> Row \cup {Unknown}]
  /\ snapshot \in [Accounts -> Profiles \cup {Gone}]
  /\ settled \subseteq Accounts
  /\ \A a \in Accounts : account[a].known <=> snapshot[a] # Gone
  /\ \A a \in Accounts :
       account[a].known /\ account[a].profile.status = "deleted" => account[a].retired
  /\ \A w \in Pulling : DOMAIN pull[w].draft \subseteq pull[w].seen

Ends(w) == pull[w] # Idle /\ pull'[w] = Idle
Retired == {a \in Accounts : <<a, "retired">> \in recorded'}

(***************************************************************************)
(* README.md:441-445: a short pull does not retire the estate.  Of the     *)
(* accounts that were live when it counted, a pull retires at most half,   *)
(* whatever pulls overlap.  The code has one way around the guard, and     *)
(* the property says there is no other: what another pull commits between  *)
(* the count and the query (reconcile.py:260, 272) is retired unguarded,   *)
(* all of it if nothing was live before.                                   *)
(***************************************************************************)
MassRetirementRefused ==
  [][\A w \in Workers : Ends(w) =>
       /\ 2 * Cardinality(Retired \cap pull[w].counted) <= Cardinality(pull[w].counted)
       /\ pull[w].alone => Retired \subseteq pull[w].counted]_vars

(***************************************************************************)
(* A listing that reached its end never retires an account that was in     *)
(* the vault, unchanged, all the while; overlapping pulls included.        *)
(***************************************************************************)
RetiredWereGone ==
  [][\A w \in Workers : Ends(w) /\ Complete(w) =>
       \A a \in Retired \cap pull[w].stable : vault[a] = Gone]_vars

(***************************************************************************)
(* README.md:432-439: the events of an undisturbed pull are the changes it *)
(* stored: an owner or a status that changed, and automatic rotation that  *)
(* was switched, each have their event, and no event tells of none.        *)
(***************************************************************************)
EventsTellTheChanges ==
  [][\A w \in Workers : Ends(w) /\ pull[w].alone =>
       \A a \in {b \in Accounts : account[b].known} :
         LET before == account[a].profile
             after == account'[a].profile
             told(kinds) == \E k \in kinds : <<a, k>> \in recorded'
         IN /\ told({"owner"}) <=> before.owner # after.owner
            /\ told({"status", "retired"}) <=> before.status # after.status
            /\ before.auto = "on" /\ after.auto = "off" => told({"auto off"})
            /\ before.auto = "off" /\ after.auto = "on" => told({"auto on"})
            /\ told({"rotated"}) => before.rotated # after.rotated]_vars

(***************************************************************************)
(* The table is the vault wherever a complete, undisturbed pull answered   *)
(* last: it heals what overlapping pulls, failures and short pages left.   *)
(***************************************************************************)
TableAgreesWithVault ==
  \A a \in settled :
    IF vault[a] = Gone
    THEN account[a].known => account[a].profile.status = "deleted"
    ELSE account[a].known /\ account[a].profile = vault[a]

(***************************************************************************)
(* README.md:702-706: the last snapshot still shows the status, the owner  *)
(* and the rotation switch of a stored account, so the posture history     *)
(* never misses a change of them; as long as no two pulls have overlapped. *)
(***************************************************************************)
SnapshotsFollow ==
  ~overlapped => \A a \in Live(account) :
    LET shot == snapshot[a] IN
    /\ shot.status = account[a].profile.status
    /\ shot.owner = account[a].profile.owner
    /\ shot.auto = "unknown" \/ shot.auto = account[a].profile.auto
==============================================================================
