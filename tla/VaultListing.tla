------------------------------ MODULE VaultListing ------------------------------
(***************************************************************************)
(* How a connector reads the whole inventory of a vault, page by page,     *)
(* while accounts come and go, and what the reconciliation then believes.  *)
(*                                                                         *)
(* connectors/base.py: "iter_accounts() yields the complete current        *)
(* inventory.  It must page through the whole result set; partial          *)
(* inventories cause the reconciler to mark live accounts as deleted."     *)
(* Each connector has its own loop:                                        *)
(*   whole      one response (generic "none", BeyondTrust)                 *)
(*   page       generic page, or offset without a total                    *)
(*   offset     generic offset with a total                                *)
(*   cursor     generic cursor                                             *)
(*   cyberark, delinea                                                     *)
(*   resources  _paged of the resource connectors; what they list are the  *)
(*              grants on one resource, reconciled by reconcile_access     *)
(*   walk       HashiCorp Vault: list each mount, then read each role      *)
(***************************************************************************)
EXTENDS Naturals, Sequences, FiniteSets, SequencesExt

CONSTANTS
  Accounts,      \* the accounts the vault may hold
  Connectors,    \* the loops this system may be collected with
  Mounts,        \* HashiCorp Vault: the mounts, in the order of options["mounts"]
  MountOf,       \* HashiCorp Vault: the mount of each account
  InitialVaults, \* the listings the vault may begin with
  PageSize,      \* options["page_size"]
  MaximumPages,  \* the guard of the loops that have one
  MaxChanges,    \* bound: how often the vault changes
  MaxTroubles    \* bound: requests that fail or are refused

ASSUME ListingAssumption ==
  /\ PageSize \in Nat \ {0} /\ MaximumPages \in Nat \ {0}
  /\ MaxChanges \in Nat /\ MaxTroubles \in Nat
  /\ Connectors \subseteq {"whole", "page", "offset", "cursor", "cyberark", "delinea",
                      "resources", "walk"}
  /\ InitialVaults \subseteq Seq(Accounts)
  /\ Mounts \in Seq(Range(Mounts)) /\ \A a \in Accounts : MountOf[a] \in Range(Mounts)

VARIABLES
  connector,  \* how this system is read
  served,     \* the most accounts its server puts on a page
  order,      \* the accounts in the vault, in the order it lists them
  rows,       \* the live ManagedAccount rows of the system
  pull,       \* the pull under way
  changes,    \* how often the vault has changed
  troubles,   \* how many requests went wrong
  during      \* history: what has happened since the pull began

vars == <<connector, served, order, rows, pull, changes, troubles, during>>
------------------------------------------------------------------------------
Idle == [pc |-> "idle", listed |-> <<>>, place |-> 0, pages |-> 0, mounts |-> <<>>, names |-> {}]
Quiet == [held |-> {}, departures |-> 0, arrivals |-> 0, refusals |-> 0]

Vault == Range(order)
Walking == connector = "walk"
Guarded == connector \in {"page", "offset", "cursor", "resources"}

Init ==
  /\ connector \in Connectors /\ served \in 1..PageSize
  /\ order \in InitialVaults /\ rows = {}
  /\ pull = Idle /\ changes = 0 /\ troubles = 0 /\ during = Quiet
------------------------------------------------------------------------------
(***************************************************************************)
(* An account leaves the vault or appears in it.  A cursor stays between   *)
(* the accounts it was handed out between; an offset does not move.        *)
(***************************************************************************)
Moved(place) == IF connector = "cursor" /\ pull.pc = "listing" THEN [pull EXCEPT !.place = place] ELSE pull

Departs(i) ==
  /\ changes < MaxChanges /\ changes' = changes + 1
  /\ order' = RemoveAt(order, i)
  /\ pull' = Moved(IF i <= pull.place THEN pull.place - 1 ELSE pull.place)
  /\ during' = IF pull.pc = "idle" THEN during
               ELSE [during EXCEPT !.held = @ \ {order[i]}, !.departures = @ + 1]
  /\ UNCHANGED <<connector, served, rows, troubles>>

Arrives(a, i) ==
  /\ changes < MaxChanges /\ changes' = changes + 1
  /\ a \notin Vault /\ order' = InsertAt(order, i, a)
  /\ pull' = Moved(IF i <= pull.place THEN pull.place + 1 ELSE pull.place)
  /\ during' = IF pull.pc = "idle" THEN during ELSE [during EXCEPT !.arrivals = @ + 1]
  /\ UNCHANGED <<connector, served, rows, troubles>>
------------------------------------------------------------------------------
StartPull ==
  /\ pull.pc = "idle"
  /\ pull' = [Idle EXCEPT !.pc = "listing", !.mounts = IF Walking THEN Mounts ELSE <<>>]
  /\ during' = [Quiet EXCEPT !.held = Vault]
  /\ UNCHANGED <<connector, served, order, rows, changes, troubles>>

(***************************************************************************)
(* The server's answer: what lies behind the place that was asked for.     *)
(***************************************************************************)
Page(place) ==
  IF connector = "whole" THEN order
  ELSE SubSeq(order, place + 1, IF place + served < Len(order) THEN place + served ELSE Len(order))

\* Mutant: the next request repeats the account the last one ended with.
NextPlaceAgain(place, items) == IF Len(items) = 0 THEN place ELSE place + Len(items) - 1

NextPlace(place, items) == place + Len(items)

\* Mutant: a cursor listing ends at a short page like the others.
EndsAtShortPage(items, next, pages) ==
  \/ Len(items) < PageSize
  \/ connector = "offset" /\ next >= Len(order)
  \/ pages >= MaximumPages

(***************************************************************************)
(* Whether the loop of a connector ends with this page: there is no more,  *)
(* the page is short of what was asked for, or the guard is reached.       *)
(***************************************************************************)
LastGenericPage(items, next, pages) ==
  \/ connector \in {"offset", "cursor"} /\ next >= Len(order)
  \/ connector # "cursor" /\ Len(items) < PageSize
  \/ pages >= MaximumPages

LastCyberArkPage(items, next) == next >= Len(order) \/ Len(items) < PageSize

LastDelineaPage(next) == next >= Len(order)

LastResourcePage(items, pages) == Len(items) < PageSize \/ pages >= MaximumPages

LastPage(items, next, pages) ==
  CASE connector = "whole" -> TRUE
    [] connector \in {"page", "offset", "cursor"} -> LastGenericPage(items, next, pages)
    [] connector = "cyberark" -> LastCyberArkPage(items, next)
    [] connector = "delinea" -> LastDelineaPage(next)
    [] OTHER -> LastResourcePage(items, pages)

ReadPage ==
  /\ pull.pc = "listing" /\ ~Walking
  /\ LET items == Page(pull.place)
         next == NextPlace(pull.place, items)
         pages == IF Guarded THEN pull.pages + 1 ELSE 0
     IN pull' = [pull EXCEPT !.listed = @ \o items, !.place = next, !.pages = pages,
                             !.pc = IF LastPage(items, next, pages) THEN "listed" ELSE "listing"]
  /\ UNCHANGED <<connector, served, order, rows, changes, troubles, during>>
------------------------------------------------------------------------------
(***************************************************************************)
(* HashiCorp Vault.  A mount that cannot be listed has no roles, a role    *)
(* that cannot be read is passed over: neither is an error.  The roles of  *)
(* a mount are read in any order.                                          *)
(***************************************************************************)
ListRoles ==
  /\ pull.pc = "listing" /\ Walking /\ pull.names = {} /\ pull.mounts # <<>>
  /\ \/ /\ pull' = [pull EXCEPT !.mounts = Tail(@),
                                !.names = {a \in Vault : MountOf[a] = Head(pull.mounts)}]
        /\ UNCHANGED <<troubles, during>>
     \/ /\ troubles < MaxTroubles /\ troubles' = troubles + 1
        /\ during' = [during EXCEPT !.refusals = @ + 1]
        /\ pull' = [pull EXCEPT !.mounts = Tail(@)]
  /\ UNCHANGED <<connector, served, order, rows, changes>>

ReadRole ==
  /\ pull.pc = "listing" /\ Walking
  /\ \E role \in pull.names :
     \/ /\ role \in Vault
        /\ pull' = [pull EXCEPT !.names = @ \ {role}, !.listed = Append(@, role)]
        /\ UNCHANGED <<troubles, during>>
     \/ /\ role \notin Vault
        /\ pull' = [pull EXCEPT !.names = @ \ {role}]
        /\ UNCHANGED <<troubles, during>>
     \/ /\ troubles < MaxTroubles /\ troubles' = troubles + 1
        /\ during' = [during EXCEPT !.refusals = @ + 1]
        /\ pull' = [pull EXCEPT !.names = @ \ {role}]
  /\ UNCHANGED <<connector, served, order, rows, changes>>

EndWalk ==
  /\ pull.pc = "listing" /\ Walking /\ pull.names = {} /\ pull.mounts = <<>>
  /\ pull' = [pull EXCEPT !.pc = "listed"]
  /\ UNCHANGED <<connector, served, order, rows, changes, troubles, during>>
------------------------------------------------------------------------------
\* Mutant: a listing must name all that is live before anything is retired.
MayRetireWhenComplete(seen, live) == live \subseteq seen

\* _retire_missing does not believe less than half of what is live; reconcile_access believes all.
MayRetire(seen, live) == connector = "resources" \/ 2 * Cardinality(seen) >= Cardinality(live)

(***************************************************************************)
(* The commit of reconcile_accounts: what was listed is live, what was not *)
(* is retired, unless the listing is too short to be true.                 *)
(***************************************************************************)
Reconcile ==
  /\ pull.pc = "listed"
  /\ LET seen == Range(pull.listed)
         live == rows \cup seen
     IN rows' = IF MayRetire(seen, live) THEN seen ELSE live
  /\ pull' = Idle /\ during' = Quiet
  /\ UNCHANGED <<connector, served, order, changes, troubles>>

\* A page answers with an error after its retries: _json_or_raise ends the pull.
FailPull ==
  /\ pull.pc = "listing" /\ ~Walking
  /\ troubles < MaxTroubles /\ troubles' = troubles + 1
  /\ pull' = Idle /\ during' = Quiet
  /\ UNCHANGED <<connector, served, order, rows, changes>>

Collect == ReadPage \/ ListRoles \/ ReadRole \/ EndWalk \/ Reconcile

Next ==
  \/ \E i \in 1..Len(order) : Departs(i)
  \/ \E a \in Accounts, i \in 1..(Len(order) + 1) : Arrives(a, i)
  \/ StartPull
  \/ ReadPage \/ ListRoles \/ ReadRole \/ EndWalk \/ Reconcile
  \/ FailPull

Spec == Init /\ [][Next]_vars

(***************************************************************************)
(* The schedule starts a pull again and again, and a pull runs to its end. *)
(***************************************************************************)
FairSpec == Spec /\ WF_vars(StartPull) /\ WF_vars(Collect)
------------------------------------------------------------------------------
(***************************************************************************)
(* Types; nobody is held who is not in the vault.                          *)
(***************************************************************************)
TypeOK ==
  /\ order \in Seq(Accounts) /\ rows \subseteq Accounts
  /\ served \in 1..PageSize
  /\ pull.pc \in {"idle", "listing", "listed"}
  /\ pull.listed \in Seq(Accounts) /\ pull.place \in Nat /\ pull.pages \in Nat
  /\ during.held \subseteq Vault

\* The server fills the pages a loop that ends at a short one relies on.
Filled == connector \in {"page", "offset", "cyberark", "resources"} => served = PageSize

\* The loop was not cut short by its guard.
Unguarded == Guarded => pull.pages < MaximumPages

(***************************************************************************)
(* base.py:293-294, "must page through the whole result set": when the     *)
(* vault does not change while it is read, every loop has at any moment    *)
(* listed what lies before its place, in order and once, and ends with     *)
(* all of it; if the server fills its pages and the guard is not reached.  *)
(***************************************************************************)
Still == during.departures = 0 /\ during.arrivals = 0

StillVaultIsListedOnce ==
  pull.pc # "idle" /\ ~Walking /\ Still =>
    /\ pull.listed = SubSeq(order, 1, pull.place)
    /\ pull.pc = "listed" /\ Filled /\ Unguarded => pull.listed = order

(***************************************************************************)
(* What a listing may miss of the accounts that were in the vault all the  *)
(* while: with an offset or a page number, one for each account that left  *)
(* before the place it had reached; with a cursor, a single answer, or a   *)
(* walk that was refused nothing, none.  So a live account is retired for  *)
(* no other reason.                                                        *)
(***************************************************************************)
Missed == during.held \ Range(pull.listed)

MissedNeedDepartures ==
  pull.pc = "listed" /\ Filled /\ Unguarded /\ during.refusals = 0 =>
    Cardinality(Missed) <=
      IF connector \in {"whole", "cursor", "walk"} THEN 0 ELSE during.departures

(***************************************************************************)
(* Once the vault rests and answers, the table becomes the vault and stays *)
(* so, whatever earlier pulls missed or were refused.  The exception is a  *)
(* vault that shrank below half of its live rows between two pulls: it is  *)
(* refused for ever (_retire_missing); the grants on a resource never are. *)
(***************************************************************************)
TableSettles ==
  Filled /\ (Guarded => MaximumPages * served > Len(order) + MaxChanges) =>
    <>[](\/ rows = Vault
         \/ /\ Vault \subseteq rows /\ connector # "resources"
            /\ 2 * Cardinality(Vault) < Cardinality(rows))
==============================================================================
