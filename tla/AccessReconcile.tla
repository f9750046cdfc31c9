---------------------------- MODULE AccessReconcile ----------------------------
(***************************************************************************)
(* The approval workflow together with the platform it does not control    *)
(* and the reconciliation pass that compares the two (reconcile_access of  *)
(* access/reconcile.py, run by the reconcile_access command).              *)
(*                                                                         *)
(* A pass is one transaction.  It streams the platform's listing and, for  *)
(* each record, fetches the grant row and later saves it WHOLE             *)
(* (grant.save()); other transactions run in between, see nothing of what  *)
(* it saved until it commits, and wait for the rows it has already         *)
(* written.  Its writes are therefore kept in a draft.                     *)
(***************************************************************************)
EXTENDS AccessWorkflow

CONSTANT PlatformEnds     \* the ends a platform may report with an access

ASSUME ReconcileAssumption == PlatformEnds \subseteq Days /\ NoRequest \notin References

VARIABLES
  platform,    \* what the platform really grants: a set of keys
  pass,        \* the reconciliation pass in progress
  settled,     \* history: accesses whose last change a committed pass has seen
  early        \* history: accesses a pass matched to a request not handed off yet

reconcileVars == <<platform, pass, settled, early>>
allVars == <<vars, reconcileVars>>

NoPass == [pc |-> "none"]
On(resource) == {k \in Key : k[2] = resource}

ReconcileInit ==
  /\ Init
  /\ platform = {} /\ pass = NoPass /\ settled = {} /\ early = {}
------------------------------------------------------------------------------
(***************************************************************************)
(* The history: an access is unsettled by a change on the platform or of a *)
(* request for it, and settled by a pass that started after.               *)
(***************************************************************************)
Unsettle(K) ==
  /\ settled' = settled \ K
  /\ pass' = IF pass = NoPass THEN pass ELSE [pass EXCEPT !.stable = @ \ K]

\* Access appears or disappears on the platform, outside this system.
PlatformAdds(k) ==
  /\ k \notin platform
  /\ platform' = platform \cup {k}
  /\ Unsettle({k})
  /\ UNCHANGED <<vars, early>>

PlatformRemoves(k) ==
  /\ k \in platform
  /\ platform' = platform \ {k}
  /\ Unsettle({k})
  /\ UNCHANGED <<vars, early>>

\* A step of the workflow waits for the grant rows a pass has written.
WorkflowStep ==
  /\ Next
  /\ pass # NoPass => \A k \in DOMAIN pass.draft : grant'[k] = grant[k]
  /\ Unsettle({KeyOf(r)' : r \in {q \in References : state'[q] # state[q]}})
  /\ UNCHANGED <<platform, early>>
------------------------------------------------------------------------------
\* Mutant: a request still waiting for its decision counts.
MatchingAnyOpen(k) ==
  {r \in References : /\ state[r] \in {"pending", "approved", "provisioned"} /\ KeyOf(r) = k
                      /\ \A q \in References :
                           (/\ state[q] \in {"pending", "approved", "provisioned"}
                            /\ KeyOf(q) = k) => dates[q].decidedAt <= dates[r].decidedAt}

\* _matching_request: approved or provisioned, the latest decision first.
Matching(k) ==
  {r \in References : /\ state[r] \in {"approved", "provisioned"} /\ KeyOf(r) = k
                      /\ \A q \in References :
                           (/\ state[q] \in {"approved", "provisioned"}
                            /\ KeyOf(q) = k) => dates[q].decidedAt <= dates[r].decidedAt}

NoHand == [key |-> "none"]

StartPass(resource) ==
  /\ pass = NoPass /\ ~resource.archived
  /\ pass' = [pc |-> "listing", resource |-> resource,
              reported |-> platform \cap On(resource), left |-> platform \cap On(resource),
              hand |-> NoHand, draft |-> [k \in {} |-> NoGrant], stable |-> On(resource)]
  /\ UNCHANGED <<vars, platform, settled, early>>

\* The end the row will have: its request's, the one it has, or for a new row the platform's.
Until(k, matched, reported) ==
  CASE matched # NoRequest -> dates[matched].expiresAt
    [] matched = NoRequest /\ grant[k].listed -> grant[k].expiresAt
    [] OTHER -> reported

\* The two queries for one record; a row that already has a request is not matched again.
FetchGrant(k) ==
  /\ pass.pc = "listing" /\ k \in pass.left
  /\ \E r \in IF grant[k].request # NoRequest \/ Matching(k) = {} THEN {NoRequest} ELSE Matching(k),
        end \in PlatformEnds :
       /\ pass' = [pass EXCEPT !.pc = "fetched", !.left = @ \ {k},
                            !.hand = [key |-> k, row |-> grant[k], matched |-> r,
                                      until |-> Until(k, r, end)]]
       /\ early' = IF r # NoRequest /\ state[r] = "approved" THEN early \cup {k} ELSE early
  /\ UNCHANGED <<vars, platform, settled>>

\* Mutant: a grant that comes back is confirmed but stays marked absent.
ConfirmedStaysAbsent(row, matched, until) ==
  [row EXCEPT !.listed = TRUE, !.origin = IF matched = NoRequest THEN @ ELSE "approved",
              !.request = IF matched = NoRequest THEN @ ELSE matched, !.expiresAt = until]

\* Mutant: the end of the request is not carried to the grant.
ConfirmedWithoutEnd(row, matched, until) ==
  [row EXCEPT !.listed = TRUE, !.absent = FALSE,
              !.origin = IF matched = NoRequest THEN @ ELSE "approved",
              !.request = IF matched = NoRequest THEN @ ELSE matched]

\* The row as the pass writes it: created, or confirmed and perhaps attached.
Confirmed(row, matched, until) ==
  [row EXCEPT !.listed = TRUE, !.absent = FALSE,
              !.origin = IF matched = NoRequest THEN @ ELSE "approved",
              !.request = IF matched = NoRequest THEN @ ELSE matched, !.expiresAt = until]

\* grant.save(): from here on the draft holds this row.
Saved(draft, k, row) == [x \in DOMAIN draft \cup {k} |-> IF x = k THEN row ELSE draft[x]]

SaveGrant ==
  /\ pass.pc = "fetched"
  /\ LET hand == pass.hand
         row == Confirmed(hand.row, hand.matched, hand.until)
     IN pass' = [pass EXCEPT !.pc = "listing", !.hand = NoHand, !.draft = Saved(@, hand.key, row)]
  /\ UNCHANGED <<vars, platform, settled, early>>

\* What the platform no longer reports is marked absent, and the transaction commits.
FinishPass ==
  /\ pass.pc = "listing" /\ pass.left = {}
  /\ grant' = [k \in Key |->
       IF k \in DOMAIN pass.draft THEN pass.draft[k]
       ELSE IF k \in On(pass.resource) \ pass.reported /\ grant[k].listed
            THEN [grant[k] EXCEPT !.absent = TRUE] ELSE grant[k]]
  /\ settled' = settled \cup pass.stable
  /\ pass' = NoPass
  /\ UNCHANGED <<workflowVars, now, platform, early>>

\* A connector error in the middle of the listing: the pass leaves nothing.
AbortPass ==
  /\ pass # NoPass /\ pass' = NoPass
  /\ UNCHANGED <<vars, platform, settled, early>>

ReconcileNext ==
  \/ WorkflowStep
  \/ \E k \in Key : PlatformAdds(k) \/ PlatformRemoves(k) \/ FetchGrant(k)
  \/ \E resource \in Resources : StartPass(resource)
  \/ SaveGrant \/ FinishPass \/ AbortPass

ReconcileSpec == ReconcileInit /\ [][ReconcileNext]_allVars
------------------------------------------------------------------------------
(***************************************************************************)
(* What the rules read.                                                    *)
(***************************************************************************)
InForce(k) == grant[k].listed /\ grant[k].revokedAt = Unset /\ ~grant[k].absent

(***************************************************************************)
(* The grants ACC-001 reports, its minimum age and its level filter apart, *)
(* and ACC-002, its grace apart.  A rule passes over the grants of a       *)
(* principal with no account to hang the finding on: none of its own and   *)
(* no live one in the vault.  Anchored is the principals that have one.    *)
(***************************************************************************)
UnapprovedAccess(Anchored) ==
  {k \in Key : InForce(k) /\ grant[k].origin = "discovered" /\ k[1] \in Anchored}

\* stale_expiries
StaleExpiries == {k \in Key : /\ InForce(k)
                              /\ grant[k].expiresAt # Unset /\ grant[k].expiresAt < now}

ExpiredAccessStillPresent(Anchored) == {k \in StaleExpiries : k[1] \in Anchored}

For(k) == {r \in References : state[r] # "none" /\ KeyOf(r) = k}
Backing(r) == Cardinality(Approvals(r)) >= request[r].approvalsRequired
------------------------------------------------------------------------------
(***************************************************************************)
(* A grant marked as coming from an approved request is linked to one for  *)
(* exactly that access, which has all the approvals it needed, however the *)
(* pass overlaps with submissions, decisions and revocations.              *)
(***************************************************************************)
GovernedGrantsAreBacked ==
  \A k \in Key : grant[k].origin = "approved" =>
    grant[k].request \in For(k) /\ Backing(grant[k].request)

(***************************************************************************)
(* "Does anyone hold access that was never approved?": once a pass has     *)
(* seen it, an access no request was ever approved for is reported by      *)
(* ACC-001, also when it went away and came back, whatever accounts there  *)
(* are, if its holder's findings have one to hang on.                      *)
(***************************************************************************)
NeverApprovedIsReported ==
  \A k \in settled \cap platform : \A Anchored \in SUBSET Principals :
    k[1] \in Anchored /\ (\A r \in For(k) : ~Backing(r)) => k \in UnapprovedAccess(Anchored)

(***************************************************************************)
(* "Did the access that expired on paper actually go away?": access still  *)
(* on the platform after the end of its only request is reported once a    *)
(* pass has seen the request as it stands: by ACC-002, or by ACC-001 when  *)
(* the first pass to see it came after expire_due.  Not covered: a grant   *)
(* matched before the hand-off, which gets no end, and a second request,   *)
(* which a grant that has one is never matched to; and holders whose       *)
(* findings have no account to hang on.                                    *)
(***************************************************************************)
PastItsEnd(k) ==
  \E r \in References : /\ For(k) = {r} /\ state[r] \in {"provisioned", "expired"}
                        /\ dates[r].expiresAt # Unset /\ dates[r].expiresAt < now

ExpiredIsReported ==
  \A k \in (settled \cap platform) \ early : \A Anchored \in SUBSET Principals :
    k[1] \in Anchored /\ PastItsEnd(k) =>
      k \in ExpiredAccessStillPresent(Anchored) \cup UnapprovedAccess(Anchored)
==============================================================================
