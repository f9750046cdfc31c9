--------------------------- MODULE UsageCorrelation ---------------------------
(***************************************************************************)
(* Attribution of the logins the targets saw to the retrievals the vault   *)
(* handed out (usage/correlate.py), and the rolled-up reach of every       *)
(* credential.                                                             *)
(*                                                                         *)
(* Logins arrive from telemetry feeds and from the vault's own sessions,   *)
(* retrievals with a platform's collected activity; neither waits for the  *)
(* other.  A correlation pass is scheduled every ten minutes and queued    *)
(* after each collection.  It runs outside a transaction: it reads the     *)
(* retrievals already claimed, then the pending logins, judges them oldest *)
(* first, and rebuilds the links, a query or a save at a time.             *)
(***************************************************************************)
EXTENDS Naturals, FiniteSets

CONSTANTS
  Logins,       \* dedupe keys of the logins that are reported
  Retrievals,   \* retrieval events the collector may store
  Accounts,
  Username,     \* [Accounts -> the name targets report]
  Assets,       \* targets, by identifier
  Blank,        \* no address, no mapping
  Target,       \* [Accounts -> the identifier or address the vault has it mapped to, or Blank]
  Nobody,       \* no actor named; no account; no event
  LoginReports,      \* [Logins -> what its record may say: name, asset, address, at, actor, brokered]
  RetrievalReports,  \* [Retrievals -> what it may say: account, at, actor]
  Window,       \* how long after a retrieval a login may be attributed to it
  Tolerance,    \* how long before
  Limit,        \* pending logins one pass takes
  Workers,      \* workers that may be correlating
  MaxLosses     \* bound: how often a worker is lost

ASSUME CorrelationAssumption ==
  /\ \A l \in Logins : \A r \in LoginReports[l] :
       r.asset \in Assets /\ r.at \in Nat /\ r.brokered \in BOOLEAN
  /\ \A e \in Retrievals : \A r \in RetrievalReports[e] : r.account \in Accounts /\ r.at \in Nat
  /\ Window \in Nat /\ Tolerance \in Nat /\ Limit \in Nat \ {0}
  /\ MaxLosses \in Nat
  /\ Nobody \notin Accounts \cup Retrievals
  /\ IsFiniteSet(Logins)

VARIABLES
  address,    \* [Assets -> the address of its TargetAsset row, Blank if none is known]
  login,      \* UsageObservation rows
  retrieval,  \* LifecycleEvent rows of kind checked_out
  link,       \* CredentialAssetLink rows
  pass,       \* the correlation pass each worker is in
  losses,     \* how often a worker was lost
  fresh       \* history: the links were rebuilt after the last change of a login

vars == <<address, login, retrieval, link, pass, losses, fresh>>
------------------------------------------------------------------------------
Pairs == Accounts \X Assets
Correlations == {"brokered", "matched", "unexplained", "unmatched_account", "pending"}

Records == UNION {LoginReports[l] : l \in Logins}
Activity == UNION {RetrievalReports[e] : e \in Retrievals}
Addresses == {r.address : r \in Records} \cup {Blank}

Absent == [stored |-> FALSE]
Login == [stored : {TRUE}, account : Accounts \cup {Nobody}, asset : Assets, at : Nat,
          actor : {r.actor : r \in Records}, correlation : Correlations,
          event : Retrievals \cup {Nobody}]
Retrieval == [stored : {TRUE}, account : Accounts, at : Nat, actor : {r.actor : r \in Activity}]
Link == [stored : {TRUE}, total : Nat, unexplained : Nat, outside : BOOLEAN]
Idle == [pc |-> "idle"]

Stored == {l \in Logins : login[l].stored}
Correlated(correlation) == {l \in Stored : login[l].correlation = correlation}
On(pair) == {l \in Stored : <<login[l].account, login[l].asset>> = pair}

Init ==
  /\ address = [asset \in Assets |-> Blank]
  /\ login = [l \in Logins |-> Absent]
  /\ retrieval = [e \in Retrievals |-> Absent]
  /\ link = [p \in Pairs |-> Absent]
  /\ pass = [w \in Workers |-> Idle]
  /\ losses = 0 /\ fresh = FALSE

\* A change of a login leaves every rebuild that is under way behind.
Unsteady(passes) ==
  [w \in Workers |-> IF passes[w].pc = "linking" THEN [passes[w] EXCEPT !.steady = FALSE] ELSE passes[w]]
------------------------------------------------------------------------------
(***************************************************************************)
(* resolve_asset: the first address reported for an asset is kept.         *)
(***************************************************************************)
Addressed(r) == [address EXCEPT ![r.asset] = IF @ = Blank THEN r.address ELSE @]

(***************************************************************************)
(* resolve_account: the live accounts with the reported name that are      *)
(* mapped to this asset, or the only live one with that name; live is the  *)
(* inventory at that moment.  An account that is mapped to nothing counts  *)
(* as mapped to an asset without an address: blank equals blank.           *)
(***************************************************************************)
Resolutions(name, identifiers, live) ==
  LET named == {a \in live : Username[a] = name}
      scoped == {a \in named : Target[a] \in identifiers}
  IN IF scoped # {} THEN scoped
     ELSE IF Cardinality(named) = 1 THEN named ELSE {Nobody}

FirstCorrelation(account, brokered) ==
  IF brokered THEN "brokered" ELSE IF account = Nobody THEN "unmatched_account" ELSE "pending"

\* record_observations stores what has a new key.
IngestLogin(l) ==
  /\ ~login[l].stored
  /\ \E r \in LoginReports[l], live \in SUBSET Accounts :
       /\ address' = Addressed(r)
       /\ \E account \in Resolutions(r.name, {r.asset, Addressed(r)[r.asset]}, live) :
            login' = [login EXCEPT ![l] =
              [stored |-> TRUE, account |-> account, asset |-> r.asset, at |-> r.at, actor |-> r.actor,
               correlation |-> FirstCorrelation(account, r.brokered), event |-> Nobody]]
  /\ pass' = Unsteady(pass) /\ fresh' = FALSE
  /\ UNCHANGED <<retrieval, link, losses>>

\* A login that is stored already: of a record that repeats it, only the address is taken.
RepeatLogin(l) ==
  /\ login[l].stored
  /\ \E r \in LoginReports[l] : address' = Addressed(r)
  /\ UNCHANGED <<login, retrieval, link, pass, losses, fresh>>

\* ingest_activity stores a retrieval the platform reports.
IngestRetrieval(e) ==
  /\ ~retrieval[e].stored
  /\ \E r \in RetrievalReports[e] :
       retrieval' = [retrieval EXCEPT ![e] =
         [stored |-> TRUE, account |-> r.account, at |-> r.at, actor |-> r.actor]]
  /\ UNCHANGED <<address, login, link, pass, losses, fresh>>
------------------------------------------------------------------------------
Claimed == {login[l].event : l \in Stored} \ {Nobody}

StartPass(w) ==
  /\ pass[w] = Idle
  /\ pass' = [pass EXCEPT ![w] =
       [pc |-> "started", claimed |-> Claimed,
        known |-> {e \in Retrievals : retrieval[e].stored}]]
  /\ UNCHANGED <<address, login, retrieval, link, losses, fresh>>

\* The oldest pending logins, as many as one pass takes.
Batches ==
  {batch \in SUBSET Correlated("pending") :
     /\ Cardinality(batch) <= Limit
     /\ batch # Correlated("pending") => Cardinality(batch) = Limit
     /\ \A l \in batch, k \in Correlated("pending") \ batch : login[l].at <= login[k].at}

ReadPending(w) ==
  /\ pass[w].pc = "started"
  /\ \E batch \in Batches :
       pass' = [pass EXCEPT ![w] =
         [pc |-> "judging", claimed |-> pass[w].claimed, known |-> pass[w].known, queue |-> batch]]
  /\ UNCHANGED <<address, login, retrieval, link, losses, fresh>>

\* A retrieval that could account for a login: the account, the window, the person.
Fits(l, e) ==
  /\ retrieval[e].stored /\ retrieval[e].account = login[l].account
  /\ login[l].at <= retrieval[e].at + Window /\ retrieval[e].at <= login[l].at + Tolerance
  /\ \/ Nobody \in {login[l].actor, retrieval[e].actor}
     \/ login[l].actor = retrieval[e].actor

\* Mutant: only the newest retrieval is considered, claimed or not.
ChoicesOfNewest(l, claimed) ==
  {e \in Retrievals : Fits(l, e) /\ \A f \in Retrievals : Fits(l, f) => retrieval[f].at <= retrieval[e].at}
    \ claimed

\* Mutant: whoever retrieved the credential, the window alone decides.
ChoicesOfAnyone(l, claimed) ==
  {e \in Retrievals :
     /\ retrieval[e].stored /\ retrieval[e].account = login[l].account
     /\ login[l].at <= retrieval[e].at + Window /\ retrieval[e].at <= login[l].at + Tolerance}
    \ claimed

\* The newest retrieval nobody claimed.
Choices(l, claimed) ==
  LET free == {e \in Retrievals : Fits(l, e) /\ e \notin claimed}
  IN {e \in free : \A f \in free : retrieval[f].at <= retrieval[e].at}

\* Mutant: the pass forgets what it claimed itself.
ClaimForgotten(claimed, e) == claimed

Claim(claimed, e) == claimed \cup ({e} \ {Nobody})

(***************************************************************************)
(* One login of the batch, the oldest: the query for its candidates, then  *)
(* the save of the verdict.  A login without an account has none.          *)
(***************************************************************************)
Judge(w) ==
  /\ pass[w].pc = "judging"
  /\ \E l \in {q \in pass[w].queue : \A k \in pass[w].queue : login[q].at <= login[k].at} :
       LET choices == Choices(l, pass[w].claimed) IN
       \E e \in IF choices = {} THEN {Nobody} ELSE choices :
         pass' = [pass EXCEPT ![w] =
           [pc |-> "saving", claimed |-> Claim(pass[w].claimed, e), known |-> pass[w].known,
            queue |-> pass[w].queue \ {l}, login |-> l, event |-> e]]
  /\ UNCHANGED <<address, login, retrieval, link, losses, fresh>>

\* Mutant: a login without a retrieval waits for one.
VerdictWaits(l, e) == IF e = Nobody THEN "pending" ELSE "matched"

Verdict(l, e) ==
  IF login[l].account = Nobody THEN "unmatched_account"
  ELSE IF e = Nobody THEN "unexplained" ELSE "matched"

SaveVerdict(w) ==
  /\ pass[w].pc = "saving"
  /\ LET e == pass[w].event IN
     login' = [login EXCEPT ![pass[w].login].event = e,
                            ![pass[w].login].correlation = Verdict(pass[w].login, e)]
  /\ pass' = Unsteady([pass EXCEPT ![w] =
       [pc |-> "judging", claimed |-> pass[w].claimed, known |-> pass[w].known, queue |-> pass[w].queue]])
  /\ fresh' = FALSE
  /\ UNCHANGED <<address, retrieval, link, losses>>
------------------------------------------------------------------------------
\* rebuild_links counts the logins of every pair in one query, and then takes the pairs in turn.
StartLinks(w) ==
  /\ pass[w].pc = "judging" /\ pass[w].queue = {}
  /\ pass' = [pass EXCEPT ![w] =
       [pc |-> "linking", totals |-> [p \in Pairs |-> Cardinality(On(p))],
        left |-> {p \in Pairs : On(p) # {}}, steady |-> TRUE]]
  /\ UNCHANGED <<address, login, retrieval, link, losses, fresh>>

\* A login at an asset its account is not mapped to, if the account is mapped at all.
Outside(p) == Target[p[1]] # Blank /\ Target[p[1]] \notin {p[2], address[p[2]]}

\* Mutant: a link is written once and only its total refreshed.
RefreshedTotal(w, p) ==
  [stored |-> TRUE, total |-> pass[w].totals[p], outside |-> Outside(p),
   unexplained |-> IF link[p].stored THEN link[p].unexplained
                   ELSE Cardinality(On(p) \cap Correlated("unexplained"))]

Refreshed(w, p) ==
  [stored |-> TRUE, total |-> pass[w].totals[p], outside |-> Outside(p),
   unexplained |-> Cardinality(On(p) \cap Correlated("unexplained"))]

UpdateLink(w) ==
  /\ pass[w].pc = "linking"
  /\ \E p \in pass[w].left :
       /\ link' = [link EXCEPT ![p] = Refreshed(w, p)]
       /\ pass' = [pass EXCEPT ![w].left = @ \ {p}]
  /\ UNCHANGED <<address, login, retrieval, losses, fresh>>

FinishPass(w) ==
  /\ pass[w].pc = "linking" /\ pass[w].left = {}
  /\ fresh' = pass[w].steady
  /\ pass' = [pass EXCEPT ![w] = Idle]
  /\ UNCHANGED <<address, login, retrieval, link, losses>>

\* The worker is lost: what was saved stays, and the next pass starts over.
LosePass(w) ==
  /\ pass[w] # Idle
  /\ losses < MaxLosses /\ losses' = losses + 1
  /\ pass' = [pass EXCEPT ![w] = Idle]
  /\ UNCHANGED <<address, login, retrieval, link, fresh>>

Step(w) ==
  StartPass(w) \/ ReadPending(w) \/ Judge(w) \/ SaveVerdict(w)
    \/ StartLinks(w) \/ UpdateLink(w) \/ FinishPass(w)

Next ==
  \/ \E l \in Logins : IngestLogin(l) \/ RepeatLogin(l)
  \/ \E e \in Retrievals : IngestRetrieval(e)
  \/ \E w \in Workers : Step(w) \/ LosePass(w)

Spec == Init /\ [][Next]_vars

\* The beat queues a pass every ten minutes, and a worker carries on with the one it has.
FairSpec == Spec /\ \A w \in Workers : WF_vars(Step(w))
------------------------------------------------------------------------------
(***************************************************************************)
(* Types; a matched login names a retrieval that fits it, no other login   *)
(* names one, and what waits for a pass has an account to look under.      *)
(***************************************************************************)
TypeOK ==
  /\ address \in [Assets -> Addresses]
  /\ login \in [Logins -> Login \cup {Absent}]
  /\ retrieval \in [Retrievals -> Retrieval \cup {Absent}]
  /\ link \in [Pairs -> Link \cup {Absent}]
  /\ \A l \in Stored :
       IF login[l].correlation = "matched" THEN Fits(l, login[l].event)
       ELSE login[l].event = Nobody
  /\ \A l \in Correlated("pending") : login[l].account # Nobody

(***************************************************************************)
(* "Each retrieval may account for at most one login" (correlate.py:204,   *)
(* inventory/tests.py:267), whatever arrives late and wherever a pass is   *)
(* lost, while passes do not overlap.                                      *)
(***************************************************************************)
OneRetrievalOneLogin ==
  \A l, k \in Correlated("matched") : login[l].event = login[k].event => l = k

(***************************************************************************)
(* A login is called unexplained only if every retrieval that was stored   *)
(* when the pass began and fits it is taken by another login.              *)
(***************************************************************************)
JudgedOnTheEvidence ==
  [][\A w \in Workers, l \in Logins :
       (pass[w].pc = "saving" /\ pass[w].login = l /\ login[l] # login'[l]
          /\ login'[l].correlation = "unexplained") =>
       \A e \in pass[w].known : Fits(l, e) => \E k \in Stored : k # l /\ login[k].event = e]_vars

(***************************************************************************)
(* The reach table (models.py:589-596): links rebuilt after the last       *)
(* change count the logins of every pair and the unexplained among them,   *)
(* and no link ever shows more unexplained logins than logins.             *)
(***************************************************************************)
LinksTellTheReach ==
  /\ fresh => \A p \in Pairs : On(p) # {} =>
       /\ link[p].stored /\ link[p].total = Cardinality(On(p))
       /\ link[p].unexplained = Cardinality(On(p) \cap Correlated("unexplained"))
  /\ \A p \in Pairs : link[p].stored => link[p].unexplained <= link[p].total

\* Every login that waits is judged (celery.py:19-22), however many wait before it.
EveryLoginIsJudged ==
  \A l \in Logins : l \in Correlated("pending") ~> l \notin Correlated("pending")
==============================================================================
