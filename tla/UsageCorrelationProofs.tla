------------------------- MODULE UsageCorrelationProofs -------------------------
(***************************************************************************)
(* For any logins, retrievals, windows and batch sizes: the verdicts of    *)
(* overlapping passes always name a retrieval that fits; while passes do   *)
(* not overlap (one worker at a time), a retrieval explains one login,     *)
(* what is called unexplained is, and the links tell the reach, wherever   *)
(* a pass is lost and whatever arrives meanwhile.                          *)
(***************************************************************************)
EXTENDS UsageCorrelation, FiniteSetTheorems, WellFoundedInduction, TLAPS

Started == [pc : {"started"}, claimed : SUBSET Retrievals, known : SUBSET Retrievals]
Judging == [pc : {"judging"}, claimed : SUBSET Retrievals, known : SUBSET Retrievals,
            queue : SUBSET Logins]
Saving == [pc : {"saving"}, claimed : SUBSET Retrievals, known : SUBSET Retrievals,
           queue : SUBSET Logins, login : Logins, event : Retrievals \cup {Nobody}]
Linking == [pc : {"linking"}, totals : [Pairs -> Nat], left : SUBSET Pairs, steady : BOOLEAN]

Passes == {Idle} \cup Started \cup Judging \cup Saving \cup Linking

(***************************************************************************)
(* A verdict in hand names a retrieval that fits a login that is stored.   *)
(***************************************************************************)
PassTypes ==
  /\ pass \in [Workers -> Passes]
  /\ \A w \in Workers : pass[w].pc \in {"judging", "saving"} => pass[w].queue \subseteq Stored
  /\ \A w \in Workers : pass[w].pc = "saving" =>
       /\ pass[w].login \in Stored
       /\ pass[w].event # Nobody => Fits(pass[w].login, pass[w].event)
  /\ \A l \in Correlated("matched") : login[l].event # Nobody

UInv == TypeOK /\ PassTypes

(***************************************************************************)
(* The only pass under way knows every claim, its own verdict included;    *)
(* what it still has to judge is pending, and a login it found nothing for *)
(* has nothing among what was stored when the pass began.                  *)
(***************************************************************************)
ClaimsKnown ==
  \A w \in Workers :
    /\ pass[w].pc \in {"started", "judging"} => pass[w].claimed = Claimed
    /\ pass[w].pc \in {"judging", "saving"} => pass[w].queue \subseteq Correlated("pending")
    /\ pass[w].pc \in {"started", "judging", "saving"} =>
         \A e \in pass[w].known : retrieval[e].stored
    /\ pass[w].pc = "saving" =>
         /\ pass[w].claimed = Claimed \cup ({pass[w].event} \ {Nobody})
         /\ pass[w].event \notin Claimed
         /\ pass[w].login \in Correlated("pending") \ pass[w].queue
         /\ pass[w].event = Nobody =>
              \A e \in pass[w].known : Fits(pass[w].login, e) => e \in Claimed

(***************************************************************************)
(* A rebuild counts no fewer logins than any link it writes has            *)
(* unexplained ones; if no login changed since its query, its count still  *)
(* stands and the links it is done with are right.                         *)
(***************************************************************************)
Right(p) ==
  On(p) # {} =>
    /\ link[p].stored /\ link[p].total = Cardinality(On(p))
    /\ link[p].unexplained = Cardinality(On(p) \cap Correlated("unexplained"))

Rebuilding ==
  \A w \in Workers : pass[w].pc = "linking" =>
    /\ \A p \in Pairs : Cardinality(On(p) \cap Correlated("unexplained")) <= pass[w].totals[p]
    /\ pass[w].steady => /\ \A p \in Pairs : pass[w].totals[p] = Cardinality(On(p))
                         /\ \A p \in Pairs \ pass[w].left : Right(p)
    /\ fresh => pass[w].steady

SoloInv == UInv /\ ClaimsKnown /\ OneRetrievalOneLogin /\ Rebuilding /\ LinksTellTheReach
------------------------------------------------------------------------------
LEMMA CountIsNat ==
  ASSUME NEW S \in SUBSET Logins
  PROVE  IsFiniteSet(S) /\ Cardinality(S) \in Nat
BY FS_Subset, FS_CardinalityType, CorrelationAssumption

LEMMA OnAreLogins ==
  ASSUME NEW p
  PROVE  On(p) \in SUBSET Logins /\ On(p) \cap Correlated("unexplained") \in SUBSET Logins
BY DEF On, Stored

\* What kind of record a pass is, from its phase.
LEMMA PassByPhase ==
  ASSUME NEW q \in Passes
  PROVE  /\ q.pc \in {"idle", "started", "judging", "saving", "linking"}
         /\ q.pc = "idle" => q = Idle
         /\ q.pc = "started" => q \in Started
         /\ q.pc = "judging" => q \in Judging
         /\ q.pc = "saving" => q \in Saving
         /\ q.pc = "linking" => q \in Linking
<1>1. Idle.pc = "idle"
  BY DEF Idle
<1> QED
  BY <1>1 DEF Passes, Started, Judging, Saving, Linking

\* A change of a login touches nothing of a pass but that its rebuild is behind.
LEMMA UnsteadyKeeps ==
  ASSUME NEW passes \in [Workers -> Passes]
  PROVE  /\ Unsteady(passes) \in [Workers -> Passes]
         /\ \A w \in Workers :
              /\ Unsteady(passes)[w].pc = passes[w].pc
              /\ passes[w].pc # "linking" => Unsteady(passes)[w] = passes[w]
              /\ passes[w].pc = "linking" =>
                   /\ Unsteady(passes)[w].totals = passes[w].totals
                   /\ Unsteady(passes)[w].left = passes[w].left
                   /\ ~Unsteady(passes)[w].steady
<1> SUFFICES ASSUME NEW w \in Workers
             PROVE  /\ Unsteady(passes)[w] \in Passes
                    /\ Unsteady(passes)[w].pc = passes[w].pc
                    /\ passes[w].pc # "linking" => Unsteady(passes)[w] = passes[w]
                    /\ passes[w].pc = "linking" =>
                         /\ Unsteady(passes)[w].totals = passes[w].totals
                         /\ Unsteady(passes)[w].left = passes[w].left
                         /\ ~Unsteady(passes)[w].steady
  BY DEF Unsteady
<1>1. CASE passes[w].pc # "linking"
  BY <1>1 DEF Unsteady
<1>2. CASE passes[w].pc = "linking"
  <2>1. passes[w] \in Linking
    BY <1>2, PassByPhase
  <2>2. Unsteady(passes)[w] = [passes[w] EXCEPT !.steady = FALSE]
    BY <1>2 DEF Unsteady
  <2>3. Unsteady(passes)[w] \in Linking
    BY <2>1, <2>2 DEF Linking
  <2> QED
    BY <1>2, <2>1, <2>2, <2>3 DEF Linking, Passes
<1> QED
  BY <1>1, <1>2

LEMMA StoredRows ==
  ASSUME TypeOK
  PROVE  /\ \A l \in Logins : login[l] \in Login \cup {Absent}
         /\ \A l \in Stored : l \in Logins /\ login[l] \in Login /\ login[l].stored
         /\ \A l \in Logins \ Stored : login[l] = Absent
         /\ \A e \in Retrievals : retrieval[e] \in Retrieval \cup {Absent}
         /\ \A e \in Retrievals : retrieval[e].stored => retrieval[e] \in Retrieval
<1>1. ~Absent.stored
  BY DEF Absent
<1>2. \A l \in Logins : login[l] \in Login \cup {Absent}
  BY DEF TypeOK
<1>3. \A x \in Login : x.stored
  BY DEF Login
<1>4. \A e \in Retrievals : retrieval[e] \in Retrieval \cup {Absent}
  BY DEF TypeOK
<1>5. \A l \in Logins : l \in Stored <=> login[l].stored
  BY DEF Stored
<1>6. Stored \subseteq Logins
  BY DEF Stored
<1> QED
  BY <1>1, <1>2, <1>3, <1>4, <1>5, <1>6

LEMMA LoginFields ==
  ASSUME NEW r \in Login
  PROVE  /\ r.account \in Accounts \cup {Nobody} /\ r.asset \in Assets /\ r.at \in Nat
         /\ r.correlation \in Correlations /\ r.event \in Retrievals \cup {Nobody}
BY DEF Login

LEMMA FitsWithinReach ==
  ASSUME TypeOK, NEW l \in Stored, NEW e \in Retrievals, Fits(l, e)
  PROVE  retrieval[e].at \in 0..(login[l].at + Tolerance)
<1>1. login[l] \in Login /\ retrieval[e] \in Retrieval
  BY StoredRows DEF Fits
<1>2. login[l].at \in Nat /\ retrieval[e].at \in Nat
  BY <1>1, LoginFields DEF Retrieval
<1> QED
  BY <1>2, CorrelationAssumption DEF Fits
------------------------------------------------------------------------------
(***************************************************************************)
(* What each action that stores something leaves as it was.                *)
(***************************************************************************)
LEMMA FitsStays ==
  ASSUME NEW k, NEW e, Fits(k, e),
         login'[k].account = login[k].account, login'[k].at = login[k].at,
         login'[k].actor = login[k].actor, retrieval'[e] = retrieval[e]
  PROVE  Fits(k, e)'
BY DEF Fits

\* The address of an asset is one that was reported, or none.
LEMMA AddressesAre ==
  ASSUME TypeOK, NEW l \in Logins, NEW r \in LoginReports[l]
  PROVE  Addressed(r) \in [Assets -> Addresses]
BY DEF TypeOK, Addressed, Addresses, Records

LEMMA AddressStays ==
  ASSUME TypeOK, NEW l \in Logins, IngestLogin(l) \/ RepeatLogin(l)
  PROVE  address' \in [Assets -> Addresses]
<1>1. PICK r \in LoginReports[l] : address' = Addressed(r)
  BY Zenon DEF IngestLogin, RepeatLogin
<1> QED
  BY <1>1, AddressesAre

LEMMA IngestLoginFacts ==
  ASSUME TypeOK, NEW l \in Logins, IngestLogin(l)
  PROVE  /\ l \notin Stored /\ Stored' = Stored \cup {l}
         /\ \A k \in Logins : k # l => login'[k] = login[k]
         /\ login' \in [Logins -> Login \cup {Absent}]
         /\ login'[l] \in Login /\ login'[l].event = Nobody
         /\ login'[l].correlation \in {"brokered", "unmatched_account", "pending"}
         /\ login'[l].correlation = "pending" => login'[l].account # Nobody
<1>1. PICK r \in LoginReports[l], live \in SUBSET Accounts :
        \E account \in Resolutions(r.name, {r.asset, Addressed(r)[r.asset]}, live) :
        login' = [login EXCEPT ![l] =
           [stored |-> TRUE, account |-> account, asset |-> r.asset, at |-> r.at, actor |-> r.actor,
            correlation |-> FirstCorrelation(account, r.brokered), event |-> Nobody]]
  BY Zenon DEF IngestLogin
<1>2. PICK account \in Resolutions(r.name, {r.asset, Addressed(r)[r.asset]}, live) :
        login' = [login EXCEPT ![l] =
           [stored |-> TRUE, account |-> account, asset |-> r.asset, at |-> r.at, actor |-> r.actor,
            correlation |-> FirstCorrelation(account, r.brokered), event |-> Nobody]]
  BY <1>1, Zenon
<1> DEFINE row == [stored |-> TRUE, account |-> account, asset |-> r.asset, at |-> r.at, actor |-> r.actor,
                   correlation |-> FirstCorrelation(account, r.brokered), event |-> Nobody]
           first == FirstCorrelation(account, r.brokered)
<1>3. account \in Accounts \cup {Nobody}
  BY DEF Resolutions
<1>4. /\ first \in {"brokered", "unmatched_account", "pending"}
      /\ first = "pending" => account # Nobody
  BY DEF FirstCorrelation
<1>5. r.asset \in Assets /\ r.at \in Nat /\ r.actor \in {s.actor : s \in Records}
  BY CorrelationAssumption DEF Records
<1>6. first \in Correlations
  BY <1>4 DEF Correlations
<1> HIDE DEF first
<1>7. row \in Login
  BY <1>3, <1>5, <1>6 DEF Login, first
<1>8. row.stored /\ row.event = Nobody /\ row.correlation = first /\ row.account = account
  BY DEF first
<1>9. login' = [login EXCEPT ![l] = row] /\ login \in [Logins -> Login \cup {Absent}]
  BY <1>2 DEF TypeOK
<1> HIDE DEF row
<1>10. login'[l] = row /\ \A k \in Logins : k # l => login'[k] = login[k]
  BY <1>9
<1>11. l \notin Stored
  BY DEF IngestLogin, Stored
<1>12. Stored' = Stored \cup {l}
  BY <1>8, <1>10 DEF Stored
<1>13. login' \in [Logins -> Login \cup {Absent}]
  BY <1>7, <1>9
<1> QED
  BY <1>4, <1>7, <1>8, <1>10, <1>11, <1>12, <1>13

LEMMA IngestRetrievalFacts ==
  ASSUME TypeOK, NEW e \in Retrievals, IngestRetrieval(e)
  PROVE  /\ ~retrieval[e].stored
         /\ \A f \in Retrievals : f # e => retrieval'[f] = retrieval[f]
         /\ \A f \in Retrievals : retrieval[f].stored => retrieval'[f] = retrieval[f]
         /\ retrieval' \in [Retrievals -> Retrieval \cup {Absent}]
<1>1. PICK r \in RetrievalReports[e] : retrieval' = [retrieval EXCEPT ![e] =
         [stored |-> TRUE, account |-> r.account, at |-> r.at, actor |-> r.actor]]
  BY Zenon DEF IngestRetrieval
<1> DEFINE row == [stored |-> TRUE, account |-> r.account, at |-> r.at, actor |-> r.actor]
<1>2. row \in Retrieval
  BY CorrelationAssumption DEF Retrieval, Activity
<1>3. retrieval' = [retrieval EXCEPT ![e] = row] /\ retrieval \in [Retrievals -> Retrieval \cup {Absent}]
  BY <1>1 DEF TypeOK
<1>4. ~retrieval[e].stored
  BY DEF IngestRetrieval
<1> HIDE DEF row
<1> QED
  BY <1>2, <1>3, <1>4

LEMMA JudgeFacts ==
  ASSUME UInv, NEW w \in Workers, Judge(w)
  PROVE  \E l \in pass[w].queue, e \in Retrievals \cup {Nobody} :
           /\ e # Nobody => e \in Choices(l, pass[w].claimed)
           /\ e = Nobody => Choices(l, pass[w].claimed) = {}
           /\ pass' = [pass EXCEPT ![w] =
                [pc |-> "saving", claimed |-> Claim(pass[w].claimed, e), known |-> pass[w].known,
                 queue |-> pass[w].queue \ {l}, login |-> l, event |-> e]]
<1>1. PICK l \in {q \in pass[w].queue : \A k \in pass[w].queue : login[q].at <= login[k].at} :
       LET choices == Choices(l, pass[w].claimed) IN
       \E e \in IF choices = {} THEN {Nobody} ELSE choices :
         pass' = [pass EXCEPT ![w] =
           [pc |-> "saving", claimed |-> Claim(pass[w].claimed, e), known |-> pass[w].known,
            queue |-> pass[w].queue \ {l}, login |-> l, event |-> e]]
  BY Zenon DEF Judge
<1> DEFINE choices == Choices(l, pass[w].claimed)
<1>2. PICK e \in IF choices = {} THEN {Nobody} ELSE choices :
         pass' = [pass EXCEPT ![w] =
           [pc |-> "saving", claimed |-> Claim(pass[w].claimed, e), known |-> pass[w].known,
            queue |-> pass[w].queue \ {l}, login |-> l, event |-> e]]
  BY <1>1, Zenon
<1>3. choices \subseteq Retrievals /\ Nobody \notin Retrievals
  BY CorrelationAssumption DEF Choices
<1> HIDE DEF choices
<1>4. /\ e \in Retrievals \cup {Nobody} /\ (e # Nobody => e \in choices)
      /\ (e = Nobody => choices = {})
  BY <1>2, <1>3
<1> QED
  BY <1>2, <1>4, Zenon DEF choices

LEMMA SaveVerdictFacts ==
  ASSUME UInv, NEW w \in Workers, SaveVerdict(w)
  PROVE  LET l == pass[w].login
             e == pass[w].event IN
         /\ l \in Stored /\ e \in Retrievals \cup {Nobody}
         /\ e # Nobody => Fits(l, e)
         /\ pass[w] \in Saving
         /\ Stored' = Stored
         /\ login' \in [Logins -> Login \cup {Absent}]
         /\ \A k \in Logins : k # l => login'[k] = login[k]
         /\ login'[l].event = e
         /\ e # Nobody => login'[l].correlation = "matched"
         /\ e = Nobody => login'[l].correlation \in {"unexplained", "unmatched_account"}
         /\ \A k \in Stored : /\ login'[k].account = login[k].account
                              /\ login'[k].asset = login[k].asset
                              /\ login'[k].at = login[k].at /\ login'[k].actor = login[k].actor
<1> DEFINE l == pass[w].login
           e == pass[w].event
<1>1. pass[w] \in Saving /\ l \in Stored /\ (e # Nobody => Fits(l, e))
  BY PassByPhase DEF SaveVerdict, UInv, PassTypes
<1>2. e \in Retrievals \cup {Nobody} /\ l \in Logins
  BY <1>1 DEF Saving
<1>3. login[l] \in Login
  BY <1>1, StoredRows DEF UInv
<1> DEFINE row == [[login[l] EXCEPT !.event = e] EXCEPT !.correlation = Verdict(l, e)]
<1>4. Verdict(l, e) \in Correlations
  BY DEF Verdict, Correlations
<1>5. /\ row \in Login /\ row.event = e /\ row.correlation = Verdict(l, e)
      /\ row.account = login[l].account /\ row.asset = login[l].asset
      /\ row.at = login[l].at /\ row.actor = login[l].actor /\ row.stored
  BY <1>2, <1>3, <1>4 DEF Login
<1>6. login' = [[login EXCEPT ![l].event = e] EXCEPT ![l].correlation = Verdict(l, e)]
  BY DEF SaveVerdict
<1>7. login \in [Logins -> Login \cup {Absent}]
  BY DEF UInv, TypeOK
<1>8. login'[l] = row /\ \A k \in Logins : k # l => login'[k] = login[k]
  BY <1>2, <1>6, <1>7
<1>9. DOMAIN login' = Logins /\ login' = [k \in Logins |-> login'[k]]
  BY <1>6, <1>7
<1> HIDE DEF row, l, e
<1>10. login' \in [Logins -> Login \cup {Absent}]
  BY <1>2, <1>5, <1>7, <1>8, <1>9
<1>11. Stored' = Stored
  BY <1>1, <1>2, <1>5, <1>8 DEF Stored
<1>12. \A k \in Stored : /\ login'[k].account = login[k].account
                         /\ login'[k].asset = login[k].asset
                         /\ login'[k].at = login[k].at /\ login'[k].actor = login[k].actor
  BY <1>5, <1>8 DEF Stored
<1>13. login'[l].event = e /\ login'[l].correlation = Verdict(l, e)
  BY <1>5, <1>8
<1>14. e # Nobody => Verdict(l, e) = "matched"
  <2> SUFFICES ASSUME e # Nobody PROVE Verdict(l, e) = "matched"
    OBVIOUS
  <2>1. Fits(l, e) /\ e \in Retrievals
    BY <1>1, <1>2 DEF l, e
  <2>2. retrieval[e] \in Retrieval /\ login[l].account = retrieval[e].account
    BY <2>1, StoredRows DEF UInv, Fits
  <2>3. login[l].account # Nobody
    BY <2>2, CorrelationAssumption DEF Retrieval
  <2> QED
    BY <2>3 DEF Verdict
<1>15. e = Nobody => Verdict(l, e) \in {"unexplained", "unmatched_account"}
  BY DEF Verdict
<1> QED
  BY <1>1, <1>2, <1>8, <1>10, <1>11, <1>12, <1>13, <1>14, <1>15 DEF l, e
------------------------------------------------------------------------------
(***************************************************************************)
(* The verdicts of overlapping passes are well-typed and name a retrieval  *)
(* that fits.                                                              *)
(***************************************************************************)
Explained(l) ==
  IF login[l].correlation = "matched" THEN Fits(l, login[l].event) ELSE login[l].event = Nobody

InHand(w) ==
  /\ pass[w].login \in Stored
  /\ pass[w].event # Nobody => Fits(pass[w].login, pass[w].event)

LEMMA PassGoesOn ==
  ASSUME UInv, UNCHANGED <<login, retrieval>>, NEW w \in Workers, NEW q \in Passes,
         pass' = [pass EXCEPT ![w] = q],
         q.pc \in {"judging", "saving"} => q.queue \subseteq Stored,
         q.pc = "saving" => q.login \in Stored /\ (q.event # Nobody => Fits(q.login, q.event))
  PROVE  PassTypes'
<1>1. Stored' = Stored /\ Correlated("matched")' = Correlated("matched")
  BY DEF Stored, Correlated
<1>2. pass' \in [Workers -> Passes]
  BY DEF UInv, PassTypes
<1>3. pass'[w] = q /\ \A v \in Workers : v # w => pass'[v] = pass[v]
  BY DEF UInv, PassTypes
<1>5. \A v \in Workers : pass'[v].pc \in {"judging", "saving"} => pass'[v].queue \subseteq Stored
  BY <1>3 DEF UInv, PassTypes
<1>6. \A v \in Workers : pass'[v].pc = "saving" => InHand(v)'
  BY <1>1, <1>3 DEF UInv, PassTypes, InHand, Fits
<1>7. \A l \in Correlated("matched") : login'[l].event # Nobody
  BY DEF UInv, PassTypes
<1> QED
  BY <1>1, <1>2, <1>5, <1>6, <1>7 DEF PassTypes, InHand

LEMMA UsageInit == Init => UInv
<1> SUFFICES ASSUME Init PROVE UInv
  OBVIOUS
<1>1. Stored = {}
  BY DEF Init, Stored, Absent
<1>2. \A c : Correlated(c) = {}
  BY <1>1 DEF Correlated
<1>3. \A w \in Workers : pass[w] = Idle /\ pass[w].pc = "idle"
  BY DEF Init, Idle
<1>4. login \in [Logins -> Login \cup {Absent}] /\ retrieval \in [Retrievals -> Retrieval \cup {Absent}]
  BY DEF Init
<1>5. link \in [Pairs -> Link \cup {Absent}] /\ address \in [Assets -> Addresses]
  BY DEF Init, Addresses
<1>6. pass \in [Workers -> Passes]
  BY DEF Init, Passes
<1> QED
  BY <1>1, <1>2, <1>3, <1>4, <1>5, <1>6 DEF UInv, TypeOK, PassTypes

LEMMA UsageIngestLogin ==
  ASSUME UInv, NEW l \in Logins, IngestLogin(l)
  PROVE  UInv'
<1>1. /\ l \notin Stored /\ Stored' = Stored \cup {l}
      /\ \A k \in Logins : k # l => login'[k] = login[k]
      /\ login' \in [Logins -> Login \cup {Absent}]
      /\ login'[l] \in Login /\ login'[l].event = Nobody
      /\ login'[l].correlation \in {"brokered", "unmatched_account", "pending"}
      /\ login'[l].correlation = "pending" => login'[l].account # Nobody
  BY IngestLoginFacts DEF UInv
<1>2. UNCHANGED <<retrieval, link>> /\ pass' = Unsteady(pass)
  BY DEF IngestLogin
<1>3. Stored \subseteq Logins /\ l \in Logins
  BY DEF Stored
<1>4. \A k \in Stored : \A e : login'[k] = login[k] /\ (Fits(k, e) => Fits(k, e)')
  BY <1>1, <1>2, <1>3 DEF Fits
<1>5. \A k \in Stored' : Explained(k)'
  <2> SUFFICES ASSUME NEW k \in Stored \cup {l} PROVE Explained(k)'
    BY <1>1
  <2>1. CASE k = l
    BY <2>1, <1>1 DEF Explained
  <2>2. CASE k \in Stored
    <3>1. login'[k] = login[k] /\ Explained(k)
      BY <2>2, <1>4 DEF UInv, TypeOK, Explained
    <3> QED
      BY <3>1, <1>2 DEF Explained, Fits
  <2> QED
    BY <2>1, <2>2
<1>6. \A k \in Correlated("pending")' : login'[k].account # Nobody
  BY <1>1, <1>4 DEF Correlated, UInv, TypeOK
<1>7. TypeOK'
  BY <1>1, <1>2, <1>5, <1>6, AddressStays DEF UInv, TypeOK, Explained
<1>8. /\ pass' \in [Workers -> Passes]
      /\ \A w \in Workers : /\ pass'[w].pc = pass[w].pc
                            /\ pass[w].pc # "linking" => pass'[w] = pass[w]
  BY <1>2, UnsteadyKeeps DEF UInv, PassTypes
<1>9. \A k \in Correlated("matched")' : login'[k].event # Nobody
  BY <1>1, <1>4 DEF Correlated, UInv, PassTypes
<1>10. \A w \in Workers : pass'[w].pc \in {"judging", "saving"} => pass'[w].queue \subseteq Stored'
  BY <1>1, <1>8 DEF UInv, PassTypes
<1>11. \A w \in Workers : pass'[w].pc = "saving" => InHand(w)'
  <2> SUFFICES ASSUME NEW w \in Workers, pass'[w].pc = "saving" PROVE InHand(w)'
    OBVIOUS
  <2>1. pass'[w] = pass[w] /\ pass[w].pc = "saving"
    BY <1>8
  <2>2. InHand(w)
    BY <2>1 DEF UInv, PassTypes, InHand
  <2>3. login'[pass[w].login] = login[pass[w].login]
    BY <2>2, <1>4 DEF InHand
  <2> QED
    BY <2>1, <2>2, <2>3, <1>1, <1>2 DEF InHand, Fits
<1>12. PassTypes'
  BY <1>8, <1>9, <1>10, <1>11 DEF PassTypes, InHand
<1> QED
  BY <1>7, <1>12 DEF UInv

LEMMA UsageIngestRetrieval ==
  ASSUME UInv, NEW e \in Retrievals, IngestRetrieval(e)
  PROVE  UInv'
<1>1. /\ \A f \in Retrievals : retrieval[f].stored => retrieval'[f] = retrieval[f]
      /\ retrieval' \in [Retrievals -> Retrieval \cup {Absent}]
  BY IngestRetrievalFacts DEF UInv
<1>2. UNCHANGED <<address, login, link, pass>>
  BY DEF IngestRetrieval
<1>3. Stored' = Stored /\ \A c : Correlated(c)' = Correlated(c)
  BY <1>2 DEF Stored, Correlated
<1>4. \A l, f : f \in Retrievals /\ Fits(l, f) => Fits(l, f)'
  BY <1>1, <1>2 DEF Fits
<1>5. \A l \in Stored : login[l].event \in Retrievals \cup {Nobody}
  BY StoredRows, LoginFields DEF UInv
<1>6. \A l \in Stored : Explained(l)'
  <2> SUFFICES ASSUME NEW l \in Stored PROVE Explained(l)'
    OBVIOUS
  <2>1. Explained(l)
    BY DEF UInv, TypeOK, Explained
  <2>2. login[l].correlation = "matched" => login[l].event \in Retrievals
    BY <1>5 DEF UInv, PassTypes, Correlated
  <2>3. login[l].correlation = "matched" => retrieval'[login[l].event] = retrieval[login[l].event]
    BY <1>1, <2>1, <2>2 DEF Explained, Fits
  <2> QED
    BY <1>2, <2>1, <2>3 DEF Explained, Fits
<1>7. TypeOK'
  BY <1>1, <1>2, <1>3, <1>6 DEF UInv, TypeOK, Explained
<1>8. \A w \in Workers : pass[w].pc = "saving" => InHand(w)'
  <2> SUFFICES ASSUME NEW w \in Workers, pass[w].pc = "saving" PROVE InHand(w)'
    OBVIOUS
  <2>1. pass[w] \in Saving /\ InHand(w)
    BY PassByPhase DEF UInv, PassTypes, InHand
  <2>2. pass[w].event # Nobody => pass[w].event \in Retrievals
    BY <2>1 DEF Saving
  <2>3. pass[w].event # Nobody => retrieval'[pass[w].event] = retrieval[pass[w].event]
    BY <1>1, <2>1, <2>2 DEF InHand, Fits
  <2> QED
    BY <1>2, <1>3, <2>1, <2>3 DEF InHand, Fits
<1>9. PassTypes'
  BY <1>2, <1>3, <1>8 DEF UInv, PassTypes, InHand
<1> QED
  BY <1>7, <1>9 DEF UInv

\* A step that stores no login and no retrieval keeps the rows typed.
LEMMA RowsStay ==
  ASSUME TypeOK, UNCHANGED <<login, retrieval>>, address' \in [Assets -> Addresses],
         link' \in [Pairs -> Link \cup {Absent}]
  PROVE  TypeOK'
<1>1. Stored' = Stored /\ \A c : Correlated(c)' = Correlated(c)
  BY DEF Stored, Correlated
<1>2. \A l, e : Fits(l, e)' <=> Fits(l, e)
  BY DEF Fits
<1> QED
  BY <1>1, <1>2 DEF TypeOK

LEMMA ChoicesFit ==
  ASSUME NEW l, NEW claimed, NEW e \in Choices(l, claimed)
  PROVE  e \in Retrievals /\ Fits(l, e) /\ e \notin claimed
BY DEF Choices

LEMMA LinkIsTyped ==
  ASSUME UInv, NEW w \in Workers, pass[w].pc = "linking", NEW p \in Pairs
  PROVE  Refreshed(w, p) \in Link
<1>1. pass[w] \in Linking
  BY PassByPhase DEF UInv, PassTypes
<1>2. pass[w].totals[p] \in Nat
  BY <1>1 DEF Linking
<1>3. Cardinality(On(p) \cap Correlated("unexplained")) \in Nat
  BY OnAreLogins, CountIsNat
<1>4. Outside(p) \in BOOLEAN
  BY DEF Outside
<1> QED
  BY <1>2, <1>3, <1>4 DEF Refreshed, Link

LEMMA UsageSaveVerdict ==
  ASSUME UInv, NEW w \in Workers, SaveVerdict(w)
  PROVE  UInv'
<1> DEFINE l == pass[w].login
           e == pass[w].event
           q == [pc |-> "judging", claimed |-> pass[w].claimed, known |-> pass[w].known,
                 queue |-> pass[w].queue]
           passes == [pass EXCEPT ![w] = q]
<1>1. /\ l \in Stored /\ e \in Retrievals \cup {Nobody}
      /\ e # Nobody => Fits(l, e)
      /\ pass[w] \in Saving
      /\ Stored' = Stored
      /\ login' \in [Logins -> Login \cup {Absent}]
      /\ \A k \in Logins : k # l => login'[k] = login[k]
      /\ login'[l].event = e
      /\ e # Nobody => login'[l].correlation = "matched"
      /\ e = Nobody => login'[l].correlation \in {"unexplained", "unmatched_account"}
      /\ \A k \in Stored : /\ login'[k].account = login[k].account
                           /\ login'[k].asset = login[k].asset
                           /\ login'[k].at = login[k].at /\ login'[k].actor = login[k].actor
  BY SaveVerdictFacts, Zenon
<1>2. UNCHANGED <<address, retrieval, link>> /\ pass' = Unsteady(passes) /\ pass[w].pc = "saving"
  BY DEF SaveVerdict
<1>3. q \in Judging /\ q.pc = "judging" /\ q.queue = pass[w].queue /\ q.queue \subseteq Stored
  BY <1>1, <1>2 DEF Judging, Saving, UInv, PassTypes
<1>4. passes \in [Workers -> Passes] /\ passes[w] = q /\ \A v \in Workers : v # w => passes[v] = pass[v]
  BY <1>3 DEF UInv, PassTypes, Passes
<1> HIDE DEF q, l, e, passes
<1>5. \A k \in Stored : Explained(k)'
  <2> SUFFICES ASSUME NEW k \in Stored PROVE Explained(k)'
    OBVIOUS
  <2>1. CASE k = l
    BY <2>1, <1>1, <1>2 DEF Explained, Fits
  <2>2. CASE k # l
    <3>1. login'[k] = login[k] /\ Explained(k)
      BY <2>2, <1>1 DEF UInv, TypeOK, Explained, Stored
    <3> QED
      BY <3>1, <1>2 DEF Explained, Fits
  <2> QED
    BY <2>1, <2>2
<1>6. \A k \in Correlated("pending")' : login'[k].account # Nobody
  BY <1>1 DEF Correlated, UInv, TypeOK, Stored
<1>7. TypeOK'
  BY <1>1, <1>2, <1>5, <1>6 DEF UInv, TypeOK, Explained
<1>8. /\ pass' \in [Workers -> Passes]
      /\ \A v \in Workers : /\ pass'[v].pc = passes[v].pc
                            /\ passes[v].pc # "linking" => pass'[v] = passes[v]
  BY <1>2, <1>4, UnsteadyKeeps
<1>9. \A k \in Correlated("matched")' : login'[k].event # Nobody
  BY <1>1 DEF Correlated, UInv, PassTypes, Stored
<1>10. \A v \in Workers : pass'[v].pc \in {"judging", "saving"} => pass'[v].queue \subseteq Stored'
  BY <1>1, <1>3, <1>4, <1>8 DEF UInv, PassTypes
<1>11. \A v \in Workers : pass'[v].pc = "saving" => InHand(v)'
  <2> SUFFICES ASSUME NEW v \in Workers, pass'[v].pc = "saving" PROVE InHand(v)'
    OBVIOUS
  <2>1. v # w /\ pass'[v] = pass[v] /\ pass[v].pc = "saving"
    BY <1>3, <1>4, <1>8
  <2>2. InHand(v)
    BY <2>1 DEF UInv, PassTypes, InHand
  <2> QED
    BY <2>1, <2>2, <1>1, <1>2 DEF InHand, Fits
<1>12. PassTypes'
  BY <1>8, <1>9, <1>10, <1>11 DEF PassTypes, InHand
<1> QED
  BY <1>7, <1>12 DEF UInv

LEMMA UsageOtherSteps ==
  ASSUME UInv, NEW w \in Workers,
         \/ StartPass(w) \/ ReadPending(w) \/ Judge(w) \/ StartLinks(w)
         \/ UpdateLink(w) \/ FinishPass(w) \/ LosePass(w)
  PROVE  UInv'
<1>1. /\ pass \in [Workers -> Passes] /\ pass[w] \in Passes
      /\ address' = address /\ address \in [Assets -> Addresses]
      /\ link \in [Pairs -> Link \cup {Absent}]
  BY DEF UInv, PassTypes, TypeOK, StartPass, ReadPending, Judge, StartLinks, UpdateLink, FinishPass,
     LosePass
<1>2. UNCHANGED <<login, retrieval>>
  BY DEF StartPass, ReadPending, Judge, StartLinks, UpdateLink, FinishPass, LosePass
<1>3. CASE StartPass(w)
  <2> DEFINE q == [pc |-> "started", claimed |-> Claimed,
                   known |-> {e \in Retrievals : retrieval[e].stored}]
  <2>1. Claimed \subseteq Retrievals
    BY StoredRows, LoginFields DEF Claimed, UInv
  <2>2. q \in Passes /\ q.pc = "started"
    BY <2>1 DEF Passes, Started
  <2>3. pass' = [pass EXCEPT ![w] = q] /\ link' = link
    BY <1>3 DEF StartPass
  <2> HIDE DEF q
  <2>4. PassTypes'
    BY <1>2, <2>2, <2>3, PassGoesOn
  <2> QED
    BY <1>1, <1>2, <2>3, <2>4, RowsStay DEF UInv
<1>4. CASE ReadPending(w)
  <2>1. PICK batch \in Batches : pass' = [pass EXCEPT ![w] =
         [pc |-> "judging", claimed |-> pass[w].claimed, known |-> pass[w].known, queue |-> batch]]
    BY <1>4 DEF ReadPending
  <2> DEFINE q == [pc |-> "judging", claimed |-> pass[w].claimed, known |-> pass[w].known, queue |-> batch]
  <2>2. pass[w] \in Started
    BY <1>1, <1>4, PassByPhase DEF ReadPending
  <2>3. batch \subseteq Stored /\ batch \subseteq Logins
    BY DEF Batches, Correlated, Stored
  <2>4. q \in Judging /\ q.pc = "judging" /\ q.queue \subseteq Stored
    BY <2>2, <2>3 DEF Judging, Started
  <2>5. pass' = [pass EXCEPT ![w] = q] /\ link' = link
    BY <1>4, <2>1 DEF ReadPending
  <2> HIDE DEF q
  <2>6. q \in Passes
    BY <2>4 DEF Passes
  <2>7. PassTypes'
    BY <1>2, <2>4, <2>5, <2>6, PassGoesOn
  <2> QED
    BY <1>1, <1>2, <2>5, <2>7, RowsStay DEF UInv
<1>5. CASE Judge(w)
  <2>1. PICK l \in pass[w].queue, e \in Retrievals \cup {Nobody} :
           /\ e # Nobody => e \in Choices(l, pass[w].claimed)
           /\ pass' = [pass EXCEPT ![w] =
                [pc |-> "saving", claimed |-> Claim(pass[w].claimed, e), known |-> pass[w].known,
                 queue |-> pass[w].queue \ {l}, login |-> l, event |-> e]]
    BY <1>5, JudgeFacts, Zenon
  <2> DEFINE q == [pc |-> "saving", claimed |-> Claim(pass[w].claimed, e), known |-> pass[w].known,
                   queue |-> pass[w].queue \ {l}, login |-> l, event |-> e]
  <2>2. pass[w] \in Judging /\ pass[w].queue \subseteq Stored
    BY <1>1, <1>5, PassByPhase DEF Judge, UInv, PassTypes
  <2>3. l \in Stored /\ l \in Logins /\ (e # Nobody => Fits(l, e))
    BY <2>1, <2>2, ChoicesFit DEF Judging
  <2>4. q \in Saving /\ q.pc = "saving" /\ q.queue \subseteq Stored /\ q.login = l /\ q.event = e
    BY <2>2, <2>3 DEF Judging, Saving, Claim
  <2>5. pass' = [pass EXCEPT ![w] = q] /\ link' = link
    BY <1>5, <2>1 DEF Judge
  <2> HIDE DEF q
  <2>6. q \in Passes
    BY <2>4 DEF Passes
  <2>7. PassTypes'
    BY <1>2, <2>3, <2>4, <2>5, <2>6, PassGoesOn
  <2> QED
    BY <1>1, <1>2, <2>5, <2>7, RowsStay DEF UInv
<1>6. CASE StartLinks(w)
  <2> DEFINE q == [pc |-> "linking", totals |-> [p \in Pairs |-> Cardinality(On(p))],
                   left |-> {p \in Pairs : On(p) # {}}, steady |-> TRUE]
  <2>1. \A p \in Pairs : Cardinality(On(p)) \in Nat
    BY OnAreLogins, CountIsNat
  <2>2. q \in Passes /\ q.pc = "linking"
    BY <2>1 DEF Passes, Linking
  <2>3. pass' = [pass EXCEPT ![w] = q] /\ link' = link
    BY <1>6 DEF StartLinks
  <2> HIDE DEF q
  <2>4. PassTypes'
    BY <1>2, <2>2, <2>3, PassGoesOn
  <2> QED
    BY <1>1, <1>2, <2>3, <2>4, RowsStay DEF UInv
<1>7. CASE UpdateLink(w)
  <2>1. PICK p \in pass[w].left : /\ link' = [link EXCEPT ![p] = Refreshed(w, p)]
                                  /\ pass' = [pass EXCEPT ![w].left = @ \ {p}]
    BY <1>7 DEF UpdateLink
  <2> DEFINE q == [pass[w] EXCEPT !.left = @ \ {p}]
  <2>2. pass[w] \in Linking /\ pass[w].pc = "linking"
    BY <1>1, <1>7, PassByPhase DEF UpdateLink
  <2>3. q \in Linking /\ q.pc = "linking" /\ p \in Pairs
    BY <2>2 DEF Linking
  <2>4. pass' = [pass EXCEPT ![w] = q]
    BY <2>1
  <2> HIDE DEF q
  <2>5. q \in Passes
    BY <2>3 DEF Passes
  <2>6. PassTypes'
    BY <1>2, <2>3, <2>4, <2>5, PassGoesOn
  <2>7. link' \in [Pairs -> Link \cup {Absent}]
    BY <1>1, <2>1, <2>2, <2>3, LinkIsTyped
  <2> QED
    BY <1>1, <1>2, <2>6, <2>7, RowsStay DEF UInv
<1>8. CASE FinishPass(w) \/ LosePass(w)
  <2>1. pass' = [pass EXCEPT ![w] = Idle] /\ link' = link
    BY <1>8 DEF FinishPass, LosePass
  <2>2. Idle \in Passes /\ Idle.pc = "idle"
    BY DEF Passes, Idle
  <2>3. PassTypes'
    BY <1>2, <2>1, <2>2, PassGoesOn
  <2> QED
    BY <1>1, <1>2, <2>1, <2>3, RowsStay DEF UInv
<1> QED
  BY <1>3, <1>4, <1>5, <1>6, <1>7, <1>8

LEMMA UsageStep == UInv /\ [Next]_vars => UInv'
<1> SUFFICES ASSUME UInv, [Next]_vars PROVE UInv'
  OBVIOUS
<1>1. ASSUME NEW l \in Logins, IngestLogin(l) \/ RepeatLogin(l) PROVE UInv'
  <2>1. CASE IngestLogin(l)
    BY <2>1, UsageIngestLogin
  <2>2. CASE RepeatLogin(l)
    <3>1. UNCHANGED <<login, retrieval, link, pass>> /\ TypeOK
      BY <2>2 DEF RepeatLogin, UInv
    <3>2. TypeOK'
      BY <2>2, <3>1, AddressStays, RowsStay DEF TypeOK
    <3>3. PassTypes'
      BY <3>1 DEF UInv, PassTypes, Stored, Correlated, Fits
    <3> QED
      BY <3>2, <3>3 DEF UInv
  <2> QED
    BY <1>1, <2>1, <2>2
<1>2. ASSUME NEW e \in Retrievals, IngestRetrieval(e) PROVE UInv'
  BY <1>2, UsageIngestRetrieval
<1>3. ASSUME NEW w \in Workers, Step(w) \/ LosePass(w) PROVE UInv'
  BY <1>3, UsageSaveVerdict, UsageOtherSteps DEF Step
<1>4. CASE UNCHANGED vars
  <2>1. UNCHANGED <<address, login, retrieval, link, pass>> /\ TypeOK
    BY <1>4 DEF vars, UInv
  <2>2. TypeOK'
    BY <2>1, RowsStay DEF TypeOK
  <2>3. PassTypes'
    BY <2>1 DEF UInv, PassTypes, Stored, Correlated, Fits
  <2> QED
    BY <2>2, <2>3 DEF UInv
<1> QED
  BY <1>1, <1>2, <1>3, <1>4 DEF Next

(***************************************************************************)
(* Passes may overlap, logins and retrievals come in any order: a matched  *)
(* login always names a stored retrieval of its own account, in the        *)
(* window, by the same person or by one who was not named.                 *)
(***************************************************************************)
THEOREM MatchesAlwaysFit == Spec => []TypeOK
<1>1. Init => UInv
  BY UsageInit
<1>2. UInv /\ [Next]_vars => UInv'
  BY UsageStep
<1>3. UInv => TypeOK
  BY DEF UInv
<1> QED
  BY <1>1, <1>2, <1>3, PTL DEF Spec
------------------------------------------------------------------------------
(***************************************************************************)
(* One worker at a time.                                                   *)
(***************************************************************************)
Solo == \A v, w \in Workers : v = w

\* A set of naturals that has a bound has a greatest element.
LEMMA GreatestExists ==
  ASSUME NEW n \in Nat, NEW S \in SUBSET (0..n), S # {}
  PROVE  \E m \in S : \A k \in S : k <= m
<1> DEFINE Above(m) == m..n
           T == {Above(m) : m \in S}
<1>1. T \subseteq FiniteSubsetsOf(Nat)
  <2> SUFFICES ASSUME NEW m \in S PROVE Above(m) \in FiniteSubsetsOf(Nat)
    OBVIOUS
  <2>1. m \in Int /\ n \in Int /\ Above(m) \subseteq Nat
    OBVIOUS
  <2> QED
    BY <2>1, FS_Interval DEF FiniteSubsetsOf
<1>2. T # {}
  OBVIOUS
<1>3. PICK least \in T : \A y \in T : ~(<<y, least>> \in StrictSubsetOrdering(Nat))
  BY <1>1, <1>2, FS_StrictSubsetOrderingWellFounded, WFMin
<1>4. PICK m \in S : least = Above(m)
  OBVIOUS
<1>5. ASSUME NEW k \in S, ~(k <= m) PROVE FALSE
  <2>1. Above(k) \subseteq Above(m) /\ m \in Above(m) /\ m \notin Above(k)
    BY <1>5
  <2>2. <<Above(k), Above(m)>> \in StrictSubsetOrdering(Nat)
    BY <2>1 DEF StrictSubsetOrdering
  <2> QED
    BY <2>2, <1>3, <1>4
<1> QED
  BY <1>5

\* If nothing is chosen, whatever fits is claimed.
LEMMA NothingFree ==
  ASSUME TypeOK, NEW l \in Stored, NEW claimed, Choices(l, claimed) = {},
         NEW e \in Retrievals, Fits(l, e)
  PROVE  e \in claimed
<1> SUFFICES ASSUME e \notin claimed PROVE FALSE
  OBVIOUS
<1> DEFINE free == {f \in Retrievals : Fits(l, f) /\ f \notin claimed}
           times == {retrieval[f].at : f \in free}
           n == login[l].at + Tolerance
<1>1. login[l] \in Login
  BY StoredRows
<1>2. n \in Nat
  BY <1>1, LoginFields, CorrelationAssumption
<1>3. times \subseteq 0..n
  BY FitsWithinReach
<1>4. times # {}
  OBVIOUS
<1>5. \E m \in times : \A k \in times : k <= m
  <2> HIDE DEF times, n
  <2> QED
    BY <1>2, <1>3, <1>4, GreatestExists
<1>6. PICK latest \in free : \A f \in free : retrieval[f].at <= retrieval[latest].at
  BY <1>5
<1>7. latest \in Choices(l, claimed)
  BY <1>6 DEF Choices
<1> QED
  BY <1>7

\* What one pass knows; ClaimsKnown says it of every worker.
Knows(w) ==
  /\ pass[w].pc \in {"started", "judging"} => pass[w].claimed = Claimed
  /\ pass[w].pc \in {"judging", "saving"} => pass[w].queue \subseteq Correlated("pending")
  /\ pass[w].pc \in {"started", "judging", "saving"} => \A e \in pass[w].known : retrieval[e].stored
  /\ pass[w].pc = "saving" =>
       /\ pass[w].claimed = Claimed \cup ({pass[w].event} \ {Nobody})
       /\ pass[w].event \notin Claimed
       /\ pass[w].login \in Correlated("pending") \ pass[w].queue
       /\ pass[w].event = Nobody => \A e \in pass[w].known : Fits(pass[w].login, e) => e \in Claimed

LEMMA ClaimsByWorker == ClaimsKnown <=> \A w \in Workers : Knows(w)
BY DEF ClaimsKnown, Knows

Claims == ClaimsKnown /\ OneRetrievalOneLogin

LEMMA ClaimsIngestLogin ==
  ASSUME UInv, Claims, NEW l \in Logins, IngestLogin(l)
  PROVE  Claims'
<1>1. /\ l \notin Stored /\ Stored' = Stored \cup {l}
      /\ \A k \in Logins : k # l => login'[k] = login[k]
      /\ login'[l].event = Nobody
      /\ login'[l].correlation \in {"brokered", "unmatched_account", "pending"}
  BY IngestLoginFacts DEF UInv
<1>2. UNCHANGED retrieval /\ pass' = Unsteady(pass) /\ Stored \subseteq Logins
  BY DEF IngestLogin, Stored
<1>3. \A k \in Stored : login'[k] = login[k]
  BY <1>1, <1>2
<1>4. Claimed' = Claimed
  BY <1>1, <1>3 DEF Claimed
<1>5. Correlated("matched")' = Correlated("matched") /\ Correlated("pending") \subseteq Correlated("pending")'
  BY <1>1, <1>3 DEF Correlated
<1>6. OneRetrievalOneLogin'
  BY <1>3, <1>5 DEF Claims, OneRetrievalOneLogin, Correlated
<1>7. \A w \in Workers : pass'[w].pc = pass[w].pc /\ (pass[w].pc # "linking" => pass'[w] = pass[w])
  BY <1>2, UnsteadyKeeps DEF UInv, PassTypes
<1>8. ASSUME NEW w \in Workers PROVE Knows(w)'
  <2>1. CASE pass[w].pc = "linking"
    BY <2>1, <1>7 DEF Knows
  <2>2. CASE pass[w].pc # "linking"
    <3>1. pass'[w] = pass[w] /\ Knows(w)
      BY <2>2, <1>7, ClaimsByWorker DEF Claims
    <3>2. pass[w].pc = "saving" => login'[pass[w].login] = login[pass[w].login]
      BY <1>3 DEF UInv, PassTypes
    <3> QED
      BY <3>1, <3>2, <1>2, <1>4, <1>5 DEF Knows, Fits
  <2> QED
    BY <2>1, <2>2
<1> QED
  BY <1>6, <1>8 DEF Claims, ClaimsKnown, Knows

LEMMA ClaimsIngestRetrieval ==
  ASSUME UInv, Claims, NEW e \in Retrievals, IngestRetrieval(e)
  PROVE  Claims'
<1>1. \A f \in Retrievals : retrieval[f].stored => retrieval'[f] = retrieval[f]
  BY IngestRetrievalFacts DEF UInv
<1>2. UNCHANGED <<login, pass>>
  BY DEF IngestRetrieval
<1>3. Stored' = Stored /\ (\A c : Correlated(c)' = Correlated(c)) /\ Claimed' = Claimed
  BY <1>2 DEF Stored, Correlated, Claimed
<1>4. OneRetrievalOneLogin'
  BY <1>2, <1>3 DEF Claims, OneRetrievalOneLogin
<1>5. ASSUME NEW w \in Workers PROVE Knows(w)'
  <2>1. Knows(w) /\ pass[w] \in Passes
    BY ClaimsByWorker DEF Claims, UInv, PassTypes
  <2>2. pass[w].pc \in {"started", "judging", "saving"} => pass[w].known \subseteq Retrievals
    BY <2>1, PassByPhase DEF Started, Judging, Saving
  <2>3. pass[w].pc \in {"started", "judging", "saving"} =>
          \A f \in pass[w].known : retrieval'[f] = retrieval[f]
    BY <1>1, <2>1, <2>2 DEF Knows
  <2> QED
    BY <1>2, <1>3, <2>1, <2>3 DEF Knows, Fits
<1> QED
  BY <1>4, <1>5 DEF Claims, ClaimsKnown, Knows

LEMMA ClaimsSaveVerdict ==
  ASSUME Solo, UInv, Claims, NEW w \in Workers, SaveVerdict(w)
  PROVE  Claims'
<1> DEFINE l == pass[w].login
           e == pass[w].event
           q == [pc |-> "judging", claimed |-> pass[w].claimed, known |-> pass[w].known,
                 queue |-> pass[w].queue]
<1>1. /\ l \in Stored /\ e \in Retrievals \cup {Nobody}
      /\ Stored' = Stored
      /\ \A k \in Logins : k # l => login'[k] = login[k]
      /\ login'[l].event = e
      /\ e # Nobody => login'[l].correlation = "matched"
      /\ e = Nobody => login'[l].correlation \in {"unexplained", "unmatched_account"}
  BY SaveVerdictFacts, Zenon
<1>2. UNCHANGED retrieval /\ pass' = Unsteady([pass EXCEPT ![w] = q]) /\ pass[w].pc = "saving"
  BY DEF SaveVerdict
<1>3. pass[w] \in Saving
  BY <1>2, PassByPhase DEF UInv, PassTypes
<1>4. q \in Passes /\ q.pc = "judging"
  BY <1>3 DEF Passes, Judging, Saving
<1>5. /\ q.claimed = Claimed \cup ({e} \ {Nobody}) /\ e \notin Claimed
      /\ q.queue \subseteq Correlated("pending") /\ l \in Correlated("pending") \ q.queue
      /\ \A f \in q.known : retrieval[f].stored
  BY <1>2, ClaimsByWorker DEF Claims, Knows
<1> HIDE DEF q
<1>6. pass'[w] = q
  <2>1. [pass EXCEPT ![w] = q] \in [Workers -> Passes] /\ [pass EXCEPT ![w] = q][w] = q
    BY <1>4 DEF UInv, PassTypes
  <2> QED
    BY <2>1, <1>2, <1>4, UnsteadyKeeps
<1> HIDE DEF l, e
<1>7. login[l].event = Nobody /\ Stored \subseteq Logins
  BY <1>5 DEF UInv, TypeOK, Correlated, Stored
<1>8. Claimed' = Claimed \cup ({e} \ {Nobody})
  BY <1>1, <1>7 DEF Claimed
<1>9. q.queue \subseteq Correlated("pending")'
  BY <1>1, <1>5, <1>7 DEF Correlated
<1>10. \A v \in Workers : Knows(v)'
  BY <1>2, <1>4, <1>5, <1>6, <1>8, <1>9 DEF Solo, Knows
<1>11. OneRetrievalOneLogin'
  <2> SUFFICES ASSUME NEW j \in Correlated("matched")', NEW k \in Correlated("matched")',
                      login'[j].event = login'[k].event
               PROVE  j = k
    BY DEF OneRetrievalOneLogin
  <2>1. \A m \in Correlated("matched")' : m # l =>
          m \in Correlated("matched") /\ login'[m].event = login[m].event /\ login[m].event \in Claimed
    BY <1>1, <1>7 DEF Correlated, Claimed, UInv, PassTypes
  <2> QED
    BY <2>1, <1>1, <1>5 DEF Claims, OneRetrievalOneLogin
<1> QED
  BY <1>10, <1>11 DEF Claims, ClaimsKnown, Knows

\* The other steps change no row, and only the pass of the worker that takes them.
LEMMA ClaimsGoOn ==
  ASSUME Solo, UInv, Claims, UNCHANGED <<login, retrieval>>, NEW w \in Workers, NEW q,
         pass' = [pass EXCEPT ![w] = q],
         q.pc \in {"started", "judging"} => q.claimed = Claimed,
         q.pc \in {"judging", "saving"} => q.queue \subseteq Correlated("pending"),
         q.pc \in {"started", "judging", "saving"} => \A e \in q.known : retrieval[e].stored,
         q.pc = "saving" =>
           /\ q.claimed = Claimed \cup ({q.event} \ {Nobody})
           /\ q.event \notin Claimed
           /\ q.login \in Correlated("pending") \ q.queue
           /\ q.event = Nobody => \A e \in q.known : Fits(q.login, e) => e \in Claimed
  PROVE  Claims'
<1>1. /\ Stored' = Stored /\ Claimed' = Claimed
      /\ Correlated("pending")' = Correlated("pending") /\ Correlated("matched")' = Correlated("matched")
  BY DEF Stored, Correlated, Claimed
<1>2. pass'[w] = q /\ \A v \in Workers : v = w
  BY DEF UInv, PassTypes, Solo
<1>3. OneRetrievalOneLogin'
  BY <1>1 DEF Claims, OneRetrievalOneLogin
<1>4. Knows(w)'
  BY <1>1, <1>2 DEF Knows, Fits
<1> QED
  BY <1>2, <1>3, <1>4 DEF Claims, ClaimsKnown, Knows

LEMMA ClaimsOtherSteps ==
  ASSUME Solo, UInv, Claims, NEW w \in Workers,
         \/ StartPass(w) \/ ReadPending(w) \/ Judge(w) \/ StartLinks(w)
         \/ UpdateLink(w) \/ FinishPass(w) \/ LosePass(w)
  PROVE  Claims'
<1>1. pass \in [Workers -> Passes] /\ pass[w] \in Passes /\ Knows(w)
  BY ClaimsByWorker DEF UInv, PassTypes, Claims
<1>2. UNCHANGED <<login, retrieval>>
  BY DEF StartPass, ReadPending, Judge, StartLinks, UpdateLink, FinishPass, LosePass
<1>3. CASE StartPass(w)
  <2> DEFINE q == [pc |-> "started", claimed |-> Claimed,
                   known |-> {e \in Retrievals : retrieval[e].stored}]
  <2>1. q.pc = "started" /\ q.claimed = Claimed /\ \A e \in q.known : retrieval[e].stored
    OBVIOUS
  <2>2. pass' = [pass EXCEPT ![w] = q]
    BY <1>3 DEF StartPass
  <2> HIDE DEF q
  <2> QED
    BY <1>2, <2>1, <2>2, ClaimsGoOn
<1>4. CASE ReadPending(w)
  <2>1. PICK batch \in Batches : pass' = [pass EXCEPT ![w] =
         [pc |-> "judging", claimed |-> pass[w].claimed, known |-> pass[w].known, queue |-> batch]]
    BY <1>4 DEF ReadPending
  <2> DEFINE q == [pc |-> "judging", claimed |-> pass[w].claimed, known |-> pass[w].known, queue |-> batch]
  <2>2. batch \subseteq Correlated("pending")
    BY DEF Batches
  <2>3. /\ q.pc = "judging" /\ q.claimed = Claimed /\ q.queue \subseteq Correlated("pending")
        /\ \A e \in q.known : retrieval[e].stored
    BY <1>1, <1>4, <2>2 DEF Knows, ReadPending
  <2>4. pass' = [pass EXCEPT ![w] = q]
    BY <2>1
  <2> HIDE DEF q
  <2> QED
    BY <1>2, <2>3, <2>4, ClaimsGoOn
<1>5. CASE Judge(w)
  <2>1. PICK l \in pass[w].queue, e \in Retrievals \cup {Nobody} :
           /\ e # Nobody => e \in Choices(l, pass[w].claimed)
           /\ e = Nobody => Choices(l, pass[w].claimed) = {}
           /\ pass' = [pass EXCEPT ![w] =
                [pc |-> "saving", claimed |-> Claim(pass[w].claimed, e), known |-> pass[w].known,
                 queue |-> pass[w].queue \ {l}, login |-> l, event |-> e]]
    BY <1>5, JudgeFacts, Zenon
  <2> DEFINE q == [pc |-> "saving", claimed |-> Claim(pass[w].claimed, e), known |-> pass[w].known,
                   queue |-> pass[w].queue \ {l}, login |-> l, event |-> e]
  <2>2. /\ pass[w] \in Judging /\ pass[w].claimed = Claimed
        /\ pass[w].queue \subseteq Correlated("pending") /\ \A f \in pass[w].known : retrieval[f].stored
    BY <1>1, <1>5, PassByPhase DEF Judge, Knows
  <2>3. l \in Stored /\ l \in Correlated("pending") /\ pass[w].known \subseteq Retrievals
    BY <2>1, <2>2 DEF Judging, Correlated
  <2>4. e \notin Claimed
    <3>1. CASE e = Nobody
      BY <3>1 DEF Claimed
    <3>2. CASE e # Nobody
      BY <3>2, <2>1, <2>2, ChoicesFit
    <3> QED
      BY <3>1, <3>2
  <2>5. e = Nobody => \A f \in pass[w].known : Fits(l, f) => f \in Claimed
    BY <2>1, <2>2, <2>3, NothingFree DEF UInv
  <2>6. /\ q.pc = "saving" /\ q.claimed = Claimed \cup ({e} \ {Nobody}) /\ q.event = e
        /\ q.login = l /\ q.queue \subseteq Correlated("pending") /\ l \notin q.queue
        /\ q.known = pass[w].known
    BY <2>2 DEF Claim
  <2>7. pass' = [pass EXCEPT ![w] = q]
    BY <2>1
  <2> HIDE DEF q
  <2> QED
    BY <1>2, <2>2, <2>3, <2>4, <2>5, <2>6, <2>7, ClaimsGoOn
<1>6. CASE StartLinks(w) \/ UpdateLink(w) \/ FinishPass(w) \/ LosePass(w)
  <2>1. PICK q : pass' = [pass EXCEPT ![w] = q] /\ q.pc \in {"linking", "idle"}
    <3>1. CASE StartLinks(w)
      <4> DEFINE r == [pc |-> "linking", totals |-> [p \in Pairs |-> Cardinality(On(p))],
                       left |-> {p \in Pairs : On(p) # {}}, steady |-> TRUE]
      <4>1. pass' = [pass EXCEPT ![w] = r] /\ r.pc = "linking"
        BY <3>1 DEF StartLinks
      <4> HIDE DEF r
      <4> QED
        BY <4>1
    <3>2. CASE UpdateLink(w)
      <4>1. PICK p \in pass[w].left : pass' = [pass EXCEPT ![w].left = @ \ {p}]
        BY <3>2 DEF UpdateLink
      <4>2. pass[w] \in Linking
        BY <1>1, <3>2, PassByPhase DEF UpdateLink
      <4>3. [pass[w] EXCEPT !.left = @ \ {p}].pc = "linking"
        BY <4>2 DEF Linking
      <4> QED
        BY <4>1, <4>3
    <3>3. CASE FinishPass(w) \/ LosePass(w)
      <4>1. pass' = [pass EXCEPT ![w] = Idle] /\ Idle.pc = "idle"
        BY <3>3 DEF FinishPass, LosePass, Idle
      <4> QED
        BY <4>1
    <3> QED
      BY <1>6, <3>1, <3>2, <3>3
  <2> QED
    BY <1>2, <2>1, ClaimsGoOn
<1> QED
  BY <1>3, <1>4, <1>5, <1>6

------------------------------------------------------------------------------
(***************************************************************************)
(* The links.                                                              *)
(***************************************************************************)
Reach == Rebuilding /\ LinksTellTheReach

LEMMA UnexplainedAreCounted ==
  ASSUME NEW p
  PROVE  Cardinality(On(p) \cap Correlated("unexplained")) <= Cardinality(On(p))
<1>1. IsFiniteSet(On(p)) /\ On(p) \cap Correlated("unexplained") \in SUBSET On(p)
  BY OnAreLogins, CountIsNat
<1> QED
  BY <1>1, FS_Subset

LEMMA ReachIngestLogin ==
  ASSUME UInv, Reach, NEW l \in Logins, IngestLogin(l)
  PROVE  Reach'
<1>1. /\ l \notin Stored /\ Stored' = Stored \cup {l}
      /\ \A k \in Logins : k # l => login'[k] = login[k]
      /\ login'[l].correlation \in {"brokered", "unmatched_account", "pending"}
  BY IngestLoginFacts DEF UInv
<1>2. UNCHANGED link /\ ~fresh' /\ pass' = Unsteady(pass) /\ Stored \subseteq Logins
  BY DEF IngestLogin, Stored
<1>3. \A p : (On(p) \cap Correlated("unexplained"))' = On(p) \cap Correlated("unexplained")
  BY <1>1, <1>2 DEF On, Correlated
<1>4. \A w \in Workers :
        /\ pass'[w].pc = pass[w].pc
        /\ pass[w].pc = "linking" => pass'[w].totals = pass[w].totals /\ ~pass'[w].steady
  BY <1>2, UnsteadyKeeps DEF UInv, PassTypes
<1> QED
  BY <1>2, <1>3, <1>4 DEF Reach, Rebuilding, LinksTellTheReach

LEMMA ReachStands ==
  ASSUME Reach, UNCHANGED <<login, link, pass, fresh>>
  PROVE  Reach'
<1>1. Stored' = Stored /\ \A c : Correlated(c)' = Correlated(c)
  BY DEF Stored, Correlated
<1>2. \A p : On(p)' = On(p)
  BY <1>1 DEF On
<1>3. \A p : Right(p)' <=> Right(p)
  BY <1>1, <1>2 DEF Right
<1> QED
  BY <1>1, <1>2, <1>3 DEF Reach, Rebuilding, LinksTellTheReach

\* A worker that is not rebuilding, and stores no link, once its step is taken.
LEMMA ReachElsewhere ==
  ASSUME Solo, Reach, NEW w \in Workers, pass'[w].pc # "linking", UNCHANGED link,
         fresh' => fresh /\ UNCHANGED login
  PROVE  Reach'
<1>1. Rebuilding'
  BY DEF Rebuilding, Solo
<1>2. \A p \in Pairs : link'[p].stored => link'[p].unexplained <= link'[p].total
  BY DEF Reach, LinksTellTheReach
<1>3. ASSUME fresh'
      PROVE  (\A p \in Pairs : On(p) # {} =>
               /\ link[p].stored /\ link[p].total = Cardinality(On(p))
               /\ link[p].unexplained = Cardinality(On(p) \cap Correlated("unexplained")))'
  <2>1. login' = login /\ fresh
    BY <1>3
  <2>2. (\A p : On(p)' = On(p)) /\ Correlated("unexplained")' = Correlated("unexplained")
    BY <2>1 DEF On, Stored, Correlated
  <2> QED
    BY <2>1, <2>2 DEF Reach, LinksTellTheReach
<1> QED
  BY <1>1, <1>2, <1>3 DEF Reach, LinksTellTheReach

LEMMA ReachSaveVerdict ==
  ASSUME Solo, UInv, Reach, NEW w \in Workers, SaveVerdict(w)
  PROVE  Reach'
<1> DEFINE q == [pc |-> "judging", claimed |-> pass[w].claimed, known |-> pass[w].known,
                 queue |-> pass[w].queue]
<1>1. UNCHANGED link /\ ~fresh' /\ pass' = Unsteady([pass EXCEPT ![w] = q]) /\ pass[w].pc = "saving"
  BY DEF SaveVerdict
<1>2. pass[w] \in Saving
  BY <1>1, PassByPhase DEF UInv, PassTypes
<1>3. q \in Passes /\ q.pc = "judging"
  BY <1>2 DEF Passes, Judging, Saving
<1> HIDE DEF q
<1>4. [pass EXCEPT ![w] = q] \in [Workers -> Passes] /\ [pass EXCEPT ![w] = q][w] = q
  BY <1>3 DEF UInv, PassTypes
<1>5. pass'[w].pc # "linking"
  BY <1>1, <1>3, <1>4, UnsteadyKeeps
<1> QED
  BY <1>1, <1>5, ReachElsewhere

LEMMA ReachStartLinks ==
  ASSUME Solo, UInv, Reach, NEW w \in Workers, StartLinks(w)
  PROVE  Reach'
<1>1. UNCHANGED <<login, link, fresh>>
  BY DEF StartLinks
<1>2. /\ pass'[w].pc = "linking" /\ pass'[w].steady
      /\ \A p \in Pairs : pass'[w].totals[p] = Cardinality(On(p))
      /\ pass'[w].left = {p \in Pairs : On(p) # {}}
  BY DEF StartLinks, UInv, PassTypes
<1>3. Stored' = Stored /\ Correlated("unexplained")' = Correlated("unexplained")
  BY <1>1 DEF Stored, Correlated
<1>4. \A p : On(p)' = On(p)
  BY <1>1, <1>3 DEF On
<1>5. \A p \in Pairs \ pass'[w].left : Right(p)'
  BY <1>2, <1>4 DEF Right
<1>6. Rebuilding'
  BY <1>2, <1>3, <1>4, <1>5, UnexplainedAreCounted DEF Rebuilding, Solo
<1>7. LinksTellTheReach'
  BY <1>1, <1>3, <1>4 DEF Reach, LinksTellTheReach
<1> QED
  BY <1>6, <1>7 DEF Reach

LEMMA ReachUpdateLink ==
  ASSUME Solo, UInv, Reach, NEW w \in Workers, UpdateLink(w)
  PROVE  Reach'
<1>1. PICK p \in pass[w].left : /\ link' = [link EXCEPT ![p] = Refreshed(w, p)]
                                /\ pass' = [pass EXCEPT ![w].left = @ \ {p}]
  BY DEF UpdateLink
<1>2. UNCHANGED <<login, fresh>> /\ pass[w].pc = "linking"
  BY DEF UpdateLink
<1>3. pass[w] \in Linking /\ p \in Pairs
  BY <1>2, PassByPhase DEF UInv, PassTypes, Linking
<1>4. /\ pass'[w].pc = "linking" /\ pass'[w].totals = pass[w].totals
      /\ pass'[w].steady = pass[w].steady /\ pass'[w].left = pass[w].left \ {p}
  BY <1>1, <1>3 DEF Linking, UInv, PassTypes
<1>5. Stored' = Stored /\ Correlated("unexplained")' = Correlated("unexplained")
  BY <1>2 DEF Stored, Correlated
<1>6. \A o : On(o)' = On(o)
  BY <1>2, <1>5 DEF On
<1> DEFINE n(o) == Cardinality(On(o))
           u(o) == Cardinality(On(o) \cap Correlated("unexplained"))
<1>7. /\ link'[p].stored /\ link'[p].total = pass[w].totals[p] /\ link'[p].unexplained = u(p)
      /\ \A o \in Pairs : o # p => link'[o] = link[o]
  BY <1>1, <1>3 DEF UInv, TypeOK, Refreshed
<1>8. /\ \A o \in Pairs : u(o) <= pass[w].totals[o]
      /\ pass[w].steady => /\ \A o \in Pairs : pass[w].totals[o] = n(o)
                           /\ \A o \in Pairs \ pass[w].left : Right(o)
      /\ fresh => pass[w].steady
  BY <1>2 DEF Reach, Rebuilding
<1>9. \A o : Right(o)' <=> (On(o) # {} => /\ link'[o].stored /\ link'[o].total = n(o)
                                         /\ link'[o].unexplained = u(o))
  BY <1>5, <1>6 DEF Right
<1>10. pass[w].steady => \A o \in Pairs \ pass'[w].left : Right(o)'
  <2> SUFFICES ASSUME pass[w].steady, NEW o \in Pairs, o \notin pass'[w].left
               PROVE  Right(o)'
    OBVIOUS
  <2> HIDE DEF n, u
  <2>1. CASE o = p
    <3>1. link'[o].stored /\ link'[o].total = n(o) /\ link'[o].unexplained = u(o)
      BY <1>7, <1>8, <2>1
    <3> QED
      BY <1>9, <3>1
  <2>2. CASE o # p
    <3>1. Right(o) /\ link'[o] = link[o]
      BY <1>4, <1>7, <1>8, <2>2
    <3>2. Right(o) <=> (On(o) # {} => /\ link[o].stored /\ link[o].total = n(o)
                                     /\ link[o].unexplained = u(o))
      BY DEF Right, n, u
    <3> QED
      BY <1>9, <3>1, <3>2
  <2> QED
    BY <2>1, <2>2
<1>11. Rebuilding'
  BY <1>2, <1>4, <1>5, <1>6, <1>8, <1>10 DEF Rebuilding, Solo
<1>12. \A o \in Pairs : link'[o].stored => link'[o].unexplained <= link'[o].total
  BY <1>3, <1>7, <1>8 DEF Reach, LinksTellTheReach
<1>13. fresh => \A o \in Pairs : Right(o)'
  <2> SUFFICES ASSUME fresh, NEW o \in Pairs
               PROVE  Right(o)'
    OBVIOUS
  <2>1. Right(o)
    BY DEF Reach, LinksTellTheReach, Right
  <2>2. Right(o) <=> (On(o) # {} => /\ link[o].stored /\ link[o].total = n(o)
                                   /\ link[o].unexplained = u(o))
    BY DEF Right
  <2> HIDE DEF n, u
  <2>3. link'[o] = link[o] \/ (link'[o].stored /\ link'[o].total = n(o) /\ link'[o].unexplained = u(o))
    BY <1>7, <1>8
  <2> QED
    BY <1>9, <2>1, <2>2, <2>3
<1>14. LinksTellTheReach'
  BY <1>2, <1>5, <1>6, <1>9, <1>12, <1>13 DEF LinksTellTheReach
<1> QED
  BY <1>11, <1>14 DEF Reach

LEMMA ReachFinishPass ==
  ASSUME Solo, UInv, Reach, NEW w \in Workers, FinishPass(w)
  PROVE  Reach'
<1>1. UNCHANGED <<login, link>> /\ fresh' = pass[w].steady
  BY DEF FinishPass
<1>2. pass'[w].pc # "linking"
  BY DEF FinishPass, Idle, UInv, PassTypes
<1>3. pass[w].steady => \A p \in Pairs : Right(p)
  BY DEF FinishPass, Reach, Rebuilding
<1>4. (\A p : On(p)' = On(p)) /\ Correlated("unexplained")' = Correlated("unexplained")
  BY <1>1 DEF On, Stored, Correlated
<1>5. LinksTellTheReach'
  BY <1>1, <1>3, <1>4 DEF Reach, LinksTellTheReach, Right
<1>6. Rebuilding'
  BY <1>2 DEF Rebuilding, Solo
<1> QED
  BY <1>5, <1>6 DEF Reach

LEMMA ReachOtherSteps ==
  ASSUME Solo, UInv, Reach, NEW w \in Workers,
         StartPass(w) \/ ReadPending(w) \/ Judge(w) \/ LosePass(w)
  PROVE  Reach'
<1>1. UNCHANGED <<login, link, fresh>>
  BY DEF StartPass, ReadPending, Judge, LosePass
<1>2. pass'[w].pc # "linking"
  <2>1. pass \in [Workers -> Passes]
    BY DEF UInv, PassTypes
  <2>2. CASE StartPass(w)
    BY <2>1, <2>2 DEF StartPass
  <2>3. CASE ReadPending(w)
    <3>1. PICK batch \in Batches : pass' = [pass EXCEPT ![w] =
            [pc |-> "judging", claimed |-> pass[w].claimed, known |-> pass[w].known, queue |-> batch]]
      BY <2>3 DEF ReadPending
    <3> QED
      BY <2>1, <3>1
  <2>4. CASE Judge(w)
    <3>1. PICK l \in pass[w].queue, e \in Retrievals \cup {Nobody} :
             pass' = [pass EXCEPT ![w] =
                [pc |-> "saving", claimed |-> Claim(pass[w].claimed, e), known |-> pass[w].known,
                 queue |-> pass[w].queue \ {l}, login |-> l, event |-> e]]
      BY <2>4, JudgeFacts, Zenon
    <3> QED
      BY <2>1, <3>1
  <2>5. CASE LosePass(w)
    BY <2>1, <2>5 DEF LosePass, Idle
  <2> QED
    BY <2>2, <2>3, <2>4, <2>5
<1> QED
  BY <1>1, <1>2, ReachElsewhere
------------------------------------------------------------------------------
LEMMA SoloIsParts == SoloInv <=> UInv /\ Claims /\ Reach
BY DEF SoloInv, Claims, Reach

LEMMA SoloInit == Init => SoloInv
<1> SUFFICES ASSUME Init PROVE SoloInv
  OBVIOUS
<1>1. UInv
  BY UsageInit
<1>2. Stored = {}
  BY DEF Init, Stored, Absent
<1>3. \A c : Correlated(c) = {}
  BY <1>2 DEF Correlated
<1>4. \A w \in Workers : pass[w].pc = "idle"
  BY DEF Init, Idle
<1>5. Claims
  BY <1>3, <1>4 DEF Claims, ClaimsKnown, OneRetrievalOneLogin
<1>6. ~fresh /\ \A p \in Pairs : ~link[p].stored
  BY DEF Init, Absent
<1>7. Reach
  BY <1>4, <1>6 DEF Reach, Rebuilding, LinksTellTheReach
<1> QED
  BY <1>1, <1>5, <1>7, SoloIsParts

LEMMA SoloStep == Solo /\ SoloInv /\ [Next]_vars => SoloInv'
<1> SUFFICES ASSUME Solo, SoloInv, [Next]_vars PROVE SoloInv'
  OBVIOUS
<1>1. UInv /\ Claims /\ Reach
  BY SoloIsParts
<1>2. UInv'
  BY <1>1, UsageStep
<1>3. ASSUME NEW l \in Logins, IngestLogin(l) PROVE Claims' /\ Reach'
  BY <1>1, <1>3, ClaimsIngestLogin, ReachIngestLogin
<1>4. ASSUME NEW e \in Retrievals, IngestRetrieval(e) PROVE Claims' /\ Reach'
  BY <1>1, <1>4, ClaimsIngestRetrieval, ReachStands DEF IngestRetrieval
<1>5. ASSUME NEW w \in Workers, Step(w) \/ LosePass(w) PROVE Claims' /\ Reach'
  <2>1. CASE SaveVerdict(w)
    BY <1>1, <2>1, ClaimsSaveVerdict, ReachSaveVerdict
  <2>2. CASE ~SaveVerdict(w)
    <3>1. Claims'
      BY <1>1, <1>5, <2>2, ClaimsOtherSteps DEF Step
    <3>2. Reach'
      BY <1>1, <1>5, <2>2, ReachStartLinks, ReachUpdateLink, ReachFinishPass, ReachOtherSteps DEF Step
    <3> QED
      BY <3>1, <3>2
  <2> QED
    BY <2>1, <2>2
<1>6. ASSUME UNCHANGED vars \/ \E l \in Logins : RepeatLogin(l) PROVE Claims' /\ Reach'
  <2>1. UNCHANGED <<login, retrieval, link, pass, fresh>>
    BY <1>6 DEF vars, RepeatLogin
  <2>2. Claims'
    BY <1>1, <2>1 DEF Claims, ClaimsKnown, OneRetrievalOneLogin, Stored, Correlated, Claimed, Fits
  <2> QED
    BY <1>1, <2>1, <2>2, ReachStands
<1>7. Claims' /\ Reach'
  <2>1. CASE Next
    BY <2>1, <1>3, <1>4, <1>5, <1>6, Zenon DEF Next
  <2> QED
    BY <2>1, <1>6
<1> QED
  BY <1>2, <1>7 DEF SoloInv, Claims, Reach

LEMMA SoloInvariant == ASSUME Solo PROVE Spec => []SoloInv
<1>1. Init => SoloInv
  BY SoloInit
<1>2. SoloInv /\ [Next]_vars => SoloInv'
  BY SoloStep
<1> QED
  BY <1>1, <1>2, PTL DEF Spec

(***************************************************************************)
(* A retrieval explains at most one login, across passes, whatever comes   *)
(* late and wherever a worker is lost, while one worker correlates at a    *)
(* time: the claims of a pass are read before its first save.              *)
(***************************************************************************)
THEOREM ClaimsAreExclusive ==
  ASSUME \A v, w \in Workers : v = w
  PROVE  Spec => []OneRetrievalOneLogin
<1>1. Spec => []SoloInv
  BY SoloInvariant DEF Solo
<1>2. SoloInv => OneRetrievalOneLogin
  BY DEF SoloInv
<1> QED
  BY <1>1, <1>2, PTL

(***************************************************************************)
(* One worker at a time, the links rebuilt after the last change count the *)
(* logins and the unexplained ones of every pair, and no link shows more   *)
(* unexplained logins than logins, although the two counts are taken by    *)
(* different queries.                                                      *)
(***************************************************************************)
THEOREM RebuiltLinksAreRight ==
  ASSUME \A v, w \in Workers : v = w
  PROVE  Spec => []LinksTellTheReach
<1>1. Spec => []SoloInv
  BY SoloInvariant DEF Solo
<1>2. SoloInv => LinksTellTheReach
  BY DEF SoloInv
<1> QED
  BY <1>1, <1>2, PTL

(***************************************************************************)
(* One worker at a time, a login is called unexplained only if whatever    *)
(* fits it of what was stored when the pass began explains another login.  *)
(***************************************************************************)
THEOREM UnexplainedIsJudged ==
  ASSUME \A v, w \in Workers : v = w
  PROVE  Spec => JudgedOnTheEvidence
<1> DEFINE Judged ==
      \A w \in Workers, l \in Logins :
        (pass[w].pc = "saving" /\ pass[w].login = l /\ login[l] # login'[l]
           /\ login'[l].correlation = "unexplained") =>
        \A e \in pass[w].known : Fits(l, e) => \E k \in Stored : k # l /\ login[k].event = e
<1>1. SoloInv /\ [Next]_vars => [Judged]_vars
  <2> SUFFICES ASSUME SoloInv, Next,
                      NEW w \in Workers, NEW l \in Logins,
                      pass[w].pc = "saving", pass[w].login = l, login[l] # login'[l],
                      login'[l].correlation = "unexplained",
                      NEW e \in pass[w].known, Fits(l, e)
               PROVE  \E k \in Stored : k # l /\ login[k].event = e
    BY Zenon
  <2>1. UInv /\ Knows(w) /\ l \in Stored
    BY SoloIsParts, ClaimsByWorker DEF Claims, UInv, PassTypes
  <2>2. SaveVerdict(w)
    <3>1. ASSUME NEW k \in Logins, IngestLogin(k) \/ RepeatLogin(k) PROVE FALSE
      BY <2>1, <3>1, IngestLoginFacts DEF UInv, RepeatLogin
    <3>2. ASSUME NEW f \in Retrievals, IngestRetrieval(f) PROVE FALSE
      BY <3>2 DEF IngestRetrieval
    <3>3. ASSUME NEW v \in Workers, Step(v) \/ LosePass(v), ~SaveVerdict(v) PROVE FALSE
      BY <3>3 DEF Step, StartPass, ReadPending, Judge, StartLinks, UpdateLink, FinishPass, LosePass
    <3>4. PICK v \in Workers : SaveVerdict(v)
      BY <3>1, <3>2, <3>3 DEF Next
    <3> QED
      BY <3>4
  <2>3. pass[w].event = Nobody
    BY <2>1, <2>2, SaveVerdictFacts
  <2>4. e \in Claimed /\ l \in Correlated("pending")
    BY <2>1, <2>3 DEF Knows
  <2>5. login[l].event = Nobody
    BY <2>1, <2>4 DEF UInv, TypeOK, Correlated
  <2> QED
    BY <2>4, <2>5 DEF Claimed
<1>2. Spec => []SoloInv
  BY SoloInvariant DEF Solo
<1> QED
  BY <1>1, <1>2, PTL DEF Spec, JudgedOnTheEvidence
==============================================================================
