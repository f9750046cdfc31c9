--------------------------- MODULE InventoryDiffProofs ---------------------------
(***************************************************************************)
(* For any accounts, profiles and workers: however pulls overlap, fail and *)
(* are outrun by the vault, a commit retires no more than it saw and       *)
(* nothing that was there, the table heals, and an undisturbed pull tells  *)
(* the changes it stores and photographs them.                             *)
(***************************************************************************)
EXTENDS InventoryDiff, FiniteSetTheorems, TLAPS

Kinds == {"onboarded", "rotated", "failed", "auto on", "auto off", "owner", "status", "verification"}

Draft == [known : {TRUE}, profile : Profiles, failures : Nat, retired : BOOLEAN]
Drafts == UNION {[S -> Draft] : S \in SUBSET Accounts}
Fetched == [id : Accounts, row : Row \cup {Unknown}, incoming : Profiles]

Pulls == [pc : {"pulling", "fetched", "counted", "retiring"},
          left : SUBSET Accounts, seen : SUBSET Accounts,
          hand : Fetched \cup {Gone}, draft : Drafts, events : SUBSET (Accounts \X Kinds),
          shots : SUBSET Accounts, counted : SUBSET Accounts, missing : SUBSET Accounts,
          gone : SUBSET Accounts, stable : SUBSET Accounts, alone : BOOLEAN]

Tables ==
  /\ vault \in [Accounts -> Profiles \cup {Gone}]
  /\ account \in [Accounts -> Row \cup {Unknown}]
  /\ snapshot \in [Accounts -> Profiles \cup {Gone}]
  /\ settled \subseteq Accounts
  /\ \A a \in Accounts : account[a].known <=> snapshot[a] # Gone
  /\ \A a \in Accounts :
       account[a].known /\ account[a].profile.status = "deleted" => account[a].retired
  /\ overlapped \in BOOLEAN
  /\ pull \in [Workers -> Pulls \cup {Idle}]

(***************************************************************************)
(* The draft holds what was seen, but for the record in hand; every row it *)
(* would create comes with its first snapshot.  What it retires are rows   *)
(* it has not seen, and only if it saw half of what it counted.            *)
(***************************************************************************)
Held(q) ==
  /\ q.left \cap q.seen = {}
  /\ q.shots \subseteq DOMAIN q.draft
  /\ \A a \in DOMAIN q.draft : a \in q.shots \/ account[a].known
  /\ \A e \in q.events : e[1] \in DOMAIN q.draft
  /\ q.pc # "fetched" => q.seen = DOMAIN q.draft
  /\ q.pc \in {"counted", "retiring"} => q.seen \subseteq q.counted
  /\ q.pc # "retiring" => q.missing = {} /\ q.gone = {}
  /\ \A a \in q.missing \cup q.gone : a \notin q.seen /\ account[a].known
  /\ q.missing \cup q.gone # {} => Cardinality(q.seen) * 2 >= Cardinality(q.counted)
  /\ q.pc = "fetched" =>
       /\ q.hand \in Fetched
       /\ q.hand.id \notin DOMAIN q.draft /\ q.seen = DOMAIN q.draft \cup {q.hand.id}
       /\ q.hand.row.known => account[q.hand.id].known

(***************************************************************************)
(* Of an account that has not changed since the listing began: it was read *)
(* or will be if it is there, it was not if it is not, and what was read   *)
(* is what the vault holds.                                                *)
(***************************************************************************)
Watched(q) ==
  /\ \A a \in q.stable : vault[a] # Gone => a \in q.left \cup q.seen
  /\ \A a \in q.stable \cap q.seen : vault[a] # Gone
  /\ \A a \in q.stable \cap DOMAIN q.draft : q.draft[a].profile = vault[a]
  /\ q.pc = "fetched" /\ q.hand.id \in q.stable => q.hand.incoming = vault[q.hand.id]

Told(q, a) == {k \in Kinds : <<a, k>> \in q.events}

(***************************************************************************)
(* A pull no other has overlapped: the rows are as it read them, its       *)
(* events and snapshots follow from the two versions of each, and what it  *)
(* retires is what it counted and did not see.                             *)
(***************************************************************************)
Undisturbed(q) ==
  /\ settled \subseteq q.stable
  /\ \A a \in DOMAIN q.draft : account[a].known =>
       /\ Told(q, a) = Transitions(account[a].profile, q.draft[a].profile)
       /\ a \notin q.shots => Transitions(account[a].profile, q.draft[a].profile) = {}
  /\ q.pc = "fetched" => q.hand.row = account[q.hand.id]
  /\ q.pc \in {"counted", "retiring"} => q.counted \ q.seen = Live(account) \ q.seen
  /\ q.pc = "retiring" =>
       q.missing \cup q.gone = IF Cardinality(q.seen) * 2 >= Cardinality(q.counted)
                              THEN q.counted \ q.seen ELSE {}

InProgress ==
  \A w \in Pulling :
    /\ Held(pull[w]) /\ Watched(pull[w])
    /\ pull[w].alone => Pulling = {w} /\ Undisturbed(pull[w])
    /\ ~overlapped => pull[w].alone

DInv == Tables /\ InProgress /\ TableAgreesWithVault /\ SnapshotsFollow
------------------------------------------------------------------------------
(***************************************************************************)
(* Facts about the operators.                                              *)
(***************************************************************************)
LEMMA DraftsAre ==
  ASSUME NEW d
  PROVE  d \in Drafts <=> /\ DOMAIN d \subseteq Accounts
                          /\ d = [a \in DOMAIN d |-> d[a]]
                          /\ \A a \in DOMAIN d : d[a] \in Draft
<1>1. ASSUME d \in Drafts
      PROVE  DOMAIN d \subseteq Accounts /\ d = [a \in DOMAIN d |-> d[a]] /\ \A a \in DOMAIN d : d[a] \in Draft
  <2>1. PICK S \in SUBSET Accounts : d \in [S -> Draft]
    BY <1>1 DEF Drafts
  <2> QED
    BY <2>1
<1>2. ASSUME DOMAIN d \subseteq Accounts, d = [a \in DOMAIN d |-> d[a]], \A a \in DOMAIN d : d[a] \in Draft
      PROVE  d \in Drafts
  <2>1. d \in [DOMAIN d -> Draft]
    BY <1>2
  <2> QED
    BY <1>2, <2>1 DEF Drafts
<1> QED
  BY <1>1, <1>2

LEMMA ProfileFields ==
  ASSUME NEW p \in Profiles
  PROVE  /\ p.status # "deleted" /\ p # Gone
         /\ Deleted(p).status = "deleted" /\ Deleted(p).owner = p.owner /\ Deleted(p).auto = p.auto
         /\ Deleted(p).rotated = p.rotated
<1>1. /\ p = [status |-> p.status, owner |-> p.owner, rotated |-> p.rotated,
              failed |-> p.failed, auto |-> p.auto, verified |-> p.verified]
      /\ p.status \notin {"deleted", "gone"}
  BY DiffAssumption
<1>2. p # Gone
  BY <1>1 DEF Gone
<1>3. Deleted([status |-> p.status, owner |-> p.owner, rotated |-> p.rotated,
               failed |-> p.failed, auto |-> p.auto, verified |-> p.verified])
        = [status |-> "deleted", owner |-> p.owner, rotated |-> p.rotated,
           failed |-> p.failed, auto |-> p.auto, verified |-> p.verified]
  BY DEF Deleted
<1>4. Deleted(p) = [status |-> "deleted", owner |-> p.owner, rotated |-> p.rotated,
                    failed |-> p.failed, auto |-> p.auto, verified |-> p.verified]
  BY <1>1, <1>3
<1> QED
  BY <1>1, <1>2, <1>4

LEMMA RowsOf ==
  /\ \A x \in Row \cup {Unknown} : x.known <=> x \in Row
  /\ \A x \in Row : x.profile \in StoredProfiles /\ x.failures \in Nat /\ x.retired \in BOOLEAN
<1>1. ~Unknown.known
  BY DEF Unknown
<1>2. \A x \in Row : x.known /\ x.profile \in StoredProfiles /\ x.failures \in Nat /\ x.retired \in BOOLEAN
  BY DEF Row
<1> QED
  BY <1>1, <1>2

\* Marked deleted twice is marked deleted once.
LEMMA DeletedIs ==
  ASSUME NEW p \in StoredProfiles
  PROVE  Deleted(p) \in StoredProfiles /\ Deleted(p).status = "deleted" /\ Deleted(p) # Gone
<1>1. PICK r \in Profiles : p = r \/ p = Deleted(r)
  BY DEF StoredProfiles
<1>2. r = [status |-> r.status, owner |-> r.owner, rotated |-> r.rotated,
           failed |-> r.failed, auto |-> r.auto, verified |-> r.verified]
  BY DiffAssumption
<1>3. PICK gone : gone = [status |-> "deleted", owner |-> r.owner, rotated |-> r.rotated,
                          failed |-> r.failed, auto |-> r.auto, verified |-> r.verified]
  OBVIOUS
<1>4. Deleted([status |-> r.status, owner |-> r.owner, rotated |-> r.rotated,
               failed |-> r.failed, auto |-> r.auto, verified |-> r.verified]) = gone
  BY <1>3 DEF Deleted
<1>5. Deleted(r) = gone
  BY <1>2, <1>4
<1>6. Deleted(gone) = gone
  BY <1>3 DEF Deleted
<1>7. Deleted(p) = Deleted(r) /\ Deleted(p).status = "deleted"
  BY <1>1, <1>3, <1>5, <1>6
<1>8. Deleted(p) # Gone
  BY <1>7 DEF Gone
<1> QED
  BY <1>7, <1>8 DEF StoredProfiles

LEMMA IdleIs ==
  /\ Idle.pc = "idle"
  /\ \A q \in Pulls : q # Idle /\ q.pc \in {"pulling", "fetched", "counted", "retiring"}
<1>1. Idle.pc = "idle"
  BY DEF Idle
<1>2. \A q \in Pulls : q.pc \in {"pulling", "fetched", "counted", "retiring"}
  BY DEF Pulls
<1> QED
  BY <1>1, <1>2

LEMMA PullFields ==
  ASSUME NEW q \in Pulls
  PROVE  /\ q = [pc |-> q.pc, left |-> q.left, seen |-> q.seen, hand |-> q.hand, draft |-> q.draft,
                 events |-> q.events, shots |-> q.shots, counted |-> q.counted,
                 missing |-> q.missing, gone |-> q.gone, stable |-> q.stable, alone |-> q.alone]
         /\ q.left \subseteq Accounts /\ q.seen \subseteq Accounts /\ q.hand \in Fetched \cup {Gone}
         /\ q.draft \in Drafts /\ q.events \subseteq Accounts \X Kinds /\ q.shots \subseteq Accounts
         /\ q.counted \subseteq Accounts /\ q.missing \subseteq Accounts /\ q.gone \subseteq Accounts
         /\ q.stable \subseteq Accounts /\ q.alone \in BOOLEAN
BY DEF Pulls

LEMMA FetchedFields ==
  ASSUME NEW h \in Fetched
  PROVE  /\ h # Gone
         /\ h.id \in Accounts /\ h.row \in Row \cup {Unknown} /\ h.incoming \in Profiles
<1>1. h.id \in Accounts /\ h.row \in Row \cup {Unknown} /\ h.incoming \in Profiles
  BY DEF Fetched
<1>2. h # Gone
  BY DEF Fetched, Gone
<1> QED
  BY <1>1, <1>2

\* No event and no change of status, owner or rotation switch, unless it was unknown before.
LEMMA TransitionsAre ==
  ASSUME NEW before, NEW after
  PROVE  LET T == Transitions(before, after) IN
         /\ T \subseteq Kinds \ {"onboarded"}
         /\ "owner" \in T <=> before.owner # after.owner
         /\ "status" \in T <=> before.status # after.status
         /\ before.auto = "on" /\ after.auto = "off" => "auto off" \in T
         /\ before.auto = "off" /\ after.auto = "on" => "auto on" \in T
         /\ "rotated" \in T => before.rotated # after.rotated
         /\ T = {} => before.auto = "unknown" \/ before.auto = after.auto
BY DEF Transitions, Kinds
------------------------------------------------------------------------------
LEMMA DiffInit == Init => DInv
<1> SUFFICES ASSUME Init PROVE DInv
  OBVIOUS
<1>1. ~Unknown.known
  BY DEF Unknown
<1>2. Tables
  BY <1>1 DEF Init, Tables
<1>3. Pulling = {}
  BY DEF Init, Pulling
<1>4. InProgress
  BY <1>3 DEF InProgress
<1>5. TableAgreesWithVault /\ SnapshotsFollow
  BY <1>1 DEF Init, TableAgreesWithVault, SnapshotsFollow, Live
<1> QED
  BY <1>2, <1>4, <1>5 DEF DInv

LEMMA PullIsOne ==
  ASSUME DInv, NEW w \in Pulling
  PROVE  w \in Workers /\ pull[w] \in Pulls /\ pull[w] # Idle
BY DEF DInv, Tables, Pulling

\* A worker goes on with its pull; the tables and the others stay.
LEMMA PullGoesOn ==
  ASSUME DInv, NEW w \in Pulling, NEW q \in Pulls, pull' = [pull EXCEPT ![w] = q],
         UNCHANGED <<vault, account, snapshot, settled, overlapped>>,
         Held(q), Watched(q), q.alone = pull[w].alone, q.alone => Undisturbed(q)
  PROVE  DInv' /\ Pulling' = Pulling
<1>1. w \in Workers /\ pull \in [Workers -> Pulls \cup {Idle}]
  BY DEF DInv, Tables, Pulling
<1>2. pull'[w] = q /\ \A v \in Workers : v # w => pull'[v] = pull[v]
  BY <1>1
<1>3. Pulling' = Pulling
  BY <1>2, IdleIs DEF Pulling
<1>4. Tables'
  BY <1>1 DEF DInv, Tables
<1>5. TableAgreesWithVault' /\ SnapshotsFollow'
  BY DEF DInv, TableAgreesWithVault, SnapshotsFollow, Live
<1>6. ASSUME NEW v \in Pulling
      PROVE  /\ Held(pull[v])' /\ Watched(pull[v])'
             /\ (pull[v].alone)' => Pulling = {v} /\ Undisturbed(pull[v])'
             /\ ~overlapped => (pull[v].alone)'
  <2>1. CASE v = w
    <3>1. pull'[v] = q
      BY <1>2, <2>1
    <3>2. Held(pull[v])'
      BY <3>1 DEF Held
    <3>3. Watched(pull[v])'
      BY <3>1 DEF Watched
    <3>4. q.alone => Pulling = {v}
      BY <2>1 DEF DInv, InProgress
    <3>5. q.alone => Undisturbed(pull[v])'
      BY <3>1 DEF Undisturbed, Told, Live
    <3>6. ~overlapped => q.alone
      BY DEF DInv, InProgress
    <3> QED
      BY <3>1, <3>2, <3>3, <3>4, <3>5, <3>6
  <2>2. CASE v # w
    <3>1. pull'[v] = pull[v]
      BY <1>2, <2>2 DEF Pulling
    <3>2. /\ Held(pull[v]) /\ Watched(pull[v])
          /\ pull[v].alone => Pulling = {v} /\ Undisturbed(pull[v])
          /\ ~overlapped => pull[v].alone
      BY DEF DInv, InProgress
    <3>3. Held(pull[v])'
      BY <3>1, <3>2 DEF Held
    <3>4. Watched(pull[v])'
      BY <3>1, <3>2 DEF Watched
    <3>5. pull[v].alone => Undisturbed(pull[v])'
      BY <3>1, <3>2 DEF Undisturbed, Told, Live
    <3> QED
      BY <3>1, <3>2, <3>3, <3>4, <3>5
  <2> QED
    BY <2>1, <2>2
<1>7. InProgress'
  BY <1>3, <1>6 DEF InProgress
<1> QED
  BY <1>3, <1>4, <1>5, <1>7 DEF DInv

LEMMA DiffReadAccount ==
  ASSUME DInv, NEW w \in Workers, ReadAccount(w)
  PROVE  DInv' /\ Pulling' = Pulling
<1>1. PICK a \in pull[w].left \cap InVault :
       pull' = [pull EXCEPT ![w].pc = "fetched", ![w].left = @ \ {a}, ![w].seen = @ \cup {a},
                            ![w].hand = [id |-> a, row |-> account[a], incoming |-> vault[a]]]
  BY DEF ReadAccount
<1>2. w \in Pulling /\ pull[w] \in Pulls /\ pull[w].pc = "pulling"
  BY IdleIs DEF ReadAccount, DInv, Tables, Pulling
<1>3. UNCHANGED <<vault, account, snapshot, settled, overlapped>>
  BY DEF ReadAccount
<1> DEFINE hand == [id |-> a, row |-> account[a], incoming |-> vault[a]]
           left == pull[w].left \ {a}
           seen == pull[w].seen \cup {a}
<1>4. PICK q : q = [pull[w] EXCEPT !.pc = "fetched", !.left = left, !.seen = seen, !.hand = hand]
  OBVIOUS
<1>5. pull' = [pull EXCEPT ![w] = q]
  BY <1>1, <1>2, <1>4 DEF DInv, Tables, Pulling
<1>6. a \in Accounts /\ vault[a] # Gone /\ vault[a] \in Profiles /\ account[a] \in Row \cup {Unknown}
  BY DEF InVault, DInv, Tables
<1>7. hand \in Fetched /\ hand.id = a /\ hand.row = account[a] /\ hand.incoming = vault[a]
  BY <1>6 DEF Fetched
<1> HIDE DEF hand
<1>8. left \in SUBSET Accounts /\ seen \in SUBSET Accounts
  BY <1>2, <1>6, PullFields
<1> HIDE DEF left, seen
<1>9. /\ q \in Pulls
      /\ q.pc = "fetched" /\ q.left = left /\ q.seen = seen /\ q.hand = hand
      /\ q.draft = pull[w].draft /\ q.events = pull[w].events /\ q.shots = pull[w].shots
      /\ q.missing = pull[w].missing /\ q.gone = pull[w].gone
      /\ q.stable = pull[w].stable /\ q.alone = pull[w].alone
  BY <1>2, <1>4, <1>7, <1>8 DEF Pulls
<1>10. /\ Held(pull[w]) /\ Watched(pull[w])
       /\ pull[w].alone => Undisturbed(pull[w])
  BY <1>2 DEF DInv, InProgress
<1>11. a \notin pull[w].seen /\ pull[w].seen = DOMAIN pull[w].draft
  BY <1>2, <1>10 DEF Held
<1>12. Held(q)
  BY <1>2, <1>7, <1>9, <1>10, <1>11 DEF Held, left, seen
<1>13. Watched(q)
  BY <1>6, <1>7, <1>9, <1>10, <1>11 DEF Watched, left, seen
<1>14. q.alone => Undisturbed(q)
  BY <1>7, <1>9, <1>10 DEF Undisturbed, Told
<1> QED
  BY <1>2, <1>3, <1>5, <1>9, <1>12, <1>13, <1>14, PullGoesOn

LEMMA DiffVaultChanges ==
  ASSUME DInv, NEW a \in Accounts, VaultChanges(a)
  PROVE  DInv' /\ Pulling' = Pulling
<1>1. PICK profile \in Profiles \cup {Gone} : vault' = [vault EXCEPT ![a] = profile]
  BY DEF VaultChanges
<1>2. PICK later \in SUBSET {w \in Listing : a \notin pull[w].seen} :
       pull' = [w \in Workers |->
         IF pull[w] = Idle THEN Idle
         ELSE [pull[w] EXCEPT !.stable = @ \ {a},
                              !.left = IF w \in later THEN @ \cup {a} ELSE @]]
  BY DEF VaultChanges
<1>3. UNCHANGED <<account, snapshot, overlapped>> /\ settled' = settled \ {a}
  BY DEF VaultChanges
<1>4. ASSUME NEW v \in Pulling
      PROVE  /\ pull'[v] \in Pulls
             /\ pull'[v].pc = pull[v].pc /\ pull'[v].seen = pull[v].seen /\ pull'[v].hand = pull[v].hand
             /\ pull'[v].draft = pull[v].draft /\ pull'[v].events = pull[v].events
             /\ pull'[v].shots = pull[v].shots /\ pull'[v].alone = pull[v].alone
             /\ pull'[v].counted = pull[v].counted /\ pull'[v].missing = pull[v].missing
             /\ pull'[v].gone = pull[v].gone
             /\ pull'[v].stable = pull[v].stable \ {a}
             /\ pull[v].left \subseteq pull'[v].left
             /\ pull'[v].left \cap pull[v].seen = pull[v].left \cap pull[v].seen
  <2>1. v \in Workers /\ pull[v] \in Pulls /\ pull[v] # Idle
    BY PullIsOne
  <2> DEFINE left == IF v \in later THEN pull[v].left \cup {a} ELSE pull[v].left
             stable == pull[v].stable \ {a}
  <2>2. PICK q : q = [pull[v] EXCEPT !.stable = stable, !.left = left]
    OBVIOUS
  <2>3. pull'[v] = q
    BY <1>2, <2>1, <2>2
  <2>4. /\ left \in SUBSET Accounts /\ stable \in SUBSET Accounts
        /\ pull[v].left \subseteq left /\ left \cap pull[v].seen = pull[v].left \cap pull[v].seen
    BY <2>1, PullFields
  <2> HIDE DEF left, stable
  <2>5. /\ q \in Pulls
        /\ q.pc = pull[v].pc /\ q.left = left /\ q.seen = pull[v].seen /\ q.hand = pull[v].hand
        /\ q.draft = pull[v].draft /\ q.events = pull[v].events /\ q.shots = pull[v].shots
        /\ q.counted = pull[v].counted /\ q.missing = pull[v].missing /\ q.gone = pull[v].gone
        /\ q.stable = stable /\ q.alone = pull[v].alone
    BY <2>1, <2>2, <2>4 DEF Pulls
  <2> QED
    BY <2>3, <2>4, <2>5 DEF stable
<1>5. \A v \in Workers \ Pulling : pull'[v] = Idle
  BY <1>2 DEF Pulling
<1>6. Pulling' = Pulling
  <2>1. \A v \in Workers : v \in Pulling \/ v \notin Pulling
    OBVIOUS
  <2> QED
    BY <1>4, <1>5, IdleIs DEF Pulling
<1>7. Tables'
  <2>1. vault' \in [Accounts -> Profiles \cup {Gone}]
    BY <1>1 DEF DInv, Tables
  <2>2. pull' = [v \in Workers |-> pull'[v]]
    BY <1>2
  <2>3. \A v \in Workers : pull'[v] \in Pulls \cup {Idle}
    BY <1>4, <1>5
  <2>4. pull' \in [Workers -> Pulls \cup {Idle}]
    BY <2>2, <2>3
  <2> QED
    BY <1>3, <2>1, <2>4 DEF DInv, Tables
<1>8. \A b \in Accounts : b # a => vault'[b] = vault[b]
  BY <1>1 DEF DInv, Tables
<1>9. TableAgreesWithVault'
  BY <1>3, <1>8 DEF DInv, Tables, TableAgreesWithVault
<1>10. SnapshotsFollow'
  BY <1>3 DEF DInv, SnapshotsFollow, Live
<1>11. ASSUME NEW v \in Pulling
       PROVE  /\ Held(pull[v])' /\ Watched(pull[v])'
              /\ (pull[v].alone)' => Pulling = {v} /\ Undisturbed(pull[v])'
              /\ ~overlapped => (pull[v].alone)'
  <2>1. /\ Held(pull[v]) /\ Watched(pull[v])
        /\ pull[v].alone => Pulling = {v} /\ Undisturbed(pull[v])
        /\ ~overlapped => pull[v].alone
    BY DEF DInv, InProgress
  <2>2. Held(pull[v])'
    BY <1>3, <1>4, <2>1 DEF Held
  <2>3. Watched(pull[v])'
    <3>1. pull[v].stable \subseteq Accounts
      BY PullIsOne, PullFields
    <3> QED
      BY <1>4, <1>8, <2>1, <3>1 DEF Watched
  <2>4. pull[v].alone => Undisturbed(pull[v])'
    BY <1>3, <1>4, <2>1 DEF Undisturbed, Told, Live
  <2> QED
    BY <1>4, <2>1, <2>2, <2>3, <2>4
<1>12. InProgress'
  BY <1>3, <1>6, <1>11 DEF InProgress
<1> QED
  BY <1>6, <1>7, <1>9, <1>10, <1>12 DEF DInv

LEMMA DiffStartPull ==
  ASSUME DInv, NEW w \in Workers, StartPull(w)
  PROVE  DInv' /\ Pulling' = Pulling \cup {w}
<1> DEFINE alone == Pulling = {}
<1>1. PICK q : q = [pc |-> "pulling", left |-> InVault, seen |-> {}, hand |-> Gone,
                    draft |-> [a \in {} |-> Unknown], events |-> {}, shots |-> {},
                    counted |-> {}, missing |-> {}, gone |-> {},
                    stable |-> Accounts, alone |-> alone]
  OBVIOUS
<1>2. pull' = [v \in Workers |->
       IF v = w THEN q ELSE IF pull[v] = Idle THEN Idle ELSE [pull[v] EXCEPT !.alone = FALSE]]
  BY <1>1 DEF StartPull
<1>3. /\ UNCHANGED <<vault, account, snapshot, settled>> /\ overlapped' = (overlapped \/ Pulling # {})
      /\ w \notin Pulling
  BY DEF StartPull, Pulling
<1>4. [a \in {} |-> Unknown] \in Drafts
  BY DraftsAre
<1>5. /\ q.pc = "pulling" /\ q.left = InVault /\ q.seen = {} /\ DOMAIN q.draft = {} /\ q.events = {}
      /\ q.shots = {} /\ q.missing = {} /\ q.gone = {} /\ q.stable = Accounts /\ q.alone = alone
  BY <1>1
<1>6. q \in Pulls
  BY <1>1, <1>4 DEF Pulls, InVault
<1>7. pull'[w] = q
  BY <1>2
<1>8. ASSUME NEW v \in Pulling
      PROVE  /\ v # w /\ pull'[v] \in Pulls
             /\ pull'[v].pc = pull[v].pc /\ pull'[v].seen = pull[v].seen /\ pull'[v].hand = pull[v].hand
             /\ pull'[v].draft = pull[v].draft /\ pull'[v].events = pull[v].events
             /\ pull'[v].shots = pull[v].shots /\ pull'[v].stable = pull[v].stable
             /\ pull'[v].counted = pull[v].counted /\ pull'[v].missing = pull[v].missing
             /\ pull'[v].gone = pull[v].gone
             /\ pull'[v].left = pull[v].left /\ ~pull'[v].alone
  <2>1. v \in Workers /\ pull[v] \in Pulls /\ pull[v] # Idle /\ v # w
    BY <1>3, PullIsOne
  <2>2. PICK p : p = [pull[v] EXCEPT !.alone = FALSE]
    OBVIOUS
  <2>3. pull'[v] = p
    BY <1>2, <2>1, <2>2
  <2>4. /\ p \in Pulls
        /\ p.pc = pull[v].pc /\ p.left = pull[v].left /\ p.seen = pull[v].seen /\ p.hand = pull[v].hand
        /\ p.draft = pull[v].draft /\ p.events = pull[v].events /\ p.shots = pull[v].shots
        /\ p.counted = pull[v].counted /\ p.missing = pull[v].missing /\ p.gone = pull[v].gone
        /\ p.stable = pull[v].stable /\ ~p.alone
    BY <2>1, <2>2 DEF Pulls
  <2> QED
    BY <2>1, <2>3, <2>4
<1>9. \A v \in Workers \ (Pulling \cup {w}) : pull'[v] = Idle
  BY <1>2 DEF Pulling
<1>10. Pulling' = Pulling \cup {w}
  <2>1. \A v \in Pulling \cup {w} : v \in Workers /\ pull'[v] # Idle
    BY <1>6, <1>7, <1>8, IdleIs DEF Pulling
  <2> QED
    BY <1>9, <2>1 DEF Pulling
<1>11. Tables'
  <2>1. pull' = [v \in Workers |-> pull'[v]]
    BY <1>2
  <2>2. \A v \in Workers : pull'[v] \in Pulls \cup {Idle}
    BY <1>6, <1>7, <1>8, <1>9
  <2>3. pull' \in [Workers -> Pulls \cup {Idle}]
    BY <2>1, <2>2
  <2> QED
    BY <1>3, <2>3 DEF DInv, Tables
<1>12. TableAgreesWithVault' /\ SnapshotsFollow'
  BY <1>3 DEF DInv, TableAgreesWithVault, SnapshotsFollow, Live
<1>13. ASSUME NEW v \in Pulling
       PROVE  /\ Held(pull[v])' /\ Watched(pull[v])' /\ ~(pull[v].alone)' /\ overlapped'
  <2>1. Held(pull[v]) /\ Watched(pull[v])
    BY DEF DInv, InProgress
  <2>2. Held(pull[v])'
    BY <1>3, <1>8, <2>1 DEF Held
  <2>3. Watched(pull[v])'
    BY <1>3, <1>8, <2>1 DEF Watched
  <2> QED
    BY <1>3, <1>8, <2>2, <2>3
<1>14. Held(pull[w])'
  BY <1>5, <1>7 DEF Held
<1>15. Watched(pull[w])'
  BY <1>3, <1>5, <1>7 DEF Watched, InVault
<1>16. Undisturbed(pull[w])'
  BY <1>3, <1>5, <1>7 DEF Undisturbed, DInv, Tables
<1>17. /\ (pull[w].alone)' => Pulling' = {w}
       /\ ~overlapped' => (pull[w].alone)'
  BY <1>3, <1>5, <1>7, <1>10
<1>18. InProgress'
  BY <1>10, <1>13, <1>14, <1>15, <1>16, <1>17 DEF InProgress
<1> QED
  BY <1>10, <1>11, <1>12, <1>18 DEF DInv

LEMMA DiffFailPull ==
  ASSUME DInv, NEW w \in Workers, FailPull(w)
  PROVE  DInv' /\ Pulling' = Pulling \ {w}
<1>1. /\ pull' = [pull EXCEPT ![w] = Idle] /\ w \in Pulling
      /\ UNCHANGED <<vault, account, snapshot, settled, overlapped>>
  BY DEF FailPull, Pulling
<1>2. pull'[w] = Idle /\ \A v \in Workers : v # w => pull'[v] = pull[v]
  BY <1>1 DEF DInv, Tables
<1>3. Pulling' = Pulling \ {w}
  BY <1>2 DEF Pulling
<1>4. Tables'
  BY <1>1 DEF DInv, Tables
<1>5. TableAgreesWithVault' /\ SnapshotsFollow'
  BY <1>1 DEF DInv, TableAgreesWithVault, SnapshotsFollow, Live
<1>6. ASSUME NEW v \in Pulling \ {w}
      PROVE  Held(pull[v])' /\ Watched(pull[v])' /\ ~(pull[v].alone)' /\ overlapped'
  <2>1. pull'[v] = pull[v]
    BY <1>2 DEF Pulling
  <2>2. Held(pull[v]) /\ Watched(pull[v]) /\ ~pull[v].alone /\ overlapped
    BY <1>1 DEF DInv, InProgress
  <2> QED
    BY <1>1, <2>1, <2>2 DEF Held, Watched
<1>7. InProgress'
  BY <1>3, <1>6 DEF InProgress
<1> QED
  BY <1>3, <1>4, <1>5, <1>7 DEF DInv

LEMMA WrittenIsADraft ==
  ASSUME NEW row \in Row \cup {Unknown}, NEW incoming \in Profiles
  PROVE  Written(row, incoming) \in Draft /\ Written(row, incoming).profile = incoming
<1>1. CASE row.known
  <2>1. row \in Row /\ row.failures \in Nat
    BY <1>1, RowsOf
  <2>2. PICK n : n = Counted(row, incoming)
    OBVIOUS
  <2>3. n \in Nat
    <3>1. (IF incoming.failed THEN 1 ELSE 0) \in Nat
      OBVIOUS
    <3>2. (IF incoming.rotated # Never /\ incoming.rotated # row.profile.rotated THEN 0 ELSE row.failures) \in Nat
      BY <2>1
    <3> QED
      BY <2>2, <3>1, <3>2 DEF Counted
  <2>4. Written(row, incoming) = [row EXCEPT !.profile = incoming, !.failures = n]
    BY <1>1, <2>2 DEF Written
  <2> QED
    BY <2>1, <2>3, <2>4 DEF Row, Draft
<1>2. CASE ~row.known
  BY <1>2 DEF Written, Draft
<1> QED
  BY <1>1, <1>2

LEMMA DiffSaveAccount ==
  ASSUME DInv, NEW w \in Workers, SaveAccount(w)
  PROVE  DInv' /\ Pulling' = Pulling
<1>1. /\ w \in Pulling /\ pull[w] \in Pulls /\ pull[w].pc = "fetched"
      /\ Held(pull[w]) /\ Watched(pull[w]) /\ (pull[w].alone => Undisturbed(pull[w]))
  BY IdleIs DEF SaveAccount, DInv, Tables, Pulling, InProgress
<1> DEFINE a == pull[w].hand.id
           row == pull[w].hand.row
           incoming == pull[w].hand.incoming
           kinds == IF row.known THEN Transitions(row.profile, incoming) ELSE {"onboarded"}
           draft == With(pull[w].draft, a, Written(row, incoming))
           events == pull[w].events \cup {<<a, k>> : k \in kinds}
           shots(heartbeat) == IF heartbeat \/ Changed(row, incoming)
                               THEN pull[w].shots \cup {a} ELSE pull[w].shots
<1>2. PICK heartbeat \in BOOLEAN :
        pull' = [pull EXCEPT
               ![w].pc = "pulling", ![w].hand = Gone,
               ![w].draft = With(@, a, Written(row, incoming)),
               ![w].events = @ \cup {<<a, k>> : k \in kinds},
               ![w].shots = IF heartbeat \/ Changed(row, incoming) THEN @ \cup {a} ELSE @]
  <2>1. PICK heartbeat \in {FALSE} \cup {~Changed(row, incoming)} :
        pull' = [pull EXCEPT
               ![w].pc = "pulling", ![w].hand = Gone,
               ![w].draft = With(@, a, Written(row, incoming)),
               ![w].events = @ \cup {<<a, k>> : k \in kinds},
               ![w].shots = IF heartbeat \/ Changed(row, incoming) THEN @ \cup {a} ELSE @]
    BY Zenon DEF SaveAccount
  <2>2. heartbeat \in BOOLEAN
    BY Zenon
  <2> QED
    BY <2>1, <2>2, Zenon
<1>3. UNCHANGED <<vault, account, snapshot, settled, overlapped>>
  BY DEF SaveAccount
<1>4. a \in Accounts /\ row \in Row \cup {Unknown} /\ incoming \in Profiles
  BY <1>1, FetchedFields DEF Held
<1>5. Written(row, incoming) \in Draft /\ Written(row, incoming).profile = incoming
  BY <1>4, WrittenIsADraft
<1>6. /\ a \notin DOMAIN pull[w].draft
      /\ pull[w].seen = DOMAIN pull[w].draft \cup {a}
      /\ row.known => account[a].known
  BY <1>1 DEF Held
<1>7. kinds \subseteq Kinds
  BY TransitionsAre DEF Kinds
<1>8. PICK q : q = [pull[w] EXCEPT !.pc = "pulling", !.hand = Gone, !.draft = draft, !.events = events,
                                   !.shots = shots(heartbeat)]
  OBVIOUS
<1>9. pull' = [pull EXCEPT ![w] = q]
  BY <1>1, <1>2, <1>8 DEF DInv, Tables
<1>10. /\ DOMAIN draft = DOMAIN pull[w].draft \cup {a}
       /\ draft = [b \in DOMAIN draft |-> draft[b]]
       /\ draft[a] = Written(row, incoming)
       /\ \A b \in DOMAIN pull[w].draft : draft[b] = pull[w].draft[b]
  BY <1>6 DEF With
<1>11. draft \in Drafts
  <2>1. DOMAIN pull[w].draft \subseteq Accounts /\ \A b \in DOMAIN pull[w].draft : pull[w].draft[b] \in Draft
    BY <1>1, PullFields, DraftsAre
  <2> HIDE DEF draft
  <2>2. DOMAIN draft \subseteq Accounts /\ \A b \in DOMAIN draft : draft[b] \in Draft
    BY <1>4, <1>5, <1>10, <2>1
  <2> QED
    BY <1>10, <2>2, DraftsAre
<1>12. events \in SUBSET (Accounts \X Kinds) /\ shots(heartbeat) \in SUBSET Accounts
  BY <1>1, <1>4, <1>7, PullFields
<1>13. /\ pull[w].shots \subseteq shots(heartbeat) /\ shots(heartbeat) \subseteq pull[w].shots \cup {a}
       /\ a \notin shots(heartbeat) => row.known /\ Transitions(row.profile, incoming) = {}
  BY DEF Changed
<1>14. /\ \A k : <<a, k>> \in events <=> k \in kinds
       /\ \A b, k : b # a => (<<b, k>> \in events <=> <<b, k>> \in pull[w].events)
       /\ \A e \in events : e[1] \in DOMAIN pull[w].draft \cup {a}
  BY <1>1, <1>6 DEF Held
<1>15. row.known => kinds = Transitions(row.profile, incoming)
  OBVIOUS
<1> HIDE DEF draft, events, shots, kinds
<1>16. /\ q \in Pulls
       /\ q.pc = "pulling" /\ q.left = pull[w].left /\ q.seen = pull[w].seen
       /\ q.draft = draft /\ q.events = events /\ q.shots = shots(heartbeat)
       /\ q.missing = {} /\ q.gone = {} /\ q.stable = pull[w].stable /\ q.alone = pull[w].alone
  BY <1>1, <1>8, <1>11, <1>12 DEF Pulls, Held
<1>17. Held(q)
  <2>1. q.left \cap q.seen = {} /\ q.seen = DOMAIN q.draft
    BY <1>1, <1>6, <1>10, <1>16 DEF Held
  <2>2. q.shots \subseteq DOMAIN q.draft
    BY <1>1, <1>6, <1>10, <1>13, <1>16 DEF Held
  <2>3. \A b \in DOMAIN q.draft : b \in q.shots \/ account[b].known
    BY <1>1, <1>6, <1>10, <1>13, <1>16 DEF Held
  <2>4. \A e \in q.events : e[1] \in DOMAIN q.draft
    BY <1>10, <1>14, <1>16
  <2> QED
    BY <1>16, <2>1, <2>2, <2>3, <2>4 DEF Held
<1>18. Watched(q)
  <2>1. Watched(pull[w])
    BY <1>1
  <2>2. /\ \A b \in q.stable : vault[b] # Gone => b \in q.left \cup q.seen
        /\ \A b \in q.stable \cap q.seen : vault[b] # Gone
    BY <1>16, <2>1 DEF Watched
  <2>3. \A b \in q.stable \cap DOMAIN q.draft : q.draft[b].profile = vault[b]
    <3>1. a \in pull[w].stable => draft[a].profile = vault[a]
      BY <1>1, <1>5, <1>6, <1>10, <2>1 DEF Watched
    <3>2. \A b \in pull[w].stable \cap DOMAIN pull[w].draft : draft[b].profile = vault[b]
      BY <1>10, <2>1 DEF Watched
    <3> QED
      BY <1>10, <1>16, <3>1, <3>2
  <2> QED
    BY <1>16, <2>2, <2>3 DEF Watched
<1>19. q.alone => Undisturbed(q)
  <2> SUFFICES ASSUME q.alone PROVE Undisturbed(q)
    OBVIOUS
  <2>1. Undisturbed(pull[w]) /\ row = account[a]
    BY <1>1, <1>16 DEF Undisturbed
  <2>2. ASSUME NEW b \in DOMAIN pull[w].draft, account[b].known
        PROVE  /\ Told(q, b) = Transitions(account[b].profile, q.draft[b].profile)
               /\ b \notin q.shots => Transitions(account[b].profile, q.draft[b].profile) = {}
    <3>1. b # a /\ q.draft[b] = pull[w].draft[b] /\ Told(q, b) = Told(pull[w], b)
      BY <1>6, <1>10, <1>14, <1>16, <2>2 DEF Told
    <3> QED
      BY <1>13, <1>16, <2>1, <2>2, <3>1 DEF Undisturbed
  <2>3. ASSUME account[a].known
        PROVE  /\ Told(q, a) = Transitions(account[a].profile, q.draft[a].profile)
               /\ a \notin q.shots => Transitions(account[a].profile, q.draft[a].profile) = {}
    <3>1. q.draft[a].profile = incoming /\ kinds = Transitions(account[a].profile, incoming)
      BY <1>5, <1>10, <1>15, <1>16, <2>1, <2>3
    <3>2. Told(q, a) = kinds
      BY <1>7, <1>14, <1>16 DEF Told
    <3> QED
      BY <1>13, <1>16, <2>1, <3>1, <3>2
  <2> QED
    BY <1>10, <1>16, <2>1, <2>2, <2>3 DEF Undisturbed
<1> QED
  BY <1>1, <1>3, <1>9, <1>16, <1>17, <1>18, <1>19, PullGoesOn

\* What a pull that has read its records sees.
LEMMA WhatItSees ==
  ASSUME DInv, NEW w \in Pulling, pull[w].pc # "fetched"
  PROVE  /\ pull[w].seen = DOMAIN pull[w].draft
         /\ \A a \in pull[w].seen : /\ a \in Accounts /\ Visible(w)[a] = pull[w].draft[a]
                                    /\ Visible(w)[a] \in Draft /\ Visible(w)[a].known
                                    /\ Visible(w)[a].profile \in Profiles
         /\ \A a \in Accounts \ pull[w].seen : Visible(w)[a] = account[a]
         /\ pull[w].seen \subseteq Live(Visible(w))
         /\ Live(Visible(w)) \subseteq Accounts
         /\ Live(Visible(w)) \ pull[w].seen = Live(account) \ pull[w].seen
<1>1. pull[w] \in Pulls /\ pull[w].seen = DOMAIN pull[w].draft
  BY PullIsOne DEF DInv, InProgress, Held
<1>2. \A a \in pull[w].seen : /\ a \in Accounts /\ Visible(w)[a] = pull[w].draft[a]
                              /\ Visible(w)[a] \in Draft
  BY <1>1, PullFields, DraftsAre DEF Visible
<1>3. \A d \in Draft : d.known /\ d.profile \in Profiles
  BY DEF Draft
<1>4. \A a \in Accounts \ pull[w].seen : Visible(w)[a] = account[a]
  BY <1>1 DEF Visible
<1>5. pull[w].seen \subseteq Live(Visible(w)) /\ Live(Visible(w)) \subseteq Accounts
  BY <1>2, <1>3, ProfileFields DEF Live
<1>6. Live(Visible(w)) \ pull[w].seen = Live(account) \ pull[w].seen
  BY <1>4 DEF Live
<1> QED
  BY <1>1, <1>2, <1>3, <1>4, <1>5, <1>6

LEMMA DiffCountLive ==
  ASSUME DInv, NEW w \in Workers, CountLive(w)
  PROVE  DInv' /\ Pulling' = Pulling
<1>1. w \in Pulling /\ pull[w] \in Pulls /\ pull[w].pc = "pulling"
  BY IdleIs DEF CountLive, DInv, Tables, Pulling
<1>2. Held(pull[w]) /\ Watched(pull[w]) /\ (pull[w].alone => Undisturbed(pull[w]))
  BY <1>1 DEF DInv, InProgress
<1>3. PICK live : live = Live(Visible(w))
  OBVIOUS
<1>4. /\ live \in SUBSET Accounts /\ pull[w].seen \subseteq live
      /\ live \ pull[w].seen = Live(account) \ pull[w].seen
  BY <1>1, <1>3, WhatItSees
<1>5. PICK q : q = [pull[w] EXCEPT !.pc = "counted", !.counted = live]
  OBVIOUS
<1>6. /\ pull' = [pull EXCEPT ![w] = q]
      /\ UNCHANGED <<vault, account, snapshot, settled, overlapped>>
  BY <1>1, <1>3, <1>5 DEF CountLive, DInv, Tables, Pulling
<1>7. /\ q \in Pulls
      /\ q.pc = "counted" /\ q.counted = live /\ q.left = pull[w].left /\ q.seen = pull[w].seen
      /\ q.draft = pull[w].draft /\ q.events = pull[w].events /\ q.shots = pull[w].shots
      /\ q.missing = pull[w].missing /\ q.gone = pull[w].gone
      /\ q.stable = pull[w].stable /\ q.alone = pull[w].alone
  BY <1>1, <1>4, <1>5 DEF Pulls
<1>8. Held(q) /\ Watched(q)
  BY <1>1, <1>2, <1>4, <1>7 DEF Held, Watched
<1>9. q.alone => Undisturbed(q)
  BY <1>2, <1>4, <1>7 DEF Undisturbed, Told
<1> QED
  BY <1>1, <1>6, <1>7, <1>8, <1>9, PullGoesOn

LEMMA DiffFindMissing ==
  ASSUME DInv, NEW w \in Workers, FindMissing(w)
  PROVE  DInv' /\ Pulling' = Pulling
<1>1. w \in Pulling /\ pull[w] \in Pulls /\ pull[w].pc = "counted"
  BY IdleIs DEF FindMissing, DInv, Tables, Pulling
<1>2. Held(pull[w]) /\ Watched(pull[w]) /\ (pull[w].alone => Undisturbed(pull[w]))
  BY <1>1 DEF DInv, InProgress
<1>3. PICK missing : missing = IF MayRetire(w) THEN Missing(w) ELSE {}
  OBVIOUS
<1>4. missing = IF Cardinality(pull[w].seen) * 2 >= Cardinality(pull[w].counted)
                THEN Live(account) \ pull[w].seen ELSE {}
  BY <1>1, <1>3, WhatItSees DEF MayRetire, Missing
<1>5. missing \in SUBSET Accounts /\ \A a \in missing : a \notin pull[w].seen /\ account[a].known
  BY <1>4 DEF Live
<1>6. PICK q : q = [pull[w] EXCEPT !.pc = "retiring", !.missing = missing]
  OBVIOUS
<1>7. /\ pull' = [pull EXCEPT ![w] = q]
      /\ UNCHANGED <<vault, account, snapshot, settled, overlapped>>
  BY <1>1, <1>3, <1>6 DEF FindMissing, DInv, Tables, Pulling
<1>8. /\ q \in Pulls
      /\ q.pc = "retiring" /\ q.missing = missing /\ q.left = pull[w].left /\ q.seen = pull[w].seen
      /\ q.draft = pull[w].draft /\ q.events = pull[w].events /\ q.shots = pull[w].shots
      /\ q.counted = pull[w].counted /\ q.gone = pull[w].gone
      /\ q.stable = pull[w].stable /\ q.alone = pull[w].alone
  BY <1>1, <1>5, <1>6 DEF Pulls
<1>9. Held(q) /\ Watched(q)
  BY <1>1, <1>2, <1>4, <1>5, <1>8 DEF Held, Watched
<1>10. q.alone => Undisturbed(q)
  <2> SUFFICES ASSUME q.alone PROVE Undisturbed(q)
    OBVIOUS
  <2>1. Undisturbed(pull[w]) /\ pull[w].gone = {}
    BY <1>1, <1>2, <1>8 DEF Held
  <2>2. pull[w].counted \ pull[w].seen = Live(account) \ pull[w].seen
    BY <1>1, <2>1 DEF Undisturbed
  <2>3. q.missing \cup q.gone = IF Cardinality(q.seen) * 2 >= Cardinality(q.counted)
                               THEN q.counted \ q.seen ELSE {}
    BY <1>4, <1>8, <2>1, <2>2
  <2> QED
    BY <1>8, <2>1, <2>2, <2>3 DEF Undisturbed, Told
<1> QED
  BY <1>1, <1>7, <1>8, <1>9, <1>10, PullGoesOn

LEMMA DiffRetireAccount ==
  ASSUME DInv, NEW w \in Workers, RetireAccount(w)
  PROVE  DInv' /\ Pulling' = Pulling
<1>1. w \in Pulling /\ pull[w] \in Pulls /\ pull[w].pc = "retiring"
  BY IdleIs DEF RetireAccount, DInv, Tables, Pulling
<1>2. Held(pull[w]) /\ Watched(pull[w]) /\ (pull[w].alone => Undisturbed(pull[w]))
  BY <1>1 DEF DInv, InProgress
<1>3. PICK a \in pull[w].missing :
        pull' = [pull EXCEPT ![w].missing = @ \ {a}, ![w].gone = @ \cup {a}]
  BY DEF RetireAccount
<1> DEFINE missing == pull[w].missing \ {a}
           gone == pull[w].gone \cup {a}
<1>4. /\ missing \in SUBSET Accounts /\ gone \in SUBSET Accounts
      /\ missing \cup gone = pull[w].missing \cup pull[w].gone
  BY <1>1, PullFields
<1> HIDE DEF missing, gone
<1>5. PICK q : q = [pull[w] EXCEPT !.missing = missing, !.gone = gone]
  OBVIOUS
<1>6. /\ pull' = [pull EXCEPT ![w] = q]
      /\ UNCHANGED <<vault, account, snapshot, settled, overlapped>>
  BY <1>1, <1>3, <1>5 DEF RetireAccount, DInv, Tables, Pulling, missing, gone
<1>7. /\ q \in Pulls
      /\ q.pc = "retiring" /\ q.missing = missing /\ q.gone = gone
      /\ q.left = pull[w].left /\ q.seen = pull[w].seen
      /\ q.draft = pull[w].draft /\ q.events = pull[w].events /\ q.shots = pull[w].shots
      /\ q.counted = pull[w].counted /\ q.stable = pull[w].stable /\ q.alone = pull[w].alone
  BY <1>1, <1>4, <1>5 DEF Pulls
<1>8. Held(q) /\ Watched(q)
  BY <1>1, <1>2, <1>4, <1>7 DEF Held, Watched
<1>9. q.alone => Undisturbed(q)
  BY <1>1, <1>2, <1>4, <1>7 DEF Undisturbed, Told
<1> QED
  BY <1>1, <1>6, <1>7, <1>8, <1>9, PullGoesOn

RetiredBy(w) == pull[w].gone

\* What is live was reported, and Deleted marks it.
LEMMA LiveProfiles ==
  ASSUME NEW row \in Row, row.profile.status # "deleted"
  PROVE  row.profile \in Profiles
BY RowsOf, ProfileFields DEF StoredProfiles

LEMMA FinishFacts ==
  ASSUME DInv, NEW w \in Workers, FinishPull(w)
  PROVE  /\ w \in Pulling /\ pull[w] \in Pulls /\ pull[w].seen = DOMAIN pull[w].draft
         /\ Held(pull[w]) /\ Watched(pull[w]) /\ (pull[w].alone => Pulling = {w} /\ Undisturbed(pull[w]))
         /\ \A a \in pull[w].seen : /\ a \in Accounts /\ Visible(w)[a] = pull[w].draft[a]
                                    /\ Visible(w)[a] \in Draft /\ Visible(w)[a].profile \in Profiles
                                    /\ Visible(w)[a].known /\ account'[a] = Visible(w)[a]
         /\ \A a \in Accounts \ pull[w].seen : Visible(w)[a] = account[a]
         /\ \A a \in Accounts \ (pull[w].seen \cup RetiredBy(w)) : account'[a] = account[a]
         /\ \A a \in RetiredBy(w) :
              /\ a \in Accounts /\ a \notin pull[w].seen
              /\ account[a].known /\ account[a].profile \in StoredProfiles
              /\ account'[a] \in Row /\ account'[a].profile = Deleted(account[a].profile)
              /\ account'[a].retired
         /\ pull[w].alone =>
              /\ pull[w].seen \subseteq pull[w].counted
              /\ RetiredBy(w) = IF MayRetire(w) THEN Live(account) \ pull[w].seen ELSE {}
              /\ RetiredBy(w) \subseteq pull[w].counted
         /\ account' \in [Accounts -> Row \cup {Unknown}]
<1>1. /\ w \in Pulling /\ pull[w] \in Pulls
      /\ pull[w].pc = "retiring" /\ pull[w].missing = {}
  BY IdleIs DEF FinishPull, DInv, Tables, Pulling
<1>2. /\ Held(pull[w]) /\ Watched(pull[w])
      /\ pull[w].alone => Pulling = {w} /\ Undisturbed(pull[w])
  BY <1>1 DEF DInv, InProgress
<1>3. pull[w].seen = DOMAIN pull[w].draft
  BY <1>1, <1>2 DEF Held
<1>4. \A a \in pull[w].seen : /\ a \in Accounts /\ Visible(w)[a] = pull[w].draft[a]
                              /\ Visible(w)[a] \in Draft
  BY <1>1, WhatItSees
<1>5. \A d \in Draft : d.known /\ d.profile \in Profiles /\ d \in Row
  BY DEF Draft, Row, StoredProfiles
<1>6. \A a \in Accounts \ pull[w].seen : Visible(w)[a] = account[a]
  BY <1>3 DEF Visible
<1>7. \A a \in RetiredBy(w) : a \in Accounts /\ a \notin pull[w].seen /\ account[a].known
  BY <1>1, <1>2, PullFields DEF RetiredBy, Held
<1>8. account' = [a \in Accounts |->
             IF a \in RetiredBy(w)
             THEN [Visible(w)[a] EXCEPT !.profile = Deleted(@), !.retired = TRUE] ELSE Visible(w)[a]]
  BY Zenon DEF FinishPull, RetiredBy
<1>9. \A a \in Accounts \ RetiredBy(w) : account'[a] = Visible(w)[a]
  BY <1>8
<1>10. ASSUME NEW a \in RetiredBy(w)
       PROVE  /\ account[a].profile \in StoredProfiles
              /\ account'[a] \in Row /\ account'[a].profile = Deleted(account[a].profile)
              /\ account'[a].retired
  <2>1. account[a] \in Row /\ account[a].profile \in StoredProfiles
    BY <1>7, RowsOf DEF DInv, Tables
  <2>2. PICK gone : gone = Deleted(account[a].profile)
    OBVIOUS
  <2>3. account'[a] = [account[a] EXCEPT !.profile = gone, !.retired = TRUE]
    BY <1>6, <1>7, <1>8, <2>2
  <2>4. gone \in StoredProfiles
    BY <2>1, <2>2, DeletedIs
  <2>5. /\ [account[a] EXCEPT !.profile = gone, !.retired = TRUE] \in Row
        /\ [account[a] EXCEPT !.profile = gone, !.retired = TRUE].profile = gone
        /\ [account[a] EXCEPT !.profile = gone, !.retired = TRUE].retired
    BY <2>1, <2>4 DEF Row
  <2> QED
    BY <2>1, <2>2, <2>3, <2>5
<1>11. \A a \in Accounts : account'[a] \in Row \cup {Unknown}
  BY <1>4, <1>5, <1>6, <1>9, <1>10 DEF DInv, Tables
<1>12. account' \in [Accounts -> Row \cup {Unknown}]
  BY <1>8, <1>11
<1>13. \A a \in Accounts \ (pull[w].seen \cup RetiredBy(w)) : account'[a] = account[a]
  BY <1>6, <1>9
<1>14. \A a \in pull[w].seen : account'[a] = Visible(w)[a]
  BY <1>4, <1>7, <1>9
<1>15. ASSUME pull[w].alone
       PROVE  /\ pull[w].seen \subseteq pull[w].counted
              /\ RetiredBy(w) = IF MayRetire(w) THEN Live(account) \ pull[w].seen ELSE {}
              /\ RetiredBy(w) \subseteq pull[w].counted
  <2>1. /\ Undisturbed(pull[w]) /\ pull[w].seen \subseteq pull[w].counted
        /\ pull[w].missing \cup pull[w].gone = RetiredBy(w)
    BY <1>1, <1>2, <1>15 DEF Held, RetiredBy
  <2> QED
    BY <1>1, <2>1 DEF Undisturbed, MayRetire
<1> QED
  BY <1>1, <1>2, <1>3, <1>4, <1>5, <1>6, <1>7, <1>10, <1>12, <1>13, <1>14, <1>15

LEMMA DiffFinishPull ==
  ASSUME DInv, NEW w \in Workers, FinishPull(w)
  PROVE  DInv' /\ Pulling' = Pulling \ {w}
<1> DEFINE D == pull[w].seen
           retired == RetiredBy(w)
<1>1. /\ w \in Pulling /\ pull[w] \in Pulls /\ D = DOMAIN pull[w].draft
      /\ Held(pull[w]) /\ Watched(pull[w]) /\ (pull[w].alone => Pulling = {w} /\ Undisturbed(pull[w]))
  BY FinishFacts
<1>2. \A a \in D : /\ a \in Accounts /\ Visible(w)[a] = pull[w].draft[a]
                   /\ Visible(w)[a].profile \in Profiles /\ Visible(w)[a].known
                   /\ account'[a] = Visible(w)[a]
  BY FinishFacts
<1>3. \A a \in Accounts \ (D \cup retired) : account'[a] = account[a]
  BY FinishFacts
<1>4. \A a \in retired :
              /\ a \in Accounts /\ a \notin D /\ account[a].known
              /\ account'[a] \in Row /\ account'[a].profile = Deleted(account[a].profile)
              /\ account'[a].retired /\ account'[a].known
              /\ account'[a].profile.status = "deleted"
  BY FinishFacts, RowsOf, DeletedIs
<1>5. account' \in [Accounts -> Row \cup {Unknown}]
  BY FinishFacts
<1>6. /\ snapshot' = [a \in Accounts |->
             IF a \in pull[w].shots THEN Visible(w)[a].profile ELSE snapshot[a]]
      /\ settled' = IF Complete(w) /\ pull[w].alone /\ MayRetire(w)
                      THEN settled \cup pull[w].stable
                      ELSE settled \ (DOMAIN pull[w].draft \cup retired)
      /\ pull' = [pull EXCEPT ![w] = Idle]
      /\ UNCHANGED <<vault, overlapped>>
  BY Zenon DEF FinishPull, RetiredBy
<1>7. pull[w].shots \subseteq D /\ pull[w].stable \subseteq Accounts
  BY <1>1, PullFields DEF Held
<1>8. /\ pull \in [Workers -> Pulls \cup {Idle}] /\ snapshot \in [Accounts -> Profiles \cup {Gone}]
      /\ \A a \in Accounts : account[a] \in Row \cup {Unknown}
      /\ \A a \in Accounts : account[a].known <=> snapshot[a] # Gone
      /\ \A a \in Accounts :
           account[a].known /\ account[a].profile.status = "deleted" => account[a].retired
  BY DEF DInv, Tables
<1> HIDE DEF D, retired
<1>9. /\ snapshot' \in [Accounts -> Profiles \cup {Gone}]
      /\ \A a \in pull[w].shots : snapshot'[a] = account'[a].profile /\ snapshot'[a] \in Profiles
      /\ \A a \in Accounts \ pull[w].shots : snapshot'[a] = snapshot[a]
  BY <1>2, <1>6, <1>7, <1>8
<1>10. pull' \in [Workers -> Pulls \cup {Idle}] /\ settled' \subseteq Accounts
  BY <1>6, <1>7, <1>8 DEF DInv, Tables
<1>11. ASSUME NEW a \in Accounts PROVE account'[a].known <=> snapshot'[a] # Gone
  <2>1. CASE a \in D
    <3>1. snapshot'[a] # Gone
      BY <1>1, <1>7, <1>8, <1>9, <2>1, ProfileFields DEF Held
    <3> QED
      BY <1>2, <2>1, <3>1
  <2>2. CASE a \in retired
    <3>1. snapshot'[a] = snapshot[a] /\ account[a].known
      BY <1>4, <1>7, <1>9, <2>2
    <3> QED
      BY <1>4, <1>8, <2>2, <3>1
  <2>3. CASE a \notin D \cup retired
    BY <1>3, <1>7, <1>8, <1>9, <2>3
  <2> QED
    BY <2>1, <2>2, <2>3
<1>12. \A a \in Accounts :
         account'[a].known /\ account'[a].profile.status = "deleted" => account'[a].retired
  BY <1>2, <1>3, <1>4, <1>8, ProfileFields
<1>13. Tables'
  BY <1>5, <1>6, <1>9, <1>10, <1>11, <1>12 DEF DInv, Tables
<1>14. Pulling' = Pulling \ {w} /\ \A v \in Pulling \ {w} : v \in Workers /\ pull'[v] = pull[v]
  BY <1>6, <1>8 DEF Pulling
<1>15. ASSUME NEW v \in Pulling \ {w}
       PROVE  Held(pull[v])' /\ Watched(pull[v])' /\ ~(pull[v].alone)' /\ overlapped'
  <2>1. Held(pull[v]) /\ Watched(pull[v]) /\ ~pull[v].alone /\ overlapped
    BY <1>1 DEF DInv, InProgress
  <2>2. \A a \in Accounts : account[a].known => account'[a].known
    BY <1>2, <1>3, <1>4
  <2>3. /\ pull[v] \in Pulls /\ DOMAIN pull[v].draft \subseteq Accounts
        /\ pull[v].missing \subseteq Accounts /\ pull[v].gone \subseteq Accounts
    BY PullIsOne, PullFields, DraftsAre
  <2>4. pull[v].pc = "fetched" => pull[v].hand.id \in Accounts
    BY <2>1, FetchedFields DEF Held
  <2>5. Held(pull[v])'
    BY <1>14, <2>1, <2>2, <2>3, <2>4 DEF Held
  <2>6. Watched(pull[v])'
    BY <1>6, <1>14, <2>1 DEF Watched
  <2> QED
    BY <1>6, <1>14, <2>1, <2>5, <2>6
<1>16. InProgress'
  BY <1>14, <1>15 DEF InProgress
<1>17. TableAgreesWithVault'
  <2>1. CASE Complete(w) /\ pull[w].alone /\ MayRetire(w)
    <3>1. settled' = pull[w].stable
      BY <1>1, <1>6, <2>1 DEF Undisturbed
    <3> SUFFICES ASSUME NEW a \in pull[w].stable
                 PROVE  IF vault[a] = Gone
                        THEN account'[a].known => account'[a].profile.status = "deleted"
                        ELSE account'[a].known /\ account'[a].profile = vault[a]
      BY <1>6, <3>1 DEF TableAgreesWithVault
    <3>2. CASE vault[a] = Gone
      <4>1. a \notin D /\ a \in Accounts
        BY <1>1, <1>7, <3>2 DEF Watched, D
      <4>2. a \in retired \/ ~account[a].known \/ account[a].profile.status = "deleted"
        <5>1. retired = Live(account) \ pull[w].seen
          BY <2>1, FinishFacts DEF retired
        <5> QED
          BY <4>1, <5>1 DEF Live, D
      <4> QED
        BY <1>3, <1>4, <3>2, <4>1, <4>2
    <3>3. CASE vault[a] # Gone
      <4>1. a \in D
        BY <1>1, <1>7, <2>1, <3>3 DEF Watched, Complete, InVault, D
      <4> QED
        BY <1>1, <1>2, <3>3, <4>1 DEF Watched
    <3> QED
      BY <3>2, <3>3
  <2>2. CASE ~(Complete(w) /\ pull[w].alone /\ MayRetire(w))
    <3>1. \A a \in settled' : a \in settled /\ account'[a] = account[a]
      BY <1>1, <1>3, <1>6, <2>2 DEF DInv, Tables
    <3> QED
      BY <1>6, <3>1 DEF DInv, TableAgreesWithVault
  <2> QED
    BY <2>1, <2>2
<1>18. SnapshotsFollow'
  <2> SUFFICES ASSUME ~overlapped, NEW a \in Accounts, account'[a].known,
                      account'[a].profile.status # "deleted"
               PROVE  /\ snapshot'[a].status = account'[a].profile.status
                      /\ snapshot'[a].owner = account'[a].profile.owner
                      /\ snapshot'[a].auto = "unknown" \/ snapshot'[a].auto = account'[a].profile.auto
    BY <1>6 DEF SnapshotsFollow, Live
  <2>1. pull[w].alone /\ Undisturbed(pull[w])
    BY <1>1 DEF DInv, InProgress
  <2>2. CASE a \in pull[w].shots
    BY <1>9, <2>2
  <2>3. CASE a \in D /\ a \notin pull[w].shots
    <3> DEFINE before == account[a].profile
               after == account'[a].profile
    <3>1. account[a].known /\ after = pull[w].draft[a].profile
      BY <1>1, <1>2, <2>3 DEF Held
    <3>2. Transitions(before, after) = {}
      BY <1>1, <2>1, <2>3, <3>1 DEF Undisturbed
    <3>3. before.owner = after.owner /\ before.status = after.status
          /\ (before.auto = "unknown" \/ before.auto = after.auto)
      BY <3>2, TransitionsAre
    <3>4. a \in Live(account)
      BY <3>1, <3>3 DEF Live
    <3>5. /\ snapshot[a].status = before.status /\ snapshot[a].owner = before.owner
          /\ snapshot[a].auto = "unknown" \/ snapshot[a].auto = before.auto
      BY <3>4 DEF DInv, SnapshotsFollow
    <3> QED
      BY <1>9, <2>3, <3>3, <3>5
  <2>4. CASE a \notin D
    <3>1. a \notin retired /\ account'[a] = account[a] /\ snapshot'[a] = snapshot[a]
      BY <1>3, <1>4, <1>7, <1>9, <2>4
    <3> QED
      BY <3>1 DEF DInv, SnapshotsFollow, Live
  <2> QED
    BY <2>2, <2>3, <2>4
<1> QED
  BY <1>13, <1>14, <1>16, <1>17, <1>18 DEF DInv
------------------------------------------------------------------------------
LEMMA DiffStep == DInv /\ [Next]_vars => DInv'
<1> SUFFICES ASSUME DInv, [Next]_vars PROVE DInv'
  OBVIOUS
<1>1. ASSUME NEW a \in Accounts, VaultChanges(a) PROVE DInv'
  BY <1>1, DiffVaultChanges
<1>2. ASSUME NEW w \in Workers,
             \/ StartPull(w) \/ ReadAccount(w) \/ SaveAccount(w) \/ CountLive(w)
             \/ FindMissing(w) \/ RetireAccount(w) \/ FinishPull(w) \/ FailPull(w)
      PROVE  DInv'
  BY <1>2, DiffStartPull, DiffReadAccount, DiffSaveAccount, DiffCountLive, DiffFindMissing,
     DiffRetireAccount, DiffFinishPull, DiffFailPull
<1>3. CASE UNCHANGED vars
  <2>1. UNCHANGED <<vault, account, snapshot, pull, settled, overlapped>>
    BY <1>3 DEF vars
  <2>2. Tables'
    BY <2>1 DEF DInv, Tables
  <2>3. Pulling' = Pulling
    BY <2>1 DEF Pulling
  <2>4. ASSUME NEW v \in Pulling
        PROVE  /\ Held(pull[v])' /\ Watched(pull[v])'
               /\ (pull[v].alone)' => Pulling' = {v} /\ Undisturbed(pull[v])'
               /\ ~overlapped' => (pull[v].alone)'
    <3>1. /\ Held(pull[v]) /\ Watched(pull[v])
          /\ pull[v].alone => Pulling = {v} /\ Undisturbed(pull[v])
          /\ ~overlapped => pull[v].alone
      BY DEF DInv, InProgress
    <3>2. Held(pull[v])'
      BY <2>1, <3>1 DEF Held
    <3>3. Watched(pull[v])'
      BY <2>1, <3>1 DEF Watched
    <3>4. Undisturbed(pull[v])' <=> Undisturbed(pull[v])
      BY <2>1 DEF Undisturbed, Told, Live
    <3> QED
      BY <2>1, <2>3, <3>1, <3>2, <3>3, <3>4
  <2>5. InProgress'
    BY <2>3, <2>4 DEF InProgress
  <2>6. TableAgreesWithVault' /\ SnapshotsFollow'
    BY <2>1 DEF DInv, TableAgreesWithVault, SnapshotsFollow, Live
  <2> QED
    BY <2>2, <2>5, <2>6 DEF DInv
<1> QED
  BY <1>1, <1>2, <1>3 DEF Next

LEMMA DiffInvariant == Spec => []DInv
<1>1. Init => DInv
  BY DiffInit
<1>2. DInv /\ [Next]_vars => DInv'
  BY DiffStep
<1> QED
  BY <1>1, <1>2, PTL DEF Spec

\* Which step ends the pull of a worker, and what it has retired.
LEMMA WhoEnds ==
  ASSUME DInv, Next, NEW w \in Workers, Ends(w)
  PROVE  FinishPull(w) \/ FailPull(w)
<1>1. w \in Pulling /\ w \notin Pulling'
  BY DEF Ends, Pulling
<1>2. ASSUME NEW a \in Accounts, VaultChanges(a) PROVE FALSE
  BY <1>1, <1>2, DiffVaultChanges
<1>3. PICK v \in Workers :
        \/ StartPull(v) \/ ReadAccount(v) \/ SaveAccount(v) \/ CountLive(v)
        \/ FindMissing(v) \/ RetireAccount(v) \/ FinishPull(v) \/ FailPull(v)
  BY <1>2 DEF Next
<1>4. ~(\/ StartPull(v) \/ ReadAccount(v) \/ SaveAccount(v) \/ CountLive(v)
        \/ FindMissing(v) \/ RetireAccount(v))
  BY <1>1, DiffStartPull, DiffReadAccount, DiffSaveAccount, DiffCountLive, DiffFindMissing,
     DiffRetireAccount
<1>5. Pulling' = Pulling \ {v}
  BY <1>3, <1>4, DiffFinishPull, DiffFailPull
<1>6. v = w
  BY <1>1, <1>5
<1> QED
  BY <1>3, <1>4, <1>6

LEMMA RecordedBy ==
  ASSUME DInv, NEW w \in Workers
  PROVE  /\ FailPull(w) => recorded' = {} /\ Retired = {} /\ account' = account
         /\ FinishPull(w) => /\ recorded' = pull[w].events \cup {<<a, "retired">> : a \in RetiredBy(w)}
                             /\ Retired = RetiredBy(w)
<1>1. FailPull(w) => recorded' = {} /\ Retired = {} /\ account' = account
  BY DEF FailPull, Retired
<1>2. ASSUME FinishPull(w)
      PROVE  /\ recorded' = pull[w].events \cup {<<a, "retired">> : a \in RetiredBy(w)}
             /\ Retired = RetiredBy(w)
  <2>1. recorded' = pull[w].events \cup {<<a, "retired">> : a \in RetiredBy(w)}
    BY <1>2, Zenon DEF FinishPull, RetiredBy
  <2>2. RetiredBy(w) \subseteq Accounts /\ pull[w].events \subseteq Accounts \X Kinds
    BY <1>2, FinishFacts, PullFields
  <2>3. \A a : <<a, "retired">> \notin pull[w].events
    BY <2>2 DEF Kinds
  <2>4. Retired = RetiredBy(w)
    BY <2>1, <2>2, <2>3 DEF Retired
  <2> QED
    BY <2>1, <2>4
<1> QED
  BY <1>1, <1>2

(***************************************************************************)
(* Types, whatever pulls overlap or fail: a stored row has its snapshot,   *)
(* and one marked deleted was retired.                                     *)
(***************************************************************************)
THEOREM RowsHaveTheirHistory == Spec => []TypeOK
<1>1. DInv => TypeOK
  <2> SUFFICES ASSUME DInv PROVE TypeOK
    OBVIOUS
  <2>1. ASSUME NEW w \in Pulling PROVE DOMAIN pull[w].draft \subseteq pull[w].seen
    <3>1. Held(pull[w])
      BY DEF DInv, InProgress
    <3> QED
      BY <3>1 DEF Held
  <2> QED
    BY <2>1 DEF DInv, Tables, TypeOK
<1> QED
  BY <1>1, DiffInvariant, PTL

(***************************************************************************)
(* As long as no two pulls have overlapped, the last snapshot of a live    *)
(* account shows its status, owner and rotation switch.                    *)
(***************************************************************************)
THEOREM HistoryFollowsTheRows == Spec => []SnapshotsFollow
<1>1. DInv => SnapshotsFollow
  BY DEF DInv
<1> QED
  BY <1>1, DiffInvariant, PTL

(***************************************************************************)
(* Where a complete, undisturbed pull answered last, the table is the      *)
(* vault: overlaps, failures and short pages before it leave no trace.     *)
(***************************************************************************)
THEOREM TheTableHeals == Spec => []TableAgreesWithVault
<1>1. DInv => TableAgreesWithVault
  BY DEF DInv
<1> QED
  BY <1>1, DiffInvariant, PTL

(***************************************************************************)
(* Of what was live when it counted, no pull retires more than half,       *)
(* however early its listing ended and whatever other pulls commit; alone, *)
(* it retires nothing else.                                                *)
(***************************************************************************)
THEOREM TheEstateIsNotRetired == Spec => MassRetirementRefused
<1> DEFINE Refused == \A w \in Workers : Ends(w) =>
       /\ 2 * Cardinality(Retired \cap pull[w].counted) <= Cardinality(pull[w].counted)
       /\ pull[w].alone => Retired \subseteq pull[w].counted
<1>1. DInv /\ [Next]_vars => [Refused]_vars
  <2> SUFFICES ASSUME DInv, Next, NEW w \in Workers, Ends(w)
               PROVE  /\ 2 * Cardinality(Retired \cap pull[w].counted) <= Cardinality(pull[w].counted)
                      /\ pull[w].alone => Retired \subseteq pull[w].counted
    BY Zenon
  <2> DEFINE seen == pull[w].seen
             counted == pull[w].counted
  <2>1. w \in Pulling /\ Held(pull[w]) /\ seen \subseteq Accounts /\ counted \subseteq Accounts
    BY PullIsOne, PullFields DEF Ends, Pulling, DInv, InProgress
  <2>2. IsFiniteSet(counted) /\ Cardinality(counted) \in Nat
    BY <2>1, FS_Subset, FS_CardinalityType, DiffAssumption
  <2>3. CASE Retired \cap counted = {}
    <3>1. 2 * Cardinality(Retired \cap counted) <= Cardinality(counted)
      <4>1. Cardinality(Retired \cap counted) = 0
        BY <2>3, FS_EmptySet
      <4> QED
        BY <2>2, <4>1
    <3>2. pull[w].alone => Retired \subseteq counted
      BY WhoEnds, RecordedBy, FinishFacts
    <3> QED
      BY <3>1, <3>2
  <2>4. CASE Retired \cap counted # {}
    <3>1. FinishPull(w) /\ Retired = pull[w].gone
      BY <2>4, WhoEnds, RecordedBy DEF RetiredBy
    <3>2. pull[w].pc = "retiring"
      BY <3>1 DEF FinishPull
    <3>3. /\ seen \subseteq counted /\ \A a \in Retired : a \notin seen
          /\ Cardinality(seen) * 2 >= Cardinality(counted)
      BY <2>1, <2>4, <3>1, <3>2 DEF Held
    <3> HIDE DEF seen, counted
    <3>4. Retired \cap counted \subseteq counted \ seen /\ counted \cap seen = seen
      BY <3>3
    <3>5. /\ IsFiniteSet(counted \ seen) /\ IsFiniteSet(seen)
          /\ Cardinality(counted \ seen) = Cardinality(counted) - Cardinality(seen)
      BY <2>2, <3>3, <3>4, FS_Difference, FS_Subset
    <3>6. /\ Cardinality(seen) \in Nat /\ IsFiniteSet(Retired \cap counted)
          /\ Cardinality(Retired \cap counted) <= Cardinality(counted \ seen)
      BY <3>4, <3>5, FS_CardinalityType, FS_Subset
    <3>7. Cardinality(Retired \cap counted) \in Nat
      BY <3>6, FS_CardinalityType
    <3>8. 2 * Cardinality(Retired \cap counted) <= Cardinality(counted)
      BY <2>2, <3>3, <3>5, <3>6, <3>7
    <3>9. pull[w].alone => Retired \subseteq counted
      BY <3>1, FinishFacts DEF RetiredBy, counted
    <3> QED
      BY <3>8, <3>9 DEF counted
  <2> QED
    BY <2>3, <2>4
<1> QED
  BY <1>1, DiffInvariant, PTL DEF Spec, MassRetirementRefused

(***************************************************************************)
(* A listing that reached its end retires no account that was in the vault *)
(* and unchanged while it ran, whatever else was collecting.               *)
(***************************************************************************)
THEOREM WhatWasThereStays == Spec => RetiredWereGone
<1> DEFINE Gones == \A w \in Workers : Ends(w) /\ Complete(w) =>
             \A a \in Retired \cap pull[w].stable : vault[a] = Gone
<1>1. DInv /\ [Next]_vars => [Gones]_vars
  <2> SUFFICES ASSUME DInv, Next, NEW w \in Workers, Ends(w), Complete(w),
                      NEW a \in Retired, a \in pull[w].stable
               PROVE  vault[a] = Gone
    BY Zenon
  <2>1. FinishPull(w) /\ a \in RetiredBy(w)
    BY WhoEnds, RecordedBy
  <2>2. a \in Accounts /\ a \notin pull[w].seen /\ Watched(pull[w])
    BY <2>1, FinishFacts
  <2> QED
    BY <2>2 DEF Watched, Complete, InVault
<1> QED
  BY <1>1, DiffInvariant, PTL DEF Spec, RetiredWereGone

(***************************************************************************)
(* The events of an undisturbed pull are the changes it stored, account by *)
(* account, a retirement included; one that failed stored and tells none.  *)
(***************************************************************************)
THEOREM WhatHappenedIsTold == Spec => EventsTellTheChanges
<1> DEFINE Tells(a) ==
      LET before == account[a].profile
          after == account'[a].profile
          told(kinds) == \E k \in kinds : <<a, k>> \in recorded'
      IN /\ told({"owner"}) <=> before.owner # after.owner
         /\ told({"status", "retired"}) <=> before.status # after.status
         /\ before.auto = "on" /\ after.auto = "off" => told({"auto off"})
         /\ before.auto = "off" /\ after.auto = "on" => told({"auto on"})
         /\ told({"rotated"}) => before.rotated # after.rotated
    Tell == \A w \in Workers : Ends(w) /\ pull[w].alone =>
              \A a \in {b \in Accounts : account[b].known} : Tells(a)
<1>1. DInv /\ [Next]_vars => [Tell]_vars
  <2> SUFFICES ASSUME DInv, Next, NEW w \in Workers, Ends(w), pull[w].alone,
                      NEW a \in Accounts, account[a].known
               PROVE  Tells(a)
    <3> HIDE DEF Tells
    <3> QED
      BY Zenon
  <2>1. CASE FailPull(w)
    BY <2>1, RecordedBy
  <2>2. CASE FinishPull(w)
    <3> DEFINE before == account[a].profile
               after == account'[a].profile
    <3>1. /\ recorded' = pull[w].events \cup {<<b, "retired">> : b \in RetiredBy(w)}
          /\ pull[w] \in Pulls /\ Held(pull[w]) /\ Undisturbed(pull[w])
          /\ pull[w].seen = DOMAIN pull[w].draft
      BY <2>2, RecordedBy, FinishFacts
    <3>2. \A k : <<a, k>> \in recorded' <=> (k \in Told(pull[w], a) \/ (k = "retired" /\ a \in RetiredBy(w)))
      <4>1. \A k : <<a, k>> \in pull[w].events => k \in Kinds
        BY <3>1, PullFields
      <4> QED
        BY <3>1, <4>1 DEF Told
    <3>3. CASE a \in pull[w].seen
      <4>1. a \notin RetiredBy(w) /\ after = pull[w].draft[a].profile
        BY <2>2, <3>3, FinishFacts
      <4>2. Told(pull[w], a) = Transitions(before, after)
        BY <3>1, <3>3, <4>1 DEF Undisturbed
      <4>3. \A k : <<a, k>> \in recorded' <=> k \in Transitions(before, after)
        BY <3>2, <4>1, <4>2
      <4> HIDE DEF before, after
      <4>4. "retired" \notin Transitions(before, after)
        <5>1. Transitions(before, after) \subseteq Kinds /\ "retired" \notin Kinds
          BY TransitionsAre DEF Kinds
        <5> QED
          BY <5>1
      <4>5. /\ "owner" \in Transitions(before, after) <=> before.owner # after.owner
            /\ "status" \in Transitions(before, after) <=> before.status # after.status
            /\ before.auto = "on" /\ after.auto = "off" => "auto off" \in Transitions(before, after)
            /\ before.auto = "off" /\ after.auto = "on" => "auto on" \in Transitions(before, after)
            /\ "rotated" \in Transitions(before, after) => before.rotated # after.rotated
        BY TransitionsAre
      <4> QED
        BY <4>3, <4>4, <4>5 DEF before, after
    <3>4. CASE a \notin pull[w].seen
      <4>1. Told(pull[w], a) = {}
        BY <3>1, <3>4 DEF Held, Told
      <4>2. CASE a \in RetiredBy(w)
        <5>1. after = Deleted(before) /\ a \in Live(account)
          BY <2>2, <4>2, FinishFacts
        <5>2. before \in Profiles
          BY <5>1, RowsOf, LiveProfiles DEF Live, DInv, Tables
        <5>3. /\ before.status # "deleted" /\ after.status = "deleted" /\ after.owner = before.owner
              /\ after.auto = before.auto /\ after.rotated = before.rotated
          BY <5>1, <5>2, ProfileFields
        <5> QED
          BY <3>2, <4>1, <4>2, <5>3
      <4>3. CASE a \notin RetiredBy(w)
        <5>1. after = before
          BY <2>2, <3>4, <4>3, FinishFacts
        <5> QED
          BY <3>2, <4>1, <4>3, <5>1
      <4> QED
        BY <4>2, <4>3
    <3> QED
      BY <3>3, <3>4
  <2> QED
    BY <2>1, <2>2, WhoEnds
<1> QED
  BY <1>1, DiffInvariant, PTL DEF Spec, EventsTellTheChanges
==============================================================================
