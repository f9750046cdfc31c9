------------------------- MODULE AccessDirectoryProofs -------------------------
(***************************************************************************)
(* The register of access is what the platform has, and a bot's path into  *)
(* production is seen: for every set of repositories, holders, accounts    *)
(* and names, and either platform.                                         *)
(***************************************************************************)
EXTENDS AccessDirectory, FiniteSetTheorems, TLAPS

(***************************************************************************)
(* The inductive strengthening.  Only GitHub has custom roles, and keys    *)
(* have none; what was listed and has not changed since is recorded as     *)
(* production if it is; a finding of ACC-006 hangs on the account the bot  *)
(* is joined to, which is for good.                                        *)
(***************************************************************************)
DirectoryTypes ==
  /\ host \in {"github", "gitlab"}
  /\ hosted \in [Resources -> Repositories]
  /\ access \in [Pairs -> Roles]
  /\ run = [pc |-> run.pc, todo |-> run.todo, stable |-> run.stable]
  /\ clean \subseteq Pairs /\ run.stable \subseteq Pairs

CustomOnGitHubOnly ==
  \A p \in Pairs : access[p] = "custom" => host = "github" /\ p[2] \notin Keys

ProductionIsRecorded ==
  \A p \in clean \cup run.stable : hosted[p[1]].tagged => row[p[1]].production = TRUE

HangsWell(f) ==
  \/ \E h \in NonHuman : f = <<"ACC-003", h, "-", f[4]>>
  \/ \E h \in Holders : f = <<"ACC-005", h, "-", f[4]>>
  \/ \E h \in NonHuman, r \in Resources :
       f = <<"ACC-006", h, r, f[4]>> /\ link[h] = f[4]
  \/ \E h \in Used : f = <<"ACC-007", h, "-", f[4]>>

FindingsHangWell == \A f \in open : HangsWell(f) /\ f[4] # Unlinked

DInv ==
  /\ DirectoryTypes /\ CustomOnGitHubOnly /\ ProductionIsRecorded
  /\ RegisterMatchesPlatform /\ FindingsHangWell
------------------------------------------------------------------------------
LEMMA DirectoryInit == Init => DInv
<1> SUFFICES ASSUME Init PROVE DInv
  OBVIOUS
<1>1. PICK b \in Beginnings : hosted = b.hosted /\ access = b.access
  BY DEF Init
<1>2. access \in [Pairs -> {"none", "read", "write"}] /\ hosted \in [Resources -> Repositories]
  BY <1>1, DirectoryAssumption DEF Pairs
<1>3. DirectoryTypes
  BY <1>2, DirectoryAssumption DEF Init, DirectoryTypes, Roles, Idle
<1>4. CustomOnGitHubOnly
  BY <1>2 DEF CustomOnGitHubOnly
<1> QED
  BY <1>3, <1>4 DEF Init, Idle, DInv, ProductionIsRecorded, RegisterMatchesPlatform, FindingsHangWell

(***************************************************************************)
(* The level a role is recorded as says whether it may write, except for a *)
(* team whose role has a name of its own.                                  *)
(***************************************************************************)
LEMMA LevelTellsTheRole ==
  ASSUME DirectoryTypes, CustomOnGitHubOnly, NEW r \in Resources, NEW h \in Holders,
         access[r, h] # "none"
  PROVE  /\ Level(h, access[r, h]) = "write"
              <=> Writes(access[r, h]) /\ ~TakenForReader(h, access[r, h])
         /\ Level(h, access[r, h]) = "read"
              <=> access[r, h] = "read" \/ TakenForReader(h, access[r, h])
<1> DEFINE role == access[r, h]
<1>1. role \in Roles /\ (role = "custom" => host = "github" /\ h \notin Keys)
  <2>1. <<r, h>> \in Pairs
    BY DEF Pairs
  <2> QED
    BY <2>1 DEF DirectoryTypes, CustomOnGitHubOnly
<1>2. h \in Bots => h \notin Teams /\ h \notin Keys
  BY DirectoryAssumption DEF NonHuman
<1>3. h \in Keys => h \notin Teams
  BY DirectoryAssumption DEF NonHuman
<1>4. h \in Bots \/ h \in Keys \/ h \in Teams
  BY DEF Holders
<1> HIDE DEF role
<1>5. CASE host = "github"
  BY <1>1, <1>2, <1>3, <1>4, <1>5
     DEF Level, GitHubLevel, Collaborator, DeployKey, Team, Writes, TakenForReader, Roles, role
<1>6. CASE host = "gitlab"
  BY <1>1, <1>6 DEF Level, GitLabLevel, DeployToken, Member, Writes, TakenForReader, Roles, role
<1> QED
  BY <1>5, <1>6 DEF DirectoryTypes
------------------------------------------------------------------------------
(***************************************************************************)
(* What changes outside takes its pairs out of what was read.              *)
(***************************************************************************)
LEMMA DirectoryChanges ==
  ASSUME DInv,
         \/ \E r \in Resources : RepositoryChanges(r)
         \/ \E r \in Resources, h \in Holders : RoleChanges(r, h)
         \/ \E h \in NonHuman : OwnerNamed(h)
         \/ \E a \in Accounts : AccountChanges(a)
  PROVE  DInv'
<1>1. ASSUME NEW r \in Resources, RepositoryChanges(r) PROVE DInv'
  <2>1. PICK new \in Repositories : hosted' = [hosted EXCEPT ![r] = new]
    BY <1>1 DEF RepositoryChanges, Repositories, Gone
  <2>2. UNCHANGED <<host, access, row, grant, ends, link, open>>
    BY <1>1 DEF RepositoryChanges, Change, directory
  <2>3. clean' = clean \ ({r} \X Holders) /\ run' = [run EXCEPT !.stable = @ \ ({r} \X Holders)]
    BY <1>1 DEF RepositoryChanges, Change
  <2>4. DirectoryTypes'
    BY <2>1, <2>2, <2>3 DEF DInv, DirectoryTypes
  <2>5. run'.stable = run.stable \ ({r} \X Holders)
    BY <2>3 DEF DInv, DirectoryTypes
  <2>6. ProductionIsRecorded'
    <3> SUFFICES ASSUME NEW p \in clean' \cup run'.stable, hosted'[p[1]].tagged
                 PROVE  row'[p[1]].production = TRUE
      BY DEF ProductionIsRecorded
    <3>1. p \in clean \cup run.stable /\ p \in Pairs /\ p \notin {r} \X Holders
      BY <2>3, <2>5 DEF DInv, DirectoryTypes
    <3>2. p[1] \in Resources /\ p[1] # r
      BY <3>1 DEF Pairs
    <3>3. hosted'[p[1]] = hosted[p[1]]
      BY <3>2, <2>1 DEF DInv, DirectoryTypes
    <3> QED
      BY <3>1, <3>3, <2>2 DEF DInv, ProductionIsRecorded
  <2>7. RegisterMatchesPlatform'
    BY <2>2, <2>3 DEF DInv, RegisterMatchesPlatform, Registered, TakenForReader
  <2> QED
    BY <2>2, <2>4, <2>6, <2>7 DEF DInv, CustomOnGitHubOnly, FindingsHangWell, HangsWell
<1>2. ASSUME NEW r \in Resources, NEW h \in Holders, RoleChanges(r, h) PROVE DInv'
  <2>1. PICK role \in Roles : /\ role = "custom" => host = "github" /\ h \notin Keys
                              /\ access' = [access EXCEPT ![<<r, h>>] = role]
    BY <1>2 DEF RoleChanges
  <2>2. UNCHANGED <<host, hosted, row, grant, link, open>>
    BY <1>2 DEF RoleChanges, Change, directory
  <2>3. clean' = clean \ {<<r, h>>} /\ run' = [run EXCEPT !.stable = @ \ {<<r, h>>}]
    BY <1>2 DEF RoleChanges, Change
  <2>4. access' \in [Pairs -> Roles] /\ \A p \in Pairs \ {<<r, h>>} : access'[p] = access[p]
    BY <2>1 DEF DInv, DirectoryTypes
  <2>5. DirectoryTypes'
    BY <2>2, <2>3, <2>4 DEF DInv, DirectoryTypes
  <2>6. CustomOnGitHubOnly'
    <3> SUFFICES ASSUME NEW p \in Pairs, access'[p] = "custom"
                 PROVE  host' = "github" /\ p[2] \notin Keys
      BY DEF CustomOnGitHubOnly
    <3>1. CASE p = <<r, h>>
      <4>1. access'[p] = role
        BY <2>1, <3>1 DEF DInv, DirectoryTypes
      <4>2. p[2] = h
        BY <3>1
      <4> QED
        BY <2>1, <2>2, <4>1, <4>2
    <3>2. CASE p # <<r, h>>
      BY <2>2, <2>4, <3>2 DEF DInv, CustomOnGitHubOnly
    <3> QED
      BY <3>1, <3>2
  <2>7. clean' \subseteq clean /\ run'.stable \subseteq run.stable
    BY <2>3 DEF DInv, DirectoryTypes
  <2>8. ProductionIsRecorded'
    BY <2>2, <2>7 DEF DInv, ProductionIsRecorded
  <2>9. RegisterMatchesPlatform'
    <3> SUFFICES ASSUME NEW p \in clean' PROVE Registered(p)'
      BY DEF RegisterMatchesPlatform
    <3>1. p \in clean /\ p \in Pairs \ {<<r, h>>}
      BY <2>3 DEF DInv, DirectoryTypes
    <3>2. access'[p] = access[p]
      BY <3>1, <2>4
    <3> QED
      BY <3>1, <3>2, <2>2 DEF DInv, RegisterMatchesPlatform, Registered, TakenForReader
  <2> QED
    BY <2>2, <2>5, <2>6, <2>8, <2>9 DEF DInv, FindingsHangWell, HangsWell
<1>3. ASSUME \/ \E h \in NonHuman : OwnerNamed(h)
             \/ \E a \in Accounts : AccountChanges(a)
      PROVE  DInv'
  <2>1. UNCHANGED <<host, hosted, access, row, grant, link, open>>
    BY <1>3 DEF OwnerNamed, AccountChanges, Change, directory
  <2>2. clean' = clean /\ run' = [run EXCEPT !.stable = @ \ {}]
    BY <1>3 DEF OwnerNamed, AccountChanges, Change
  <2>3. run'.stable = run.stable /\ DirectoryTypes'
    BY <2>1, <2>2 DEF DInv, DirectoryTypes
  <2> QED
    BY <2>1, <2>2, <2>3 DEF DInv, CustomOnGitHubOnly, ProductionIsRecorded,
       RegisterMatchesPlatform, Registered, TakenForReader, FindingsHangWell, HangsWell
<1> QED
  BY <1>1, <1>2, <1>3

(***************************************************************************)
(* A run takes production over from the platform before it reads access.   *)
(***************************************************************************)
LEMMA DirectoryStartRun == DInv /\ StartRun => DInv'
<1> SUFFICES ASSUME DInv, StartRun PROVE DInv'
  OBVIOUS
<1>1. UNCHANGED <<host, hosted, access, grant, link, open, clean>>
  BY DEF StartRun, outside
<1>2. /\ row' = [r \in Resources |-> IF Listed(r) THEN Refreshed(r) ELSE row[r]]
      /\ run'.stable = {p \in Pairs : Listed(p[1])}
      /\ run' = [pc |-> run'.pc, todo |-> run'.todo, stable |-> run'.stable]
  BY DEF StartRun
<1>3. DirectoryTypes'
  BY <1>1, <1>2 DEF DInv, DirectoryTypes
<1>4. ProductionIsRecorded'
  <2> SUFFICES ASSUME NEW p \in clean' \cup run'.stable, hosted'[p[1]].tagged
               PROVE  row'[p[1]].production = TRUE
    BY DEF ProductionIsRecorded
  <2>1. p \in Pairs /\ p[1] \in Resources
    BY <1>1, <1>2 DEF DInv, DirectoryTypes, Pairs
  <2>2. CASE Listed(p[1])
    BY <1>1, <1>2, <2>1, <2>2 DEF Refreshed
  <2>3. CASE ~Listed(p[1])
    <3>1. p \in clean
      BY <1>1, <1>2, <2>3
    <3> QED
      BY <1>1, <1>2, <2>1, <2>3, <3>1 DEF DInv, ProductionIsRecorded
  <2> QED
    BY <2>2, <2>3
<1> QED
  BY <1>1, <1>3, <1>4 DEF DInv, CustomOnGitHubOnly, RegisterMatchesPlatform, Registered,
     TakenForReader, FindingsHangWell, HangsWell

(***************************************************************************)
(* Reading one repository: what was answered for is registered as it is,   *)
(* at whatever level it was before.                                        *)
(***************************************************************************)
LEMMA DirectoryReadAccess ==
  ASSUME DInv, NEW r \in Resources, ReadAccess(r)
  PROVE  DInv'
<1>1. PICK refused \in SUBSET Keys :
        /\ grant' = Confirmed(r, Reported(r, refused))
        /\ clean' = (clean \ ({r} \X refused)) \cup (run.stable \cap ({r} \X (Holders \ refused)))
  BY DEF ReadAccess
<1>2. UNCHANGED <<host, hosted, access, row, link, open>>
  BY DEF ReadAccess, outside
<1>3. run' = [run EXCEPT !.todo = @ \ {r}] /\ run'.stable = run.stable
  BY DEF ReadAccess, DInv, DirectoryTypes
<1>4. clean' \subseteq clean \cup run.stable /\ clean' \subseteq Pairs
  BY <1>1 DEF DInv, DirectoryTypes
<1>5. DirectoryTypes'
  BY <1>2, <1>3, <1>4 DEF DInv, DirectoryTypes
<1>6. ProductionIsRecorded'
  BY <1>2, <1>3, <1>4 DEF DInv, ProductionIsRecorded
<1>7. RegisterMatchesPlatform'
  <2> SUFFICES ASSUME NEW p \in clean' PROVE Registered(p)'
    BY DEF RegisterMatchesPlatform
  <2>1. PICK q \in Resources, h \in Holders : p = <<q, h>>
    BY <1>4 DEF Pairs
  <2>2. <<q, h>> \in Pairs /\ p[1] = q /\ p[2] = h
    BY <2>1 DEF Pairs
  <2>3. CASE q # r
    <3>1. p \in clean
      BY <1>1, <2>1, <2>3
    <3>2. grant'[p] = grant[p]
      BY <1>1, <2>1, <2>2, <2>3 DEF Confirmed
    <3> QED
      BY <1>2, <3>1, <3>2 DEF DInv, RegisterMatchesPlatform, Registered, TakenForReader
  <2>4. CASE q = r
    <3>1. h \notin refused
      BY <1>1, <2>1, <2>4
    <3>2. \A l \in Levels : grant'[p][l] = "present"
                              <=> access[r, h] # "none" /\ Level(h, access[r, h]) = l
      <4> TAKE l \in Levels
      <4>1. <<h, l>> \in Reported(r, refused)
              <=> access[r, h] # "none" /\ Level(h, access[r, h]) = l
        BY <3>1 DEF Reported
      <4>2. grant'[p][l] = CASE <<h, l>> \in Reported(r, refused) -> "present"
                             [] <<h, l>> \notin Reported(r, refused) /\ grant[p][l] = "present" -> "absent"
                             [] OTHER -> grant[p][l]
        BY <1>1, <2>1, <2>2, <2>4 DEF Confirmed
      <4> QED
        BY <4>1, <4>2
    <3>3. access' = access /\ access[p] = access[r, h] /\ host' = host
      BY <1>2, <2>1, <2>4
    <3>4. CASE access[r, h] = "none"
      BY <2>2, <3>2, <3>3, <3>4 DEF Registered, Writes, TakenForReader, Levels
    <3>5. CASE access[r, h] # "none"
      <4>1. /\ Level(h, access[r, h]) = "write"
                 <=> Writes(access[r, h]) /\ ~TakenForReader(h, access[r, h])
            /\ Level(h, access[r, h]) = "read"
                 <=> access[r, h] = "read" \/ TakenForReader(h, access[r, h])
        <5>1. DirectoryTypes /\ CustomOnGitHubOnly
          BY DEF DInv
        <5> QED
          BY <3>5, <5>1, LevelTellsTheRole
      <4>2. TakenForReader(h, access[r, h])' <=> TakenForReader(h, access[r, h])
        BY <1>2 DEF TakenForReader
      <4>3. "read" \in Levels /\ "write" \in Levels
        BY DEF Levels
      <4> QED
        BY <2>2, <3>2, <3>3, <3>5, <4>1, <4>2, <4>3 DEF Registered, Writes
    <3> QED
      BY <3>4, <3>5
  <2> QED
    BY <2>3, <2>4
<1> QED
  BY <1>2, <1>5, <1>6, <1>7 DEF DInv, CustomOnGitHubOnly, FindingsHangWell, HangsWell

(***************************************************************************)
(* A bot that has an account keeps it, so its findings still hang on it.   *)
(***************************************************************************)
LEMMA DirectoryLink == DInv /\ Link => DInv'
<1> SUFFICES ASSUME DInv, Link PROVE DInv'
  OBVIOUS
<1>1. UNCHANGED <<host, hosted, access, row, grant, open, clean>> /\ run' = Idle
  BY DEF Link, outside
<1>2. \A h \in NonHuman : link[h] # Unlinked => link'[h] = link[h]
  BY DEF Link
<1>3. DirectoryTypes'
  BY <1>1 DEF DInv, DirectoryTypes, Idle
<1>4. FindingsHangWell'
  <2> SUFFICES ASSUME NEW f \in open PROVE HangsWell(f)' /\ f[4] # Unlinked
    BY <1>1 DEF FindingsHangWell, Unlinked
  <2>1. HangsWell(f) /\ f[4] # Unlinked
    BY DEF DInv, FindingsHangWell
  <2> QED
    BY <1>2, <2>1 DEF HangsWell
<1>5. ProductionIsRecorded'
  BY <1>1 DEF DInv, ProductionIsRecorded, Idle
<1> QED
  BY <1>1, <1>3, <1>4, <1>5 DEF DInv, CustomOnGitHubOnly, RegisterMatchesPlatform, Registered,
     TakenForReader

(***************************************************************************)
(* Every candidate of the four rules hangs on an account.                  *)
(***************************************************************************)
LEMMA CandidatesHangWell == \A f \in Candidates : HangsWell(f) /\ f[4] # Unlinked
<1> SUFFICES ASSUME NEW f \in Candidates PROVE HangsWell(f) /\ f[4] # Unlinked
  OBVIOUS
<1>1. CASE f \in BotAccessWithoutOwner
  <2>1. PICK h \in NonHuman : Home(h) # Unlinked /\ f = <<"ACC-003", h, "-", Home(h)>>
    BY <1>1 DEF BotAccessWithoutOwner, Anchored
  <2> QED
    BY <2>1 DEF HangsWell
<1>2. CASE f \in StandingProductionAccess
  <2>1. PICK h \in Holders : Home(h) # Unlinked /\ f = <<"ACC-005", h, "-", Home(h)>>
    BY <1>2 DEF StandingProductionAccess, Anchored
  <2> QED
    BY <2>1 DEF HangsWell
<1>3. CASE f \in BotWithUnrotatedCredentialAndWriteAccess
  <2>1. PICK h \in NonHuman, r \in Resources :
          link[h] # Unlinked /\ f = <<"ACC-006", h, r, link[h]>>
    BY <1>3 DEF BotWithUnrotatedCredentialAndWriteAccess, OnProduction, Elevated
  <2> QED
    BY <2>1 DEF HangsWell
<1>4. CASE f \in DormantAccess
  <2>1. PICK h \in Used : Home(h) # Unlinked /\ f = <<"ACC-007", h, "-", Home(h)>>
    BY <1>4 DEF DormantAccess, Anchored
  <2> QED
    BY <2>1 DEF HangsWell
<1> QED
  BY <1>1, <1>2, <1>3, <1>4 DEF Candidates

LEMMA DirectoryNext == DInv /\ [Next]_vars => DInv'
<1> SUFFICES ASSUME DInv, [Next]_vars PROVE DInv'
  OBVIOUS
<1>1. CASE \/ \E r \in Resources : RepositoryChanges(r)
           \/ \E r \in Resources, h \in Holders : RoleChanges(r, h)
           \/ \E h \in NonHuman : OwnerNamed(h)
           \/ \E a \in Accounts : AccountChanges(a)
  BY <1>1, DirectoryChanges
<1>2. ASSUME NEW r \in Resources, ReadAccess(r) PROVE DInv'
  BY <1>2, DirectoryReadAccess
<1>3. ASSUME NEW r \in Resources, SkipAccess(r) PROVE DInv'
  <2>1. UNCHANGED <<host, hosted, access, row, grant, link, open, clean>>
    BY <1>3 DEF SkipAccess, outside, directory
  <2>2. run' = [run EXCEPT !.todo = @ \ {r}] /\ run'.stable = run.stable
    BY <1>3 DEF SkipAccess, DInv, DirectoryTypes
  <2>3. DirectoryTypes'
    BY <2>1, <2>2 DEF DInv, DirectoryTypes
  <2>4. CustomOnGitHubOnly' /\ ProductionIsRecorded'
    BY <2>1, <2>2 DEF DInv, CustomOnGitHubOnly, ProductionIsRecorded
  <2>5. RegisterMatchesPlatform'
    BY <2>1 DEF DInv, RegisterMatchesPlatform, Registered, TakenForReader
  <2>6. FindingsHangWell'
    BY <2>1 DEF DInv, FindingsHangWell, HangsWell
  <2> QED
    BY <2>3, <2>4, <2>5, <2>6 DEF DInv
<1>4. CASE StartRun
  BY <1>4, DirectoryStartRun
<1>5. CASE Link
  BY <1>5, DirectoryLink
<1>6. CASE Sweep
  <2>1. open' = Candidates /\ UNCHANGED <<host, hosted, access, row, grant, link, run, clean>>
    BY <1>6 DEF Sweep, outside, directory
  <2>2. FindingsHangWell'
    BY <2>1, CandidatesHangWell DEF FindingsHangWell, HangsWell, Unlinked
  <2> QED
    BY <2>1, <2>2 DEF DInv, DirectoryTypes, CustomOnGitHubOnly, ProductionIsRecorded,
       RegisterMatchesPlatform, Registered, TakenForReader
<1>7. CASE UNCHANGED vars
  BY <1>7 DEF vars, outside, directory, DInv, DirectoryTypes, CustomOnGitHubOnly,
     ProductionIsRecorded, RegisterMatchesPlatform, Registered, TakenForReader, FindingsHangWell,
     HangsWell
<1> QED
  BY <1>1, <1>2, <1>3, <1>4, <1>5, <1>6, <1>7 DEF Next

LEMMA DirectoryInvariant == Spec => []DInv
<1>1. Init => DInv
  BY DirectoryInit
<1>2. DInv /\ [Next]_vars => DInv'
  BY DirectoryNext
<1> QED
  BY <1>1, <1>2, PTL DEF Spec
------------------------------------------------------------------------------
(***************************************************************************)
(* The register says of every access what the platform says, if it has     *)
(* been read since it changed: reconcile_access marks each level it no     *)
(* longer sees and unmarks each one it sees again.                         *)
(***************************************************************************)
THEOREM RegisterIsRight == Spec => []RegisterMatchesPlatform
<1>1. DInv => RegisterMatchesPlatform
  BY DEF DInv
<1> QED
  BY <1>1, DirectoryInvariant, PTL

(***************************************************************************)
(* The step that ends a run, link_bot_credentials, joins the bot to the    *)
(* one live account of its name, if it has none, and ACC-006 then sees     *)
(* both the role and the account.                                          *)
(***************************************************************************)
LEMMA LinkReportsThePath ==
  ASSUME DInv, Link, NEW h \in Bots, NEW r \in Resources, PathIntoProduction(h, r)
  PROVE  <<"ACC-006", h, r, link'[h]>> \in Candidates'
<1>1. PICK a \in Accounts : Namesakes(h) = {a} /\ vault[a].stale /\ link[h] \in {Unlinked, a}
  BY DEF PathIntoProduction
<1>2. h \in NonHuman /\ h \in Holders /\ h \notin Teams
  BY DirectoryAssumption DEF NonHuman, Holders
<1>3. UNCHANGED <<vault, row, grant>>
  BY DEF Link, outside
<1>4. <<r, h>> \in clean /\ hosted[r].tagged /\ Writes(access[r, h])
  BY DEF PathIntoProduction
<1>5. grant[r, h]["write"] = "present"
  <2>1. Registered(<<r, h>>)
    BY <1>4 DEF DInv, RegisterMatchesPlatform
  <2>2. ~TakenForReader(h, access[r, h])
    BY <1>2 DEF TakenForReader
  <2> QED
    BY <1>4, <2>1, <2>2 DEF Registered
<1>6. row[r].production
  <2>1. row[<<r, h>>[1]].production = TRUE
    BY <1>4 DEF DInv, ProductionIsRecorded
  <2> QED
    BY <2>1
<1>7. link'[h] = a
  <2>1. Known(h)
    BY <1>5 DEF Known, Levels
  <2>2. Matches(h) = {a} /\ Cardinality({a}) = 1
    BY <1>1, FS_Singleton DEF Matches
  <2>3. (CHOOSE b \in {a} : TRUE) = a
    OBVIOUS
  <2>4. link'[h] = IF link[h] = Unlinked THEN a ELSE link[h]
    BY <1>2, <2>1, <2>2, <2>3 DEF Link
  <2> QED
    BY <1>1, <2>4
<1>8. a # Unlinked
  BY DirectoryAssumption DEF Unlinked
<1>9. r \in OnProduction(h)'
  BY <1>3, <1>5, <1>6 DEF OnProduction, Elevated
<1>10. h \in {g \in NonHuman : link'[g] # Unlinked /\ vault'[link'[g]].stale}
  BY <1>1, <1>2, <1>3, <1>7, <1>8
<1>11. <<"ACC-006", h, r, link'[h]>> \in BotWithUnrotatedCredentialAndWriteAccess'
  BY <1>9, <1>10 DEF BotWithUnrotatedCredentialAndWriteAccess, Unlinked
<1> QED
  BY <1>11 DEF Candidates

(***************************************************************************)
(* A bot's unrotated path into production is a candidate of ACC-006 when   *)
(* the run that read it ends.                                              *)
(***************************************************************************)
THEOREM PathIsAlwaysReported == Spec => PathIntoProductionIsReported
<1> DEFINE Reports ==
      run.pc = "access" /\ run'.pc = "idle" =>
        \A h \in Bots, r \in Resources :
          PathIntoProduction(h, r) =>
            \E f \in Candidates' : f[1] = "ACC-006" /\ f[2] = h /\ f[3] = r
<1>1. DInv /\ [Next]_vars => [Reports]_vars
  <2> SUFFICES ASSUME DInv, [Next]_vars, run.pc = "access", run'.pc = "idle",
                      NEW h \in Bots, NEW r \in Resources, PathIntoProduction(h, r)
               PROVE  \E f \in Candidates' : f[1] = "ACC-006" /\ f[2] = h /\ f[3] = r
    OBVIOUS
  <2>1. Link
    <3>1. run = [pc |-> run.pc, todo |-> run.todo, stable |-> run.stable]
      BY DEF DInv, DirectoryTypes
    <3>2. run'.pc = run.pc \/ StartRun \/ Link
      BY <3>1 DEF Next, RepositoryChanges, RoleChanges, OwnerNamed, AccountChanges, Change,
         ReadAccess, SkipAccess, Sweep, vars
    <3> QED
      BY <3>2 DEF StartRun
  <2>2. <<"ACC-006", h, r, link'[h]>> \in Candidates'
    BY <2>1, LinkReportsThePath
  <2> WITNESS <<"ACC-006", h, r, link'[h]>> \in Candidates'
  <2> QED
    OBVIOUS
<1> QED
  BY <1>1, DirectoryInvariant, PTL DEF Spec, PathIntoProductionIsReported

(***************************************************************************)
(* A finding that goes on is a candidate again, on the account that is its *)
(* holder's now.                                                           *)
(***************************************************************************)
LEMMA GoesOnIsCandidate ==
  ASSUME DInv, NEW f \in open, GoesOn(f), Home(f[2]) # Unlinked
  PROVE  <<f[1], f[2], f[3], Home(f[2])>> \in Candidates
<1> DEFINE Certain(h, r) == <<r, h>> \in clean /\ Writes(access[r, h]) /\ ~TakenForReader(h, access[r, h])
<1>1. HangsWell(f) /\ f[4] # Unlinked
  BY DEF DInv, FindingsHangWell
<1>3. ASSUME NEW h \in Holders, NEW r \in Resources, Certain(h, r) PROVE r \in Elevated(h)
  BY <1>3 DEF DInv, RegisterMatchesPlatform, Registered, Elevated
<1>4. NonHuman \subseteq Holders
  BY DEF NonHuman, Holders
<1>5. CASE \E h \in NonHuman : f = <<"ACC-003", h, "-", f[4]>>
  <2>1. PICK h \in NonHuman : f = <<"ACC-003", h, "-", f[4]>>
    BY <1>5
  <2>2. f[1] = "ACC-003" /\ f[2] = h
    BY <2>1
  <2>3. PICK r \in Resources : h \notin owned /\ Certain(h, r)
    BY <2>2 DEF GoesOn
  <2>4. <<f[1], f[2], f[3], Home(f[2])>> = <<"ACC-003", h, "-", Home(h)>> /\ Home(h) # Unlinked
    BY <2>1, <2>2
  <2> QED
    BY <1>3, <1>4, <2>3, <2>4 DEF Candidates, BotAccessWithoutOwner, Anchored
<1>6. CASE \E h \in Holders : f = <<"ACC-005", h, "-", f[4]>>
  <2>1. PICK h \in Holders : f = <<"ACC-005", h, "-", f[4]>>
    BY <1>6
  <2>2. f[1] = "ACC-005" /\ f[2] = h
    BY <2>1
  <2>3. PICK r \in Resources :
          Certain(h, r) /\ row[r].production /\ <<r, h, "write">> \notin ends
    BY <2>2 DEF GoesOn
  <2>4. <<f[1], f[2], f[3], Home(f[2])>> = <<"ACC-005", h, "-", Home(h)>> /\ Home(h) # Unlinked
    BY <2>1, <2>2
  <2>5. r \in Standing(h)
    BY <1>3, <2>3 DEF OnProduction, Standing
  <2> QED
    BY <2>4, <2>5 DEF Candidates, StandingProductionAccess, Anchored
<1>7. CASE \E h \in NonHuman, r \in Resources : f = <<"ACC-006", h, r, f[4]>> /\ link[h] = f[4]
  <2>1. PICK h \in NonHuman, r \in Resources : f = <<"ACC-006", h, r, f[4]>> /\ link[h] = f[4]
    BY <1>7
  <2>2. f[1] = "ACC-006" /\ f[2] = h /\ f[3] = r
    BY <2>1
  <2>3. Certain(h, r) /\ row[r].production /\ vault[f[4]].stale
    BY <2>2 DEF GoesOn
  <2>4. r \in OnProduction(h)
    BY <1>3, <1>4, <2>3 DEF OnProduction
  <2>5. /\ link[h] # Unlinked /\ vault[link[h]].stale
        /\ <<f[1], f[2], f[3], Home(f[2])>> = <<"ACC-006", h, r, link[h]>>
    BY <1>1, <2>1, <2>2, <2>3 DEF Home
  <2>6. <<f[1], f[2], f[3], Home(f[2])>> \in {<<"ACC-006", h, q, link[h]>> : q \in OnProduction(h)}
    BY <2>4, <2>5
  <2>7. <<f[1], f[2], f[3], Home(f[2])>> \in BotWithUnrotatedCredentialAndWriteAccess
    BY <2>5, <2>6 DEF BotWithUnrotatedCredentialAndWriteAccess
  <2> QED
    BY <2>7 DEF Candidates
<1>8. CASE \E h \in Used : f = <<"ACC-007", h, "-", f[4]>>
  <2>1. PICK h \in Used : f = <<"ACC-007", h, "-", f[4]>>
    BY <1>8
  <2>2. f[1] = "ACC-007" /\ f[2] = h
    BY <2>1
  <2>3. PICK r \in Resources : <<r, h>> \in clean /\ access[r, h] # "none"
    BY <2>2 DEF GoesOn
  <2>4. \E l \in Levels : grant[r, h][l] = "present"
    <3>1. access[r, h] \in Roles
      BY <2>3 DEF DInv, DirectoryTypes
    <3>2. Registered(<<r, h>>)
      BY <2>3 DEF DInv, RegisterMatchesPlatform
    <3> QED
      BY <2>3, <3>1, <3>2 DEF Registered, Roles, Writes, Levels
  <2>5. <<f[1], f[2], f[3], Home(f[2])>> = <<"ACC-007", h, "-", Home(h)>> /\ Home(h) # Unlinked
    BY <2>1, <2>2
  <2> QED
    BY <2>4, <2>5 DEF Candidates, DormantAccess, Anchored
<1> QED
  BY <1>1, <1>5, <1>6, <1>7, <1>8 DEF HangsWell

(***************************************************************************)
(* An access finding whose access goes on closes only because it has lost  *)
(* the account it hung on, and opens on the new one in the same sweep.     *)
(***************************************************************************)
THEOREM AccessFindingsMoveWithTheirAccount == Spec => MovesWithItsAccount
<1> DEFINE Moved(f) == <<f[1], f[2], f[3], Home(f[2])>>
           Moves == \A f \in open \ open' : GoesOn(f) =>
                      /\ f[4] # Home(f[2])
                      /\ Home(f[2]) # Unlinked => Moved(f) \in open'
<1>1. DInv /\ [Next]_vars => [Moves]_vars
  <2> SUFFICES ASSUME DInv, [Next]_vars, NEW f \in open \ open', GoesOn(f)
               PROVE  f[4] # Home(f[2]) /\ (Home(f[2]) # Unlinked => Moved(f) \in open')
    OBVIOUS
  <2>1. open' = open \/ open' = Candidates
    BY DEF Next, RepositoryChanges, RoleChanges, OwnerNamed, AccountChanges, Change,
       StartRun, ReadAccess, SkipAccess, Link, Sweep, vars
  <2>2. open' = Candidates /\ f \notin Candidates
    BY <2>1
  <2>3. HangsWell(f) /\ f[4] # Unlinked
    BY DEF DInv, FindingsHangWell
  <2>4. f = <<f[1], f[2], f[3], f[4]>>
    BY <2>3 DEF HangsWell
  <2>5. Home(f[2]) # Unlinked => Moved(f) \in Candidates
    BY GoesOnIsCandidate
  <2>6. f[4] # Home(f[2])
    BY <2>2, <2>3, <2>4, <2>5
  <2> QED
    BY <2>2, <2>5, <2>6
<1> QED
  BY <1>1, DirectoryInvariant, PTL DEF Spec, MovesWithItsAccount
==============================================================================
