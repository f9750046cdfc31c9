----------------------------- MODULE AccessDirectory -----------------------------
(***************************************************************************)
(* The directory the access rules read: which repositories there are, who  *)
(* holds what on them, and which vaulted credential a bot authenticates    *)
(* with.  One run of the reconcile_access command lists the repositories   *)
(* (reconcile_resources), reads the access on each (iter_access of the     *)
(* GitHub or GitLab connector into reconcile_access) and joins bots to     *)
(* accounts (link_bot_credentials).  A sweep of the engine then evaluates  *)
(* ACC-003, ACC-005, ACC-006 and ACC-007 of rules/builtin.py, whose        *)
(* findings hang on an account of the vault.                               *)
(*                                                                         *)
(* No access here was requested, so the only end a grant may have is the   *)
(* one GitLab gave with it: AccessReconcile has the requests, over a       *)
(* directory that never changes.                                           *)
(***************************************************************************)
EXTENDS Naturals, FiniteSets

CONSTANTS
  Hosts,        \* the platforms the run may be for, of {"github", "gitlab"}
  Resources,    \* repositories or projects
  Unreadable,   \* those GitHub repositories whose name BLOCKED_PATTERNS match
  Bots, Keys, Teams,  \* machine users, deploy keys or tokens, and teams or members
  Used,         \* those whose last use the platform dates, long ago
  Accounts,     \* vaulted accounts, numbered in the order of ManagedAccount.Meta
  Names,        \* the names of accounts and bots
  Username,     \* the name of each account
  Identifier,   \* what link_bot_credentials makes of a holder's identifier
  Beginnings,   \* what the platform and the vault may hold before the first run
  MaxChanges    \* bound: changes outside

Holders == Bots \cup Keys \cup Teams
NonHuman == Bots \cup Keys

Repositories == [here : BOOLEAN, tagged : BOOLEAN, archived : BOOLEAN]

ASSUME DirectoryAssumption ==
  /\ Hosts \subseteq {"github", "gitlab"}
  /\ Unreadable \subseteq Resources /\ Used \subseteq Holders
  /\ Bots \cap Keys = {} /\ Teams \cap NonHuman = {}
  /\ Accounts \subseteq Nat \ {0} /\ MaxChanges \in Nat
  /\ Username \in [Accounts -> Names] /\ Identifier \in [NonHuman -> Names]
  /\ \A b \in Beginnings : /\ b.hosted \in [Resources -> Repositories]
                           /\ b.dated \subseteq Resources \X Holders
                           /\ b.access \in [Resources \X Holders -> {"none", "read", "write"}]

VARIABLES
  host,      \* the platform
  hosted,    \* the repositories on it: gone, plain or tagged as production, archived or not
  access,    \* the role of each holder on each of them
  dated,     \* the pairs whose role ends on a date the platform knows
  row,       \* the Resource rows
  grant,     \* the AccessGrant rows
  ends,      \* those of them with an expires_at
  link,      \* Principal.managed_account
  owned,     \* the principals with a responsible_owner
  vault,     \* the ManagedAccount rows
  open,      \* the open findings of the four rules
  run,       \* the command under way
  clean,     \* history: what the register has read since it last changed
  changes

outside == <<hosted, access, dated, owned, vault, changes>>
directory == <<row, grant, ends, link>>
vars == <<host, outside, directory, open, run, clean>>
------------------------------------------------------------------------------
Gone == [here |-> FALSE, tagged |-> FALSE, archived |-> FALSE]
Unknown == [known |-> FALSE, production |-> FALSE, archived |-> FALSE]
Unlinked == 0
NotStored == [status |-> "none", stale |-> FALSE]
Idle == [pc |-> "idle", todo |-> {}, stable |-> {}]
Pairs == Resources \X Holders

\* What a role is called: one the maps know, or one of GitHub's custom roles, which may write.
Roles == {"none", "read", "write", "custom"}
Levels == {"read", "write"}
Writes(role) == role \in {"write", "custom"}

Init ==
  /\ host \in Hosts
  /\ \E b \in Beginnings :
       /\ hosted = b.hosted /\ access = b.access /\ vault = b.vault
       /\ dated = IF host = "gitlab" THEN b.dated ELSE {}
  /\ row = [r \in Resources |-> Unknown]
  /\ grant = [p \in Pairs |-> [l \in Levels |-> "none"]] /\ ends = {}
  /\ link = [h \in NonHuman |-> Unlinked] /\ owned = {}
  /\ open = {} /\ run = Idle /\ clean = {} /\ changes = 0
------------------------------------------------------------------------------
(***************************************************************************)
(* Outside: the platform, the owners an administrator records, the vault.  *)
(***************************************************************************)
Change(P) ==
  /\ changes < MaxChanges /\ changes' = changes + 1
  /\ clean' = clean \ P /\ run' = [run EXCEPT !.stable = @ \ P]
  /\ UNCHANGED <<host, directory, open>>

RepositoryChanges(r) ==
  /\ \E new \in {Gone} \cup {n \in Repositories : n.here} :
       new # hosted[r] /\ hosted' = [hosted EXCEPT ![r] = new]
  /\ Change({r} \X Holders) /\ UNCHANGED <<access, dated, owned, vault>>

\* A role is given, changed or taken back; GitLab may end it on a date, and may change its mind.
RoleChanges(r, h) ==
  /\ \E role \in Roles, until \in SUBSET {<<r, h>>} :
       /\ role # access[r, h] \/ until # dated \cap {<<r, h>>}
       /\ role = "custom" => host = "github" /\ h \notin Keys
       /\ until # {} => host = "gitlab" /\ role # "none"
       /\ access' = [access EXCEPT ![<<r, h>>] = role]
       /\ dated' = (dated \ {<<r, h>>}) \cup until
  /\ Change({<<r, h>>}) /\ UNCHANGED <<hosted, owned, vault>>

OwnerNamed(h) ==
  /\ h \notin owned /\ owned' = owned \cup {h}
  /\ Change({}) /\ UNCHANGED <<hosted, access, dated, vault>>

\* An account is stored or comes back, its rotation stops or resumes, or it is retired as it was.
AccountChanges(a) ==
  /\ \E new \in {NotStored} \cup [status : {"active", "deleted"}, stale : BOOLEAN] :
       /\ new # vault[a] /\ new # NotStored
       /\ new.status = "deleted" => vault[a] # NotStored /\ (vault[a].stale => new.stale)
       /\ vault' = [vault EXCEPT ![a] = new]
  /\ Change({}) /\ UNCHANGED <<hosted, access, dated, owned>>
------------------------------------------------------------------------------
(***************************************************************************)
(* The repositories.  GitLab is asked for projects that are not archived;  *)
(* one that is no longer listed keeps its row as it was.                   *)
(***************************************************************************)
ListedByGitHub(r) == hosted[r].here
ListedByGitLab(r) == hosted[r].here /\ ~hosted[r].archived
Listed(r) == IF host = "github" THEN ListedByGitHub(r) ELSE ListedByGitLab(r)

\* Production is taken over from the platform, and never given back.
Refreshed(r) ==
  [known |-> TRUE, production |-> row[r].production \/ hosted[r].tagged,
   archived |-> hosted[r].archived]

StartRun ==
  /\ run.pc = "idle"
  /\ row' = [r \in Resources |-> IF Listed(r) THEN Refreshed(r) ELSE row[r]]
  /\ run' = [pc |-> "access", todo |-> {r \in Resources : row'[r].known /\ ~row'[r].archived},
             stable |-> {p \in Pairs : Listed(p[1])}]
  /\ UNCHANGED <<host, outside, grant, ends, link, open, clean>>
------------------------------------------------------------------------------
(***************************************************************************)
(* The level a role is recorded as.                                        *)
(***************************************************************************)
Collaborator(role) == IF Writes(role) THEN "write" ELSE "read"
DeployKey(role) == role
\* PERMISSION_MAP takes a role it does not know for read.
Team(role) == IF role = "custom" THEN "read" ELSE role
Member(role) == role
DeployToken(role) == role

GitHubLevel(h, role) ==
  IF h \in Bots THEN Collaborator(role) ELSE IF h \in Keys THEN DeployKey(role) ELSE Team(role)
GitLabLevel(h, role) == IF h \in Keys THEN DeployToken(role) ELSE Member(role)
Level(h, role) == IF host = "github" THEN GitHubLevel(h, role) ELSE GitLabLevel(h, role)

\* The paths under a repository whose name is a blocked word are refused; one that is gone is not found.
Readable(r) == hosted[r].here /\ ~(host = "github" /\ r \in Unreadable)

Reported(r, refused) ==
  {<<h, Level(h, access[r, h])>> : h \in {g \in Holders \ refused : access[r, g] # "none"}}

\* Mutant: a holder that is still reported keeps every level it had.
ConfirmedByHolder(r, records) ==
  [p \in Pairs |->
     IF p[1] # r THEN grant[p]
     ELSE [l \in Levels |->
             CASE <<p[2], l>> \in records -> "present"
               [] grant[p][l] = "present" /\ \A k \in Levels : <<p[2], k>> \notin records -> "absent"
               [] OTHER -> grant[p][l]]]

\* reconcile_access: what is reported is there, what no longer is is marked absent.
Confirmed(r, records) ==
  [p \in Pairs |->
     IF p[1] # r THEN grant[p]
     ELSE [l \in Levels |->
             CASE <<p[2], l>> \in records -> "present"
               [] <<p[2], l>> \notin records /\ grant[p][l] = "present" -> "absent"
               [] OTHER -> grant[p][l]]]

\* A grant takes its end from the record it is created from; later records do not change it.
Ending(r, records) ==
  {<<r, p[1], p[2]>> : p \in {q \in records : /\ grant[r, q[1]][q[2]] = "none"
                                              /\ <<r, q[1]>> \in dated}}

\* Deploy tokens that GitLab will not list are none at all.
ReadAccess(r) ==
  /\ run.pc = "access" /\ r \in run.todo /\ Readable(r)
  /\ \E refused \in IF host = "gitlab" THEN {{}, Keys} ELSE {{}} :
       /\ grant' = Confirmed(r, Reported(r, refused))
       /\ ends' = ends \cup Ending(r, Reported(r, refused))
       /\ clean' = (clean \ ({r} \X refused)) \cup (run.stable \cap ({r} \X (Holders \ refused)))
  /\ run' = [run EXCEPT !.todo = @ \ {r}]
  /\ UNCHANGED <<host, outside, row, link, open>>

\* Any error on one repository leaves its grants as they were, and the run goes on.
SkipAccess(r) ==
  /\ run.pc = "access" /\ r \in run.todo
  /\ run' = [run EXCEPT !.todo = @ \ {r}]
  /\ UNCHANGED <<host, outside, directory, open, clean>>
------------------------------------------------------------------------------
Live(a) == vault[a].status = "active"
Known(h) == \E r \in Resources, l \in Levels : grant[r, h][l] # "none"
Namesakes(h) == {a \in Accounts : Live(a) /\ Username[a] = Identifier[h]}

\* Mutant: every account of the name counts, the retired ones too.
MatchesOfAll(h) == {a \in Accounts : vault[a] # NotStored /\ Username[a] = Identifier[h]}

Matches(h) == Namesakes(h)

\* Only a principal without an account is joined, and only to the one account of its name.
Link ==
  /\ run.pc = "access" /\ run.todo = {}
  /\ link' = [h \in NonHuman |->
       IF link[h] = Unlinked /\ Known(h) /\ Cardinality(Matches(h)) = 1
       THEN CHOOSE a \in Matches(h) : TRUE ELSE link[h]]
  /\ run' = Idle
  /\ UNCHANGED <<host, outside, row, grant, ends, open, clean>>
------------------------------------------------------------------------------
(***************************************************************************)
(* The rules: grants in force, grouped by principal, on the account of the *)
(* principal or else on the first live account of the vault.               *)
(***************************************************************************)
Anchor ==
  IF \E a \in Accounts : Live(a)
  THEN CHOOSE a \in Accounts : Live(a) /\ \A b \in Accounts : Live(b) => a <= b
  ELSE Unlinked

Home(h) == IF h \in NonHuman /\ link[h] # Unlinked THEN link[h] ELSE Anchor

Elevated(h) == {r \in Resources : grant[r, h]["write"] = "present"}
OnProduction(h) == {r \in Elevated(h) : row[r].production}
\* elevated_standing_access leaves out every grant that has an end.
Standing(h) == {r \in OnProduction(h) : <<r, h, "write">> \notin ends}

Anchored(rule, H) == {<<rule, h, "-", Home(h)>> : h \in {g \in H : Home(g) # Unlinked}}

BotAccessWithoutOwner == Anchored("ACC-003", {h \in NonHuman \ owned : Elevated(h) # {}})

\* Mutant: one finding for each repository.
StandingPerResource ==
  UNION {{<<"ACC-005", h, r, Home(h)>> : r \in {q \in Standing(h) : Home(h) # Unlinked}} :
           h \in Holders}

StandingProductionAccess == Anchored("ACC-005", {h \in Holders : Standing(h) # {}})

\* The account is judged by its rotation, whether it is live or retired.
BotWithUnrotatedCredentialAndWriteAccess ==
  UNION {{<<"ACC-006", h, r, link[h]>> : r \in OnProduction(h)} :
           h \in {g \in NonHuman : link[g] # Unlinked /\ vault[link[g]].stale}}

DormantAccess ==
  Anchored("ACC-007", {h \in Used : \E r \in Resources, l \in Levels : grant[r, h][l] = "present"})

Candidates ==
  BotAccessWithoutOwner \cup StandingProductionAccess
    \cup BotWithUnrotatedCredentialAndWriteAccess \cup DormantAccess

Sweep == open' = Candidates /\ UNCHANGED <<host, outside, directory, run, clean>>
------------------------------------------------------------------------------
Next ==
  \/ \E r \in Resources : RepositoryChanges(r) \/ ReadAccess(r) \/ SkipAccess(r)
  \/ \E r \in Resources, h \in Holders : RoleChanges(r, h)
  \/ \E h \in NonHuman : OwnerNamed(h)
  \/ \E a \in Accounts : AccountChanges(a)
  \/ StartRun \/ Link \/ Sweep

Spec == Init /\ [][Next]_vars
------------------------------------------------------------------------------
(***************************************************************************)
(* What the register has read since it last changed is what the platform   *)
(* has: whoever may write holds a grant in force that says so, whoever may *)
(* not holds none, through roles that change and come back.  Not covered,  *)
(* because no run reads them: archived rows, repositories that are gone or *)
(* have a blocked word for a name, tokens that are refused.  A team whose  *)
(* role has a name of its own is taken for a reader (resources/github.py). *)
(***************************************************************************)
TakenForReader(h, role) == host = "github" /\ h \in Teams /\ role = "custom"

Registered(p) ==
  /\ grant[p]["write"] = "present" <=> Writes(access[p]) /\ ~TakenForReader(p[2], access[p])
  /\ grant[p]["read"] = "present" <=> access[p] = "read" \/ TakenForReader(p[2], access[p])

RegisterMatchesPlatform == \A p \in clean : Registered(p)

(***************************************************************************)
(* "A durable, unmonitored path into production that no single team is     *)
(* looking at" (ACC-006): when a run ends, a bot that may write to         *)
(* production with a vaulted credential that does not rotate is a          *)
(* candidate, if the run read its access, and the vault has one live       *)
(* account of its name.  A bot that was joined to another account before   *)
(* is not looked at again.                                                 *)
(***************************************************************************)
PathIntoProduction(h, r) ==
  /\ <<r, h>> \in clean /\ hosted[r].tagged /\ Writes(access[r, h])
  /\ \E a \in Accounts : /\ Namesakes(h) = {a} /\ vault[a].stale
                         /\ link[h] \in {Unlinked, a}

PathIntoProductionIsReported ==
  [][run.pc = "access" /\ run'.pc = "idle" =>
       \A h \in Bots, r \in Resources :
         PathIntoProduction(h, r) =>
           \E f \in Candidates' : f[1] = "ACC-006" /\ f[2] = h /\ f[3] = r]_vars

(***************************************************************************)
(* "Access findings attach to a managed account so they share one queue"   *)
(* (_access_anchor): a finding whose access goes on leaves the queue only  *)
(* when it has lost the account it hung on, because the principal was      *)
(* joined to another or another live account now comes first in the vault, *)
(* and then the same sweep opens it on the new one, if the vault has any   *)
(* live account at all.  Standing access, for ACC-005, is access whose     *)
(* grant was created without an end: an end the platform sets or removes   *)
(* later is not taken over.                                                *)
(***************************************************************************)
GoesOn(f) ==
  LET h == f[2]
      writes == {r \in Resources : /\ <<r, h>> \in clean /\ Writes(access[r, h])
                                  /\ ~TakenForReader(h, access[r, h])}
  IN CASE f[1] = "ACC-003" -> h \notin owned /\ writes # {}
       [] f[1] = "ACC-005" -> \E r \in writes : row[r].production /\ <<r, h, "write">> \notin ends
       [] f[1] = "ACC-006" -> /\ f[3] \in writes /\ row[f[3]].production
                              /\ vault[f[4]].stale
       [] OTHER -> \E r \in Resources : <<r, h>> \in clean /\ access[r, h] # "none"

MovesWithItsAccount ==
  [][\A f \in open \ open' : GoesOn(f) =>
       /\ f[4] # Home(f[2])
       /\ Home(f[2]) # Unlinked => <<f[1], f[2], f[3], Home(f[2])>> \in open']_vars
==============================================================================
