-------------------------- MODULE MCAccessWorkflow --------------------------
(***************************************************************************)
(* Small instances of AccessWorkflow: a developer and a bot asking for     *)
(* write access to a production repository, a sandbox, or dotfiles.         *)
(***************************************************************************)
EXTENDS AccessWorkflow, TLC

CONSTANTS r1, r2, w1, w2, dev, lead, owner, sec, nobody, blank

MCPeople == {dev, lead, owner, sec}
LeadOnly == {lead}
OwnerOnly == {owner}
OwnerAndSec == {owner, sec}
AllButLead == {dev, owner, sec}

Developer == [type |-> "developer", identities |-> {dev}, owner |-> nobody,
              team |-> "payments", active |-> TRUE]
Robot == [type |-> "bot", identities |-> {}, owner |-> lead,
          team |-> nobody, active |-> TRUE]

Repository == [id |-> "payments-core", platform |-> "github", production |-> TRUE,
               criticality |-> "critical", archived |-> FALSE, owner |-> owner]
Sandbox == [id |-> "sandbox", platform |-> "github", production |-> FALSE,
            criticality |-> "low", archived |-> FALSE, owner |-> owner]
Dotfiles == [id |-> "dotfiles", platform |-> "gitlab", production |-> FALSE,
             criticality |-> "low", archived |-> FALSE, owner |-> owner]
Scratch == [Sandbox EXCEPT !.id = "scratch"]

MCApprover ==
  (owner :> [groups |-> {"repo-owners"}, independent |-> FALSE, team |-> "payments"]) @@
  (sec   :> [groups |-> {"security"}, independent |-> TRUE, team |-> "security"]) @@
  [p \in {dev, lead} |-> [groups |-> {"repo-owners"}, independent |-> FALSE, team |-> nobody]]

CatchAll ==
  [enabled |-> TRUE, resource |-> blank, platform |-> blank, productionOnly |-> FALSE,
   minimumCriticality |-> blank, levels |-> {}, types |-> {}, approvalsRequired |-> 1,
   maximumDays |-> 2, approverGroups |-> {}, requireOwnerForBots |-> FALSE,
   standingAllowed |-> FALSE, requireResourceOwner |-> FALSE]

\* Two approvals from entitled groups, one day; standing access only on the sandbox.
Production ==
  [CatchAll EXCEPT !.platform = "github", !.productionOnly = TRUE, !.approvalsRequired = 2,
                   !.maximumDays = 1, !.approverGroups = {"repo-owners", "security"},
                   !.requireOwnerForBots = TRUE]
Playground == [CatchAll EXCEPT !.resource = "sandbox", !.standingAllowed = TRUE]

UsualPolicies == <<CatchAll, Playground, Production>>
\* Without the catch-all no policy governs the dotfiles.
PoliciesWithGap == <<Playground, Production>>
\* Nor does any policy but this one govern the scratch repository, for zero days at most.
PoliciesWithGapAndZero ==
  <<Playground, Production, [CatchAll EXCEPT !.resource = "scratch", !.maximumDays = 0]>>

OneDeveloper == {Developer}
\* The bot without an owner may not have the repository.
DeveloperAndBots == {Developer, Robot, [Robot EXCEPT !.owner = nobody]}
OneRepository == {Repository}
EveryResource == {Repository, Sandbox, Dotfiles, Scratch}
WriteOnly == {"write"}
Days1 == {Unset, 0, 1, 2}
DaysBlank == {Unset}
==============================================================================
