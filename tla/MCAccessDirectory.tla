--------------------------- MODULE MCAccessDirectory ---------------------------
(* Two repositories, one of them named "archive", a bot, a deploy key and a team. *)
EXTENDS AccessDirectory

CONSTANTS core, archive, robot, key, team

TwoRepositories == {core, archive}
OneBot == {robot}
OneKey == {key}
OneTeam == {team}
NameOfArchive == {archive}

\* Both accounts of the vault bear the bot's name; a key's identifier ends with its number.
SomeNames == {"robot", "123"}
BothRobots == [a \in Accounts |-> "robot"]
BotAndNumber == [h \in {robot, key} |-> IF h = robot THEN "robot" ELSE "123"]

Stale == [status |-> "active", stale |-> TRUE]

Repository(tagged) == [here |-> TRUE, tagged |-> tagged, archived |-> FALSE]

\* Before the first run the bot writes everywhere, on GitLab until a date on the archive; the
\* vault holds one account of its name, and another may be stored later.
OneBeginning ==
  {[hosted |-> [r \in {core, archive} |-> Repository(TRUE)],
    access |-> [p \in {core, archive} \X {robot, key, team} |-> IF p[2] = robot THEN "write" ELSE "none"],
    dated |-> {<<archive, robot>>}, vault |-> <<NotStored, Stale>>]}
==============================================================================
