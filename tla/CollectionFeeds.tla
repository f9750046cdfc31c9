----------------------------- MODULE CollectionFeeds -----------------------------
(***************************************************************************)
(* One feed of records and the process that pulls it.  Telemetry comes     *)
(* through a collector (usage/collectors.py) or a delivered file           *)
(* (usage/ingest.py) and the ingest_usage command; the audit trail of a    *)
(* vault comes through a connector's iter_activity or iter_usage and the   *)
(* collect_system task.                                                    *)
(*                                                                         *)
(* A pull reads, stores, and remembers how far it came, in three steps, at *)
(* any of which it may die; the feed goes on growing meanwhile, and a      *)
(* record may arrive after it occurred.  The ghost variable gap holds the  *)
(* records that the code, as it is written, has stepped over for good.     *)
(***************************************************************************)
EXTENDS Integers, FiniteSets, Sequences

CONSTANTS
  Kinds,       \* the kinds of feed, of those in AllKinds
  Sessions,    \* AcctSessionId of telemetry; the account of an audit record
  RowLimit,    \* row_limit of Data Connect, page_size of a trail read as one page
  ByteLimit,   \* max_bytes_per_pull, in lines
  Interval,    \* expected_interval_minutes
  Lateness,    \* bound: how long a record may be under way
  MaxTime,     \* bound: the clock
  MaxRecords,  \* bound: records ever written
  MaxFaults    \* bound: rotations, failures and deaths

AllKinds ==
  {"ise",          \* IseDataConnectCollector
   "spool",        \* SyslogSpoolCollector
   "tacplus",      \* TacPlusLogCollector
   "file",         \* parse_tacacs_accounting over the delivered file
   "lines",        \* a delivered file whose parser gives one record a line
   "cyberark", "delinea", "beyondtrust", "generic",  \* iter_activity of a connector
   "recordings", "sessions"}  \* iter_usage: sessions that CyberArk, BeyondTrust brokered

ASSUME FeedAssumption ==
  /\ Kinds \subseteq AllKinds
  /\ {RowLimit, ByteLimit, Interval, Lateness, MaxTime, MaxRecords, MaxFaults} \subseteq Nat
  /\ RowLimit > 0 /\ ByteLimit > 0

VARIABLES
  kind,
  log,       \* the file or view: a sequence of records in order of arrival
  written,   \* how many records there have ever been
  now,
  since,     \* last_ingest_at, or last_successful_collection
  cursor,    \* the saved offset, or last timestamp
  pull,      \* the pull in progress: what it has read and where it came to
  stored,    \* the UsageObservation or LifecycleEvent rows
  reported,  \* OPS-002 is open for the feed
  gap,       \* ghost: records stepped over
  faults

feed == <<kind, log, written, now>>
vars == <<feed, since, cursor, pull, stored, reported, gap, faults>>
------------------------------------------------------------------------------
Earliest(S) == CHOOSE x \in S : \A y \in S : x <= y
Latest(S) == CHOOSE x \in S : \A y \in S : x >= y

Delivered == kind \in {"file", "lines"}
Brokered == kind \in {"recordings", "sessions"}
Telemetry == kind \in {"ise", "spool", "tacplus"} \/ Delivered
Positional == kind \in {"spool", "tacplus"}

Records == {log[i] : i \in DOMAIN log}

\* A pull is idle, has read (list(collector.collect)) or has stored (record_observations).
Idle == [phase |-> "idle"]

\* The feed has been pulled before: a first pull reaches back further than the clock here.
Init ==
  /\ kind \in Kinds /\ log = <<>> /\ written = 0 /\ now = 0 /\ since = 0 /\ cursor = 0
  /\ pull = Idle /\ stored = {} /\ reported = FALSE /\ gap = {} /\ faults = 0
------------------------------------------------------------------------------
(***************************************************************************)
(* What a pull would read: the records in its window, and the sets of them *)
(* it may come back with.                                                  *)
(***************************************************************************)
\* Mutant: a file that shrank is sought past its end.
ResumePastTheEnd == cursor

\* A file shorter than the offset has been rotated and is read from its start.
Resume == IF cursor > Len(log) THEN 0 ELSE cursor

\* Data Connect goes on from the later of the last ingest and the last row.
StartOfView == IF cursor > since THEN cursor ELSE since

\* A line behind the offset that is older than the last ingest is dropped.
UnreadLines == {log[i] : i \in {j \in DOMAIN log : j > Resume /\ log[j].at >= since}}

Window == {r \in Records : r.at >= since}

Eligible ==
  CASE kind = "ise" -> {r \in Records : r.at > StartOfView}
    [] Positional -> UnreadLines
    [] Delivered -> Records
    [] OTHER -> Window

\* FETCH FIRST n ROWS of the ordered view.
RowsOfView ==
  LET size == IF Cardinality(Eligible) < RowLimit THEN Cardinality(Eligible) ELSE RowLimit
  IN {S \in SUBSET Eligible : /\ Cardinality(S) = size
                             /\ \A r \in S, q \in Eligible \ S : r.at <= q.at}

\* Asked account by account: one whose activity is refused is passed over.
ActivityByAccount == {{r \in Window : r.session \notin refused} : refused \in SUBSET Sessions}

\* One page of the newest, or nothing when the feed is refused.
NewestPage ==
  {{}, {r \in Window : Cardinality({q \in Records : q.id > r.id}) < RowLimit}}

\* A report that starts at the window, and a paged feed: all of it, or the pull fails.
Report == {Window}
PagedFeed == {Window}

\* A brokered session is listed when it is over and dated by its start.  Recordings are
\* read up to a page that is refused; a refused answer has no sessions.
Recordings == SUBSET Window
EndedSessions == {{}, Window}

Chosen ==
  CASE kind = "ise" -> RowsOfView
    [] kind = "cyberark" -> ActivityByAccount
    [] kind = "beyondtrust" -> NewestPage
    [] kind = "delinea" -> Report
    [] kind = "generic" -> PagedFeed
    [] kind = "recordings" -> Recordings
    [] kind = "sessions" -> EndedSessions
    [] OTHER -> {Eligible}

\* ingest_activity stores nothing for an account that is not in the inventory yet.
InInventory(S) ==
  IF Telemetry \/ Brokered THEN {S}
  ELSE {{r \in S : r.session \notin unknown} : unknown \in SUBSET Sessions}
------------------------------------------------------------------------------
(***************************************************************************)
(* What becomes of the records: observations, each with the records it     *)
(* stands for.                                                             *)
(***************************************************************************)
Ids(S) == {r.id : r \in S}

\* The commands of one session are rolled up and dated by the first that occurred.
SessionsOf(S) ==
  {[session |-> s, at |-> Earliest({r.at : r \in {q \in S : q.session = s}}),
    of |-> Ids({q \in S : q.session = s})] : s \in {r.session : r \in S}}

\* In a spool they are dated by the first that was read.
SpooledSessions(S) ==
  {LET first == CHOOSE r \in S : r.session = s /\ \A q \in S : q.session = s => r.id <= q.id
   IN [session |-> s, at |-> first.at, of |-> Ids({q \in S : q.session = s})] :
     s \in {r.session : r \in S}}

\* Everything else is passed on record by record.
EventsOf(S) == {[session |-> r.session, at |-> r.at, of |-> {r.id}] : r \in S}

Observations(S) ==
  CASE kind \in {"ise", "file"} -> SessionsOf(S)
    [] kind = "spool" -> SpooledSessions(S)
    [] OTHER -> EventsOf(S)

\* The dedupe key: the vendor's number of the event, or its session (account) and time.
SameKey(o, q) ==
  IF kind \in {"delinea", "beyondtrust", "generic", "recordings", "sessions"}
  THEN o.of = q.of
  ELSE o.session = q.session /\ o.at = q.at

\* Reading text with tell() after an unfinished loop raises, so the byte limit fails the pull.
OverTheLimit == kind = "spool" /\ Len(log) - Resume >= ByteLimit

\* A spool with nothing behind its offset is passed over, and its offset with it: that of
\* a file that was emptied stays what it was.
NextCursor(S) ==
  CASE kind = "spool" /\ Resume = Len(log) -> cursor
    [] Positional -> Latest({Resume, Len(log)})
    [] kind = "ise" -> Latest({StartOfView} \cup {r.at : r \in S})
    [] OTHER -> 0
------------------------------------------------------------------------------
(***************************************************************************)
(* The feed.                                                               *)
(***************************************************************************)
Tick ==
  /\ now < MaxTime /\ now' = now + 1
  /\ UNCHANGED <<kind, log, written, since, cursor, pull, stored, reported, gap, faults>>

\* What occurred before the stamp, and for Data Connect at the stamp, is not asked for again.
TooLate(r, stamp) ==
  CASE Delivered -> FALSE [] kind = "ise" -> r.at <= stamp [] OTHER -> r.at < stamp

Recorded(r) == \E o \in stored : r.id \in o.of

\* A rotated file that has grown back to the old offset looks unread from there on only.
Write ==
  /\ written < MaxRecords /\ written' = written + 1
  /\ \E s \in Sessions, at \in {t \in 0..now : t >= now - Lateness} :
       LET r == [id |-> written', session |-> s, at |-> at, arrived |-> now]
       IN /\ log' = Append(log, r)
          /\ gap' = gap \cup {q \in {r} : TooLate(q, IF kind = "ise" THEN StartOfView ELSE since)}
                         \cup {q \in Records \cup {r} : Positional /\ Len(log') = cursor}
  /\ UNCHANGED <<kind, now, since, cursor, pull, stored, reported, faults>>

Rotate ==
  /\ (Positional \/ Delivered) /\ log # <<>>
  /\ faults < MaxFaults /\ faults' = faults + 1
  /\ log' = <<>>
  /\ gap' = gap \cup {r \in Records : ~Recorded(r)}
  /\ UNCHANGED <<kind, written, now, since, cursor, pull, stored, reported>>
------------------------------------------------------------------------------
(***************************************************************************)
(* The pull.                                                               *)
(***************************************************************************)
Read(S) ==
  [phase |-> "read", batch |-> Observations(S), left |-> Eligible \ S,
   reached |-> NextCursor(S), seen |-> written]

\* Mutant: the cursor is saved with the read, before anything is stored.
CollectAndSave ==
  /\ pull = Idle /\ ~OverTheLimit
  /\ \E read \in Chosen : \E S \in InInventory(read) :
       /\ cursor' = IF Telemetry THEN NextCursor(S) ELSE cursor
       /\ pull' = Read(S)
  /\ UNCHANGED <<feed, since, stored, reported, gap, faults>>

Collect ==
  /\ pull = Idle /\ ~OverTheLimit
  /\ \E read \in Chosen : \E S \in InInventory(read) : pull' = Read(S)
  /\ UNCHANGED <<feed, since, cursor, stored, reported, gap, faults>>

\* get_or_create: an observation whose key is stored already changes nothing, and of two
\* with one key in the batch the second finds the first.
Missing ==
  {o \in pull.batch : /\ \A q \in stored : ~SameKey(o, q)
                      /\ \A q \in pull.batch :
                           SameKey(o, q) => Earliest(o.of) <= Earliest(q.of)}

\* What that drops: what a stored session has gained since, and the second of two records
\* of one session, or account, and time.
Dropped ==
  {r \in Records : \E o \in pull.batch \ Missing : r.id \in o.of /\ ~Recorded(r)}

\* The stamp is the clock, whatever the pull has read.
Stamp ==
  /\ since' = now
  /\ gap' = gap \cup Dropped \cup pull.left
              \cup {r \in Records : r.id > pull.seen /\ TooLate(r, now)}

Store ==
  /\ pull.phase = "read"
  /\ stored' = stored \cup Missing
  /\ pull' = [pull EXCEPT !.phase = "stored"]
  /\ IF Telemetry THEN Stamp ELSE UNCHANGED <<since, gap>>
  /\ UNCHANGED <<feed, cursor, reported, faults>>

\* Telemetry saves its cursor; a collection run ends and stamps the platform.
Finish ==
  /\ pull.phase = "stored"
  /\ pull' = Idle
  /\ IF Telemetry
     THEN /\ cursor' = pull.reached
          /\ gap' = gap \cup {log[i] : i \in {j \in DOMAIN log :
                                 Positional /\ j <= pull.reached /\ log[j].id > pull.seen}}
          /\ UNCHANGED since
     ELSE Stamp /\ UNCHANGED cursor
  /\ UNCHANGED <<feed, stored, reported, faults>>

\* The process dies; rows already written stay written.
Die ==
  /\ pull # Idle
  /\ faults < MaxFaults /\ faults' = faults + 1
  /\ \E part \in SUBSET (IF pull.phase = "read" THEN Missing ELSE {}) : stored' = stored \cup part
  /\ pull' = Idle
  /\ UNCHANGED <<feed, since, cursor, reported, gap>>

\* Mutant: the deadline is one interval later.
StaleAfterThree == now > since + 3 * Interval

Stale == now > since + 2 * Interval

\* TelemetryStale, with an account to hang the finding on.
Sweep ==
  /\ Telemetry
  /\ reported' = Stale
  /\ UNCHANGED <<feed, since, cursor, pull, stored, gap, faults>>
------------------------------------------------------------------------------
Next == Tick \/ Write \/ Rotate \/ Collect \/ Store \/ Finish \/ Die \/ Sweep

Spec == Init /\ [][Next]_vars

\* Beat and cron repeat the pulls; a pull that lives goes through its steps.
FairSpec == Spec /\ WF_vars(Collect) /\ WF_vars(Store) /\ WF_vars(Finish) /\ WF_vars(Sweep)
------------------------------------------------------------------------------
(***************************************************************************)
(* A record is part of a stored observation, or a later pull reads it, or  *)
(* it fell into one of the gaps this module names: it arrived older than   *)
(* the stamp, it arrived between a pull's reading and its stamp, it stood  *)
(* beyond the row limit or the page, behind a refused account or an        *)
(* account not yet in the inventory, it was dropped because its session,   *)
(* or a record of that session and time, has been taken already, or its    *)
(* file was rotated away or grew back to the old offset.  No death of the  *)
(* pull, at any step, adds to them ("a failure mid-pull re-reads its       *)
(* window rather than silently skipping it", README.md:210;                *)
(* ingest_usage.py:61).                                                    *)
(***************************************************************************)
NothingElseIsSkipped ==
  pull = Idle => \A r \in Records \ gap : Recorded(r) \/ r \in Eligible

(***************************************************************************)
(* A record that has waited for more than two intervals without being      *)
(* stored or stepped over is read or is behind a feed that is reported     *)
(* (TelemetryStale, rules/builtin.py:761): a collector that fails, or one  *)
(* that meets its byte limit, does not read as a quiet network.  A         *)
(* delivered file is left out: nothing it holds is stepped over, but its   *)
(* stamp covers what was appended while a long pull was storing.           *)
(***************************************************************************)
Waiting ==
  \E r \in Eligible \ gap :
    Telemetry /\ ~Delivered /\ ~Recorded(r) /\ r.arrived + 2 * Interval < now

UnreadIsReported == Waiting ~> (reported \/ ~Waiting)

(***************************************************************************)
(* A log that no longer grows is read to its end, through rotations and    *)
(* deaths, as long as what is unread stays below the byte limit: the next  *)
(* pull would begin where the log ends.                                    *)
(***************************************************************************)
LogIsReadToItsEnd ==
  (Positional /\ <>[](kind = "tacplus" \/ ~OverTheLimit)) => []<>(Resume = Len(log))
==============================================================================
