------------------------- MODULE CollectionFeedsProofs -------------------------
(***************************************************************************)
(* Whatever dies between reading, storing and stamping, no record is       *)
(* stepped over but through the gaps that have a name: for every kind of   *)
(* feed, every session, limit and bound.                                   *)
(***************************************************************************)
EXTENDS CollectionFeeds, FiniteSetTheorems, WellFoundedInduction, TLAPS

LogRecord == [id : Nat, session : Sessions, at : Nat, arrived : Nat]

FeedTypes ==
  /\ kind \in AllKinds
  /\ log \in Seq(LogRecord)
  /\ written \in Nat /\ now \in Nat /\ since \in Nat /\ cursor \in Nat
  /\ since <= now
  /\ \A r \in Records : r.id <= written /\ r.at <= now
  /\ kind = "ise" => cursor <= now

(***************************************************************************)
(* A pull under way: what it has seen has been written, and Data Connect   *)
(* is read up to a moment that has passed, before the stamp.               *)
(***************************************************************************)
PullTypes ==
  pull # Idle =>
    /\ pull = [phase |-> pull.phase, batch |-> pull.batch, left |-> pull.left,
               reached |-> pull.reached, seen |-> pull.seen]
    /\ pull.phase \in {"read", "stored"}
    /\ pull.seen \in Nat /\ pull.seen <= written /\ pull.reached \in Nat
    /\ kind = "ise" => pull.reached <= now
    /\ kind = "ise" /\ pull.phase = "stored" => pull.reached <= since

(***************************************************************************)
(* The heart of the invariant.  At every moment what is in no gap is       *)
(* stored or would be read again; while a pull is under way, what it has   *)
(* seen is stored, left aside, or in its hand; once its observations are   *)
(* stored, nothing in its hand is missing any more, and telemetry has      *)
(* stored what it has seen.                                                *)
(***************************************************************************)
Kept == \A r \in Records \ gap : Recorded(r) \/ r \in Eligible

InHand ==
  pull # Idle =>
    \A r \in Records \ gap : r.id <= pull.seen =>
      Recorded(r) \/ r \in pull.left \/ \E o \in pull.batch : r.id \in o.of

HandIsStored ==
  pull # Idle /\ pull.phase = "stored" =>
    /\ Missing = {}
    /\ Telemetry => \A r \in Records \ gap : r.id <= pull.seen => Recorded(r)

FInv == FeedTypes /\ PullTypes /\ Kept /\ InHand /\ HandIsStored
------------------------------------------------------------------------------
(***************************************************************************)
(* Facts about the operators.  A set of naturals that has a bound has a    *)
(* greatest element: the interval from it to the bound is the least.       *)
(***************************************************************************)
LEMMA LatestIsOfThem ==
  ASSUME NEW n \in Nat, NEW S \in SUBSET (0..n), S # {}
  PROVE  Latest(S) \in S
<1> DEFINE Above(m) == m..n
           T == {Above(m) : m \in S}
<1>1. T \subseteq FiniteSubsetsOf(Nat)
  <2> SUFFICES ASSUME NEW m \in S PROVE Above(m) \in FiniteSubsetsOf(Nat)
    OBVIOUS
  <2>1. m \in Int /\ n \in Int /\ Above(m) \subseteq Nat
    OBVIOUS
  <2>2. IsFiniteSet(Above(m))
    BY <2>1, FS_Interval
  <2> QED
    BY <2>1, <2>2 DEF FiniteSubsetsOf
<1>2. T # {}
  OBVIOUS
<1>3. PICK x \in T : \A y \in T : ~(<<y, x>> \in StrictSubsetOrdering(Nat))
  BY <1>1, <1>2, FS_StrictSubsetOrderingWellFounded, WFMin
<1>4. PICK m \in S : x = Above(m)
  OBVIOUS
<1>5. ASSUME NEW k \in S, ~(m >= k) PROVE FALSE
  <2>1. Above(k) \subseteq Above(m) /\ m \in Above(m) /\ m \notin Above(k)
    BY <1>5
  <2>2. <<Above(k), Above(m)>> \in StrictSubsetOrdering(Nat)
    BY <2>1 DEF StrictSubsetOrdering
  <2> QED
    BY <2>2, <1>3, <1>4
<1> QED
  BY <1>5 DEF Latest

\* Every record a pull takes is part of one of its observations.
LEMMA ObservedIsInHand ==
  ASSUME NEW S, NEW r \in S
  PROVE  \E o \in Observations(S) : r.id \in o.of
<1> DEFINE Own == {q \in S : q.session = r.session}
           first == CHOOSE f \in S :
                      f.session = r.session /\ \A q \in S : q.session = r.session => f.id <= q.id
<1>1. r.session \in {q.session : q \in S} /\ r.id \in Ids(Own)
  BY DEF Ids
<1>2. \E o \in SessionsOf(S) : r.id \in o.of
  <2> DEFINE o == [session |-> r.session, at |-> Earliest({q.at : q \in Own}), of |-> Ids(Own)]
  <2>1. o \in SessionsOf(S)
    BY <1>1, Zenon DEF SessionsOf
  <2>2. o.of = Ids(Own)
    OBVIOUS
  <2> QED
    BY <2>1, <2>2, <1>1
<1>3. \E o \in SpooledSessions(S) : r.id \in o.of
  <2> DEFINE o == [session |-> r.session, at |-> first.at, of |-> Ids(Own)]
  <2>1. o \in SpooledSessions(S)
    BY <1>1, Zenon DEF SpooledSessions
  <2>2. o.of = Ids(Own)
    OBVIOUS
  <2> QED
    BY <2>1, <2>2, <1>1
<1>4. \E o \in EventsOf(S) : r.id \in o.of
  <2> DEFINE o == [session |-> r.session, at |-> r.at, of |-> {r.id}]
  <2>1. o \in EventsOf(S)
    BY Zenon DEF EventsOf
  <2>2. o.of = {r.id}
    OBVIOUS
  <2> QED
    BY <2>1, <2>2
<1>5. Observations(S) \in {SessionsOf(S), SpooledSessions(S), EventsOf(S)}
  BY DEF Observations
<1> QED
  BY <1>2, <1>3, <1>4, <1>5

LEMMA KeyOfItself == \A o : SameKey(o, o)
BY DEF SameKey

LEMMA RecordsAreTyped ==
  ASSUME FeedTypes, NEW r \in Records
  PROVE  r.id \in Nat /\ r.at \in Nat /\ r.id <= written /\ r.at <= now
<1>1. PICK i \in DOMAIN log : r = log[i]
  BY DEF Records
<1>2. log[i] \in LogRecord
  BY <1>1 DEF FeedTypes
<1> QED
  BY <1>1, <1>2 DEF LogRecord, FeedTypes

\* What each kind of feed would read.
LEMMA EligibleByKind ==
  /\ kind = "ise" => Eligible = {r \in Records : r.at > StartOfView}
  /\ Positional => Eligible = UnreadLines
  /\ Delivered => Eligible = Records
  /\ ~Telemetry => Eligible = Window
BY DEF Eligible, Positional, Delivered, Telemetry

\* A read takes records of the log.
LEMMA ChosenAreRecords ==
  ASSUME FeedTypes, NEW read \in Chosen, NEW S \in InInventory(read), kind = "ise"
  PROVE  S \subseteq Records
<1>1. Chosen = RowsOfView
  BY DEF Chosen
<1>2. InInventory(read) = {read}
  BY DEF InInventory, Telemetry
<1>3. S \in SUBSET Eligible
  BY <1>1, <1>2 DEF RowsOfView
<1> QED
  BY <1>3, EligibleByKind

(***************************************************************************)
(* The place a pull will save: a natural, and for Data Connect a moment    *)
(* that has passed.                                                        *)
(***************************************************************************)
LEMMA CursorIsPast ==
  ASSUME FeedTypes, NEW read \in Chosen, NEW S \in InInventory(read)
  PROVE  NextCursor(S) \in Nat /\ (kind = "ise" => NextCursor(S) <= now)
<1>1. CASE Positional
  <2>1. Resume \in Nat /\ Len(log) \in Nat
    BY DEF Resume, FeedTypes
  <2>2. Latest({Resume, Len(log)}) \in Nat
    <3> DEFINE n == Resume + Len(log)
    <3>1. n \in Nat /\ {Resume, Len(log)} \in SUBSET (0..n)
      BY <2>1
    <3>2. Latest({Resume, Len(log)}) \in {Resume, Len(log)}
      BY <3>1, LatestIsOfThem
    <3> QED
      BY <2>1, <3>2
  <2> QED
    BY <1>1, <2>2 DEF NextCursor, Positional, FeedTypes
<1>2. CASE kind = "ise"
  <2> DEFINE T == {StartOfView} \cup {r.at : r \in S}
  <2>1. StartOfView \in 0..now
    BY <1>2 DEF StartOfView, FeedTypes
  <2>2. \A r \in S : r.at \in 0..now
    <3>1. S \subseteq Records
      BY <1>2, ChosenAreRecords
    <3> QED
      BY <3>1, RecordsAreTyped DEF FeedTypes
  <2>3. T \in SUBSET (0..now) /\ T # {}
    BY <2>1, <2>2
  <2>4. Latest(T) \in 0..now
    BY <2>3, LatestIsOfThem DEF FeedTypes
  <2>5. NextCursor(S) = Latest(T)
    BY <1>2 DEF NextCursor, Positional
  <2> QED
    BY <2>4, <2>5 DEF FeedTypes
<1>3. CASE ~Positional /\ kind # "ise"
  BY <1>3 DEF NextCursor, Positional
<1> QED
  BY <1>1, <1>2, <1>3
------------------------------------------------------------------------------
LEMMA InitKeeps == Init => FInv
<1> SUFFICES ASSUME Init PROVE FInv
  OBVIOUS
<1>1. Records = {} /\ pull = Idle
  BY DEF Init, Records
<1>2. FeedTypes
  BY <1>1, FeedAssumption DEF Init, FeedTypes
<1> QED
  BY <1>1, <1>2 DEF FInv, PullTypes, Kept, InHand, HandIsStored

LEMMA TickKeeps == FInv /\ Tick => FInv'
<1> SUFFICES ASSUME FInv, Tick PROVE FInv'
  OBVIOUS
<1>1. Records' = Records /\ Eligible' = Eligible
  BY DEF Tick, Records, Eligible, StartOfView, UnreadLines, Resume, Window, Positional, Delivered
<1>2. FeedTypes'
  <2>1. \A r \in Records : r.at <= now'
    BY RecordsAreTyped DEF FInv, FeedTypes, Tick
  <2> QED
    BY <1>1, <2>1 DEF FInv, FeedTypes, Tick
<1>3. PullTypes'
  BY DEF FInv, FeedTypes, PullTypes, Tick, Idle
<1>4. Kept' /\ InHand'
  BY <1>1 DEF FInv, Kept, InHand, Tick, Recorded, Idle
<1>5. HandIsStored'
  BY <1>1 DEF FInv, HandIsStored, Tick, Recorded, Idle, Missing, SameKey, Telemetry, Delivered
<1> QED
  BY <1>2, <1>3, <1>4, <1>5 DEF FInv

LEMMA SweepKeeps == FInv /\ Sweep => FInv'
<1> SUFFICES ASSUME FInv, Sweep PROVE FInv'
  OBVIOUS
<1>1. Records' = Records /\ Eligible' = Eligible
  BY DEF Sweep, feed, Records, Eligible, StartOfView, UnreadLines, Resume, Window, Positional,
         Delivered
<1>2. FeedTypes' /\ PullTypes'
  BY <1>1 DEF FInv, FeedTypes, PullTypes, Sweep, feed, Idle
<1>3. Kept' /\ InHand'
  BY <1>1 DEF FInv, Kept, InHand, Sweep, feed, Recorded, Idle
<1>4. HandIsStored'
  BY <1>1 DEF FInv, HandIsStored, Sweep, feed, Recorded, Idle, Missing, SameKey, Telemetry,
         Delivered
<1> QED
  BY <1>2, <1>3, <1>4 DEF FInv

\* A death keeps the rows it wrote and the place of the last pull.
LEMMA DieKeeps == FInv /\ Die => FInv'
<1> SUFFICES ASSUME FInv, Die PROVE FInv'
  OBVIOUS
<1>1. Records' = Records /\ Eligible' = Eligible
  BY DEF Die, feed, Records, Eligible, StartOfView, UnreadLines, Resume, Window, Positional,
         Delivered
<1>2. FeedTypes'
  BY <1>1 DEF FInv, FeedTypes, Die, feed
<1>3. pull' = Idle /\ stored \subseteq stored'
  BY DEF Die
<1>4. Kept'
  BY <1>1, <1>3 DEF FInv, Kept, Die, Recorded
<1> QED
  BY <1>2, <1>3, <1>4, Zenon DEF FInv, PullTypes, InHand, HandIsStored, Idle

(***************************************************************************)
(* A new record is younger than every pull, and is read by the next unless *)
(* it came too late; the log before it stands.                             *)
(***************************************************************************)
LEMMA WriteKeeps == FInv /\ Write => FInv'
<1> SUFFICES ASSUME FInv, Write PROVE FInv'
  OBVIOUS
<1> USE DEF FInv
<1>1. PICK s \in Sessions, at \in {t \in 0..now : t >= now - Lateness} :
        LET r == [id |-> written', session |-> s, at |-> at, arrived |-> now]
        IN /\ log' = Append(log, r)
           /\ gap' = gap \cup {q \in {r} : TooLate(q, IF kind = "ise" THEN StartOfView ELSE since)}
                          \cup {q \in Records \cup {r} : Positional /\ Len(log') = cursor}
  BY DEF Write
<1> DEFINE new == [id |-> written', session |-> s, at |-> at, arrived |-> now]
<1>2. /\ new \in LogRecord /\ new.id = written + 1 /\ new.at \in Nat /\ new.at <= now
      /\ written' = written + 1 /\ written \in Nat
  BY DEF Write, FeedTypes, LogRecord
<1>3. /\ log' = Append(log, new) /\ log \in Seq(LogRecord) /\ log' \in Seq(LogRecord)
      /\ Len(log') = Len(log) + 1 /\ DOMAIN log = 1..Len(log) /\ DOMAIN log' = 1..(Len(log) + 1)
      /\ Len(log) \in Nat
      /\ log'[Len(log) + 1] = new /\ \A i \in 1..Len(log) : log'[i] = log[i]
  BY <1>1, <1>2 DEF FeedTypes
<1>4. Records' = Records \cup {new}
  BY <1>3 DEF Records
<1>5. /\ gap \subseteq gap'
      /\ TooLate(new, IF kind = "ise" THEN StartOfView ELSE since) => new \in gap'
      /\ Positional /\ Len(log) + 1 = cursor => Records' \subseteq gap'
  BY <1>1, <1>3, <1>4
<1>6. /\ UNCHANGED <<kind, now, since, cursor, pull, stored>>
      /\ StartOfView' = StartOfView /\ (Positional <=> Positional') /\ (Delivered <=> Delivered')
      /\ (Telemetry <=> Telemetry')
  BY DEF Write, StartOfView, Positional, Delivered, Telemetry
<1>7. FeedTypes'
  <2>1. \A r \in Records' : r.id <= written' /\ r.at <= now'
    BY <1>2, <1>4, <1>6, RecordsAreTyped
  <2> QED
    BY <2>1, <1>2, <1>3, <1>6 DEF FeedTypes
<1>8. PullTypes'
  BY <1>2, <1>6 DEF PullTypes, Idle
<1>9. Kept'
  <2> SUFFICES ASSUME NEW r \in Records', r \notin gap' PROVE Recorded(r)' \/ r \in Eligible'
    BY DEF Kept
  <2>1. CASE Positional
    <3>1. /\ Len(log) + 1 # cursor /\ cursor \in Nat /\ since \in Nat
      BY <2>1, <1>5 DEF FeedTypes
    <3>2. Eligible' = UnreadLines' /\ Eligible = UnreadLines
      <4>1. kind' # "ise" /\ Positional' /\ ~Delivered'
        BY <2>1, <1>6 DEF Positional, Delivered
      <4>2. Eligible' = UnreadLines'
        BY <4>1 DEF Eligible
      <4> QED
        BY <4>2, <2>1, EligibleByKind
    <3>3. Resume' <= Len(log) /\ Resume' = Resume
      BY <3>1, <1>3, <1>6 DEF Resume
    <3>4. CASE r = new
      <4>1. new.at >= since
        BY <3>4, <1>2, <1>5, <2>1, <3>1 DEF TooLate, Positional, Delivered
      <4>2. Len(log) + 1 \in DOMAIN log' /\ Len(log) + 1 > Resume' /\ log'[Len(log) + 1].at >= since'
        BY <4>1, <3>1, <3>3, <1>3, <1>6 DEF Resume
      <4> QED
        BY <3>2, <3>4, <4>2, <1>3 DEF UnreadLines
    <3>5. CASE r # new
      <4>1. r \in Records /\ r \notin gap
        BY <3>5, <1>4, <1>5
      <4>2. CASE r \in Eligible
        <5>1. PICK j \in DOMAIN log : r = log[j] /\ j > Resume /\ log[j].at >= since
          BY <4>2, <3>2 DEF UnreadLines
        <5>2. j \in DOMAIN log' /\ log'[j] = r /\ j > Resume' /\ log'[j].at >= since'
          BY <5>1, <3>3, <1>3, <1>6
        <5> QED
          BY <5>2, <3>2 DEF UnreadLines
      <4> QED
        BY <4>1, <4>2, <1>6 DEF Kept, Recorded
    <3> QED
      BY <3>4, <3>5
  <2>2. CASE ~Positional
    <3>1. r = new => new \in Eligible'
      BY <2>2, <1>2, <1>4, <1>5, <1>6 DEF TooLate, Eligible, Window, FeedTypes, StartOfView
    <3>2. r # new => r \in Records /\ r \notin gap
      BY <1>4, <1>5
    <3>3. Eligible \subseteq Eligible'
      BY <2>2, <1>4, <1>6 DEF Eligible, Window
    <3> QED
      BY <3>1, <3>2, <3>3, <1>6 DEF Kept, Recorded
  <2> QED
    BY <2>1, <2>2
<1>10. \A r \in Records' \ gap' : pull # Idle /\ r.id <= pull.seen => r \in Records \ gap
  <2> SUFFICES ASSUME NEW r \in Records' \ gap', pull # Idle, r.id <= pull.seen
               PROVE  r \in Records \ gap
    OBVIOUS
  <2>1. r # new
    BY <1>2 DEF PullTypes
  <2> QED
    BY <2>1, <1>4, <1>5
<1>11. InHand'
  BY <1>6, <1>10 DEF InHand, Recorded, Idle
<1>12. HandIsStored'
  BY <1>6, <1>10 DEF HandIsStored, Recorded, Idle, Missing, SameKey
<1> QED
  BY <1>7, <1>8, <1>9, <1>11, <1>12

\* What a rotation takes away unread is in the gap, and nothing else is left.
LEMMA RotateKeeps == FInv /\ Rotate => FInv'
<1> SUFFICES ASSUME FInv, Rotate PROVE FInv'
  OBVIOUS
<1>1. Records' = {}
  BY DEF Rotate, Records
<1>2. FeedTypes' /\ PullTypes'
  BY <1>1 DEF FInv, FeedTypes, PullTypes, Rotate, Idle
<1>3. Kept' /\ InHand'
  BY <1>1 DEF Kept, InHand
<1>4. HandIsStored'
  BY <1>1 DEF FInv, HandIsStored, Rotate, Idle, Missing, SameKey
<1> QED
  BY <1>2, <1>3, <1>4 DEF FInv

(***************************************************************************)
(* What a pull comes back with: all it could read is in its observations   *)
(* or left aside.                                                          *)
(***************************************************************************)
LEMMA CollectKeeps == FInv /\ Collect => FInv'
<1> SUFFICES ASSUME FInv, Collect PROVE FInv'
  OBVIOUS
<1> USE DEF FInv
<1>1. PICK read \in Chosen : \E S \in InInventory(read) : pull' = Read(S)
  BY DEF Collect
<1>2. PICK S \in InInventory(read) : pull' = Read(S)
  BY <1>1
<1>3. Records' = Records /\ Eligible' = Eligible
  BY DEF Collect, feed, Records, Eligible, StartOfView, UnreadLines, Resume, Window, Positional,
         Delivered
<1>4. FeedTypes'
  BY <1>3 DEF FeedTypes, Collect, feed
<1>5. Kept'
  BY <1>3 DEF Kept, Collect, feed, Recorded
<1>6. PullTypes'
  <2>1. NextCursor(S) \in Nat /\ (kind = "ise" => NextCursor(S) <= now)
    BY CursorIsPast
  <2> QED
    BY <1>2, <2>1 DEF PullTypes, Read, Collect, feed, FeedTypes
<1>7. InHand'
  <2> SUFFICES ASSUME NEW r \in Records \ gap
               PROVE  Recorded(r) \/ r \in pull'.left \/ \E o \in pull'.batch : r.id \in o.of
    BY <1>3 DEF InHand, Collect, feed, Recorded
  <2>1. pull'.left = Eligible \ S /\ pull'.batch = Observations(S)
    BY <1>2 DEF Read
  <2>2. r \in S => \E o \in Observations(S) : r.id \in o.of
    BY ObservedIsInHand
  <2> QED
    BY <2>1, <2>2 DEF Kept
<1>8. HandIsStored'
  BY <1>2 DEF HandIsStored, Read
<1> QED
  BY <1>4, <1>5, <1>6, <1>7, <1>8

(***************************************************************************)
(* The stamp.  What a pull has seen is stored or steps over into the gap;  *)
(* what it has not seen is late for the stamp or is read next.             *)
(***************************************************************************)
LEMMA StampKeeps ==
  ASSUME FInv, pull # Idle, Stamp, UNCHANGED <<feed, cursor>>, stored \subseteq stored',
         Missing \subseteq stored'
  PROVE  /\ gap \subseteq gap' /\ since' = now
         /\ \A r \in Records \ gap' : r.id <= pull.seen => Recorded(r)'
         /\ FeedTypes' /\ Kept'
<1> USE DEF FInv
<1>1. gap \subseteq gap' /\ since' = now /\ Dropped \subseteq gap' /\ pull.left \subseteq gap'
  BY DEF Stamp
<1>2. Records' = Records
  BY DEF feed, Records
<1>3. ASSUME NEW r \in Records \ gap', r.id <= pull.seen PROVE Recorded(r)'
  <2>1. r \in Records \ gap /\ r \notin pull.left /\ r \notin Dropped
    BY <1>1, <1>3
  <2>2. CASE Recorded(r)
    BY <2>2 DEF Recorded
  <2>3. CASE ~Recorded(r)
    <3>1. PICK o \in pull.batch : r.id \in o.of
      BY <2>1, <2>3, <1>3 DEF InHand
    <3>2. o \in Missing
      BY <2>1, <2>3, <3>1 DEF Dropped
    <3> QED
      BY <3>1, <3>2 DEF Recorded
  <2> QED
    BY <2>2, <2>3
<1>4. FeedTypes'
  BY <1>1, <1>2 DEF FeedTypes, feed
<1>5. ASSUME NEW r \in Records \ gap', ~Recorded(r)' PROVE r \in Eligible'
  <2>1. r.id > pull.seen
    BY <1>3, <1>5, RecordsAreTyped DEF PullTypes
  <2>2. ~TooLate(r, now)
    BY <2>1, <1>5 DEF Stamp
  <2>3. r \in Eligible
    BY <1>1, <1>5 DEF Kept, Recorded
  <2>4. r.at \in Nat /\ now \in Nat /\ r.at <= now
    BY RecordsAreTyped DEF FeedTypes
  <2>5. kind # "ise"
    BY <2>2, <2>4 DEF TooLate, Delivered
  <2>6. CASE Delivered
    <3>1. kind' # "ise" /\ ~Positional' /\ Delivered'
      BY <2>5, <2>6 DEF feed, Positional, Delivered
    <3> QED
      BY <3>1, <1>2 DEF Eligible
  <2>7. CASE Positional
    <3>1. kind' # "ise" /\ Positional' /\ ~Delivered /\ ~Delivered'
      BY <2>5, <2>7 DEF feed, Positional, Delivered
    <3>2. r.at >= now
      BY <2>2, <2>4, <2>5, <3>1 DEF TooLate
    <3>3. PICK j \in DOMAIN log : r = log[j] /\ j > Resume
      BY <2>3, <2>7, EligibleByKind DEF UnreadLines
    <3>4. j \in DOMAIN log' /\ j > Resume' /\ log'[j] = r /\ r.at >= since'
      BY <3>2, <3>3, <1>1 DEF feed, Resume
    <3>5. r \in UnreadLines'
      BY <3>4 DEF UnreadLines
    <3> QED
      BY <3>1, <3>5 DEF Eligible
  <2>8. CASE ~Delivered /\ ~Positional
    <3>1. kind' # "ise" /\ ~Positional' /\ ~Delivered'
      BY <2>5, <2>8 DEF feed, Positional, Delivered
    <3>2. r.at >= now
      BY <2>2, <2>4, <2>5, <2>8 DEF TooLate
    <3>3. r \in Window'
      BY <3>2, <1>1, <1>2 DEF Window
    <3> QED
      BY <3>1, <3>3 DEF Eligible
  <2> QED
    BY <2>6, <2>7, <2>8
<1>6. Kept'
  BY <1>2, <1>5 DEF Kept
<1> QED
  BY <1>1, <1>3, <1>4, <1>6

LEMMA StoreKeeps == FInv /\ Store => FInv'
<1> SUFFICES ASSUME FInv, Store PROVE FInv'
  OBVIOUS
<1> USE DEF FInv
<1>1. /\ pull # Idle /\ pull.phase = "read" /\ stored' = stored \cup Missing
      /\ pull' = [pull EXCEPT !.phase = "stored"] /\ UNCHANGED <<feed, cursor>>
  BY DEF Store, Idle
<1>2. /\ pull'.phase = "stored" /\ pull'.batch = pull.batch /\ pull'.left = pull.left
      /\ pull'.seen = pull.seen /\ pull'.reached = pull.reached /\ pull' # Idle
      /\ pull' = [phase |-> pull'.phase, batch |-> pull'.batch, left |-> pull'.left,
                  reached |-> pull'.reached, seen |-> pull'.seen]
  BY <1>1 DEF PullTypes, Idle
<1>3. Missing' = {}
  <2> SUFFICES ASSUME NEW o \in Missing' PROVE FALSE
    OBVIOUS
  <2>1. o \in pull.batch /\ \A q \in stored' : ~SameKey(o, q)
    BY <1>1, <1>2 DEF Missing, SameKey, feed
  <2>2. o \in Missing
    BY <2>1, <1>1, <1>2 DEF Missing, SameKey, feed
  <2> QED
    BY <2>1, <2>2, <1>1, KeyOfItself
<1>4. Records' = Records /\ (Telemetry' <=> Telemetry) /\ \A o, q : SameKey(o, q)' <=> SameKey(o, q)
  BY <1>1 DEF feed, Records, Telemetry, Delivered, SameKey
<1>5. CASE Telemetry
  <2>1. Stamp
    BY <1>5 DEF Store
  <2>2. /\ gap \subseteq gap' /\ since' = now
        /\ \A r \in Records \ gap' : r.id <= pull.seen => Recorded(r)'
        /\ FeedTypes' /\ Kept'
    BY <2>1, <1>1, StampKeeps
  <2>3. PullTypes'
    BY <2>2, <1>1, <1>2 DEF PullTypes, feed
  <2>4. InHand' /\ HandIsStored'
    BY <2>2, <1>2, <1>3, <1>4 DEF InHand, HandIsStored
  <2> QED
    BY <2>2, <2>3, <2>4
<1>6. CASE ~Telemetry
  <2>1. UNCHANGED <<since, gap>> /\ kind # "ise" /\ kind' # "ise"
    BY <1>6, <1>1 DEF Store, Telemetry, feed
  <2>2. Eligible' = Eligible
    BY <2>1, <1>1, <1>4 DEF feed, Eligible, UnreadLines, Resume, Window, Positional, Delivered
  <2>3. FeedTypes' /\ PullTypes'
    BY <2>1, <1>1, <1>2, <1>4 DEF FeedTypes, PullTypes, feed
  <2>4. Kept' /\ InHand'
    BY <2>1, <2>2, <1>1, <1>2, <1>4 DEF Kept, InHand, Recorded
  <2>5. HandIsStored'
    BY <1>2, <1>3, <1>4, <1>6 DEF HandIsStored
  <2> QED
    BY <2>3, <2>4, <2>5
<1> QED
  BY <1>5, <1>6

\* What has been appended below the place a pull saves, and was not seen, is in the gap.
LEMMA FinishKeeps == FInv /\ Finish => FInv'
<1> SUFFICES ASSUME FInv, Finish PROVE FInv'
  OBVIOUS
<1> USE DEF FInv
<1>1. /\ pull # Idle /\ pull.phase = "stored" /\ pull' = Idle /\ UNCHANGED <<feed, stored>>
  BY DEF Finish, Idle
<1>2. PullTypes' /\ InHand' /\ HandIsStored'
  BY <1>1, Zenon DEF PullTypes, InHand, HandIsStored, Idle
<1>3. Records' = Records
  BY <1>1 DEF feed, Records
<1>4. CASE ~Telemetry
  <2>1. Stamp /\ UNCHANGED <<feed, cursor>>
    BY <1>1, <1>4 DEF Finish
  <2>2. Missing \subseteq stored'
    BY <1>1 DEF HandIsStored
  <2>3. FeedTypes' /\ Kept'
    BY <1>1, <2>1, <2>2, StampKeeps
  <2> QED
    BY <1>2, <2>3
<1>5. CASE Telemetry
  <2>1. /\ cursor' = pull.reached /\ since' = since
        /\ gap' = gap \cup {log[i] : i \in {j \in DOMAIN log :
                             Positional /\ j <= pull.reached /\ log[j].id > pull.seen}}
    BY <1>5 DEF Finish
  <2>2. FeedTypes'
    BY <1>1, <1>3, <2>1 DEF FeedTypes, PullTypes, feed
  <2>3. ASSUME NEW r \in Records \ gap', ~Recorded(r)' PROVE r \in Eligible'
    <3>1. r \in Records \ gap /\ ~Recorded(r)
      BY <1>1, <2>1, <2>3 DEF Recorded
    <3>2. r.id > pull.seen
      BY <1>1, <1>5, <3>1, RecordsAreTyped DEF HandIsStored, PullTypes
    <3>3. r \in Eligible
      BY <3>1 DEF Kept
    <3>4. CASE kind = "ise"
      <4>1. r.at > StartOfView
        BY <3>3, <3>4, EligibleByKind
      <4>2. r.at \in Nat /\ since \in Nat /\ cursor \in Nat
        BY <3>1, RecordsAreTyped DEF FeedTypes
      <4>3. r.at > StartOfView'
        BY <4>1, <4>2, <3>4, <1>1, <2>1 DEF StartOfView, PullTypes
      <4>4. kind' = "ise" /\ ~Positional' /\ ~Delivered'
        BY <3>4, <1>1 DEF feed, Positional, Delivered
      <4> QED
        BY <4>3, <4>4, <3>1, <1>3 DEF Eligible
    <3>5. CASE Positional
      <4>1. kind' # "ise" /\ Positional' /\ ~Delivered'
        BY <3>5, <1>1 DEF feed, Positional, Delivered
      <4>2. PICK j \in DOMAIN log : r = log[j] /\ j > Resume /\ log[j].at >= since
        BY <3>3, <3>5, EligibleByKind DEF UnreadLines
      <4>3. ~(j <= pull.reached)
        BY <4>2, <3>2, <3>5, <2>1, <2>3
      <4>4. j \in 1..Len(log) /\ Len(log) \in Nat /\ pull.reached \in Nat
        BY <4>2, <1>1 DEF FeedTypes, PullTypes
      <4>5. Resume' = pull.reached
        BY <4>3, <4>4, <1>1, <2>1 DEF Resume, feed
      <4>6. j \in DOMAIN log' /\ log'[j] = r /\ j > Resume' /\ log'[j].at >= since'
        BY <4>2, <4>3, <4>4, <4>5, <1>1, <2>1 DEF feed
      <4>7. r \in UnreadLines'
        BY <4>6 DEF UnreadLines
      <4> QED
        BY <4>1, <4>7 DEF Eligible
    <3>6. CASE Delivered
      <4>1. kind' # "ise" /\ ~Positional' /\ Delivered'
        BY <3>6, <1>1 DEF feed, Positional, Delivered
      <4> QED
        BY <4>1, <3>1, <1>3 DEF Eligible
    <3> QED
      BY <1>5, <3>4, <3>5, <3>6 DEF Telemetry, Positional
  <2>4. Kept'
    BY <1>3, <2>3 DEF Kept
  <2> QED
    BY <1>2, <2>2, <2>4
<1> QED
  BY <1>4, <1>5
------------------------------------------------------------------------------
LEMMA Invariant == Spec => []FInv
<1>1. FInv /\ [Next]_vars => FInv'
  <2> SUFFICES ASSUME FInv, [Next]_vars PROVE FInv'
    OBVIOUS
  <2>1. CASE Tick
    BY <2>1, TickKeeps
  <2>2. CASE Write
    BY <2>2, WriteKeeps
  <2>3. CASE Rotate
    BY <2>3, RotateKeeps
  <2>4. CASE Collect
    BY <2>4, CollectKeeps
  <2>5. CASE Store
    BY <2>5, StoreKeeps
  <2>6. CASE Finish
    BY <2>6, FinishKeeps
  <2>7. CASE Die
    BY <2>7, DieKeeps
  <2>8. CASE Sweep
    BY <2>8, SweepKeeps
  <2>9. CASE UNCHANGED vars
    <3>1. Records' = Records /\ Eligible' = Eligible
      BY <2>9 DEF vars, feed, Records, Eligible, StartOfView, UnreadLines, Resume, Window,
                  Positional, Delivered
    <3>2. FeedTypes' /\ PullTypes'
      BY <2>9, <3>1 DEF FInv, FeedTypes, PullTypes, vars, feed, Idle
    <3>3. Kept' /\ InHand'
      BY <2>9, <3>1 DEF FInv, Kept, InHand, vars, feed, Recorded, Idle
    <3>4. HandIsStored'
      BY <2>9, <3>1 DEF FInv, HandIsStored, vars, feed, Recorded, Idle, Missing, SameKey,
                        Telemetry, Delivered
    <3> QED
      BY <3>2, <3>3, <3>4 DEF FInv
  <2> QED
    BY <2>1, <2>2, <2>3, <2>4, <2>5, <2>6, <2>7, <2>8, <2>9 DEF Next
<1> QED
  BY <1>1, InitKeeps, PTL DEF Spec

(***************************************************************************)
(* A record that is not part of an observation, and that the next pull     *)
(* would not read, is in one of the gaps that have a name: no death of a   *)
(* pull, between any two of its steps, opens another ("a failure mid-pull  *)
(* re-reads its window rather than silently skipping it", README.md:210).  *)
(***************************************************************************)
THEOREM OnlyNamedGaps == Spec => []NothingElseIsSkipped
<1>1. FInv => NothingElseIsSkipped
  BY DEF FInv, Kept, NothingElseIsSkipped
<1> QED
  BY <1>1, Invariant, PTL
==============================================================================
