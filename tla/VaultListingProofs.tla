--------------------------- MODULE VaultListingProofs ---------------------------
(***************************************************************************)
(* A vault that does not change while it is read is listed whole and once, *)
(* for every vault, page size, guard and paging loop.                      *)
(***************************************************************************)
EXTENDS VaultListing, SequenceTheorems, FiniteSetTheorems, TLAPS

(***************************************************************************)
(* The inductive strengthening: the place is within the vault, a single    *)
(* answer starts at its beginning, and a loop that is over was cut short   *)
(* by an unfilled page or the guard, or has come to the end.               *)
(***************************************************************************)
ListingTypes ==
  /\ order \in Seq(Accounts) /\ served \in 1..PageSize /\ connector \in Connectors
  /\ pull = [pc |-> pull.pc, listed |-> pull.listed, place |-> pull.place, pages |-> pull.pages,
              mounts |-> pull.mounts, names |-> pull.names]
  /\ pull.pc \in {"idle", "listing", "listed"} /\ pull.pages \in Nat
  /\ during = [held |-> during.held, departures |-> during.departures,
                arrivals |-> during.arrivals, refusals |-> during.refusals]
  /\ during.departures \in Nat /\ during.arrivals \in Nat

PrefixListed ==
  pull.pc # "idle" /\ ~Walking /\ Still =>
    /\ pull.place \in 0..Len(order)
    /\ pull.listed = SubSeq(order, 1, pull.place)
    /\ pull.pc = "listing" /\ connector = "whole" => pull.place = 0
    /\ pull.pc = "listed" /\ Filled /\ Unguarded => pull.place = Len(order)

LInv == ListingTypes /\ PrefixListed

------------------------------------------------------------------------------
(***************************************************************************)
(* What a page adds to a prefix of the vault: the request at the place     *)
(* pull.place of ReadPage returns the accounts that follow.                *)
(***************************************************************************)
LEMMA PageExtendsPrefix ==
  ASSUME NEW place \in 0..Len(order), order \in Seq(Accounts), served \in 1..PageSize,
         connector = "whole" => place = 0
  PROVE  /\ SubSeq(order, 1, place) \o Page(place) = SubSeq(order, 1, place + Len(Page(place)))
         /\ place + Len(Page(place)) \in 0..Len(order)
         /\ connector = "whole" => place + Len(Page(place)) = Len(order)
         /\ connector # "whole" /\ Len(Page(place)) < served => place + Len(Page(place)) = Len(order)
<1>1. Len(order) \in Nat /\ PageSize \in Nat /\ served \in Nat
  BY ListingAssumption
<1>2. CASE connector = "whole"
  <2>1. Page(place) = order /\ place = 0
    BY <1>2 DEF Page
  <2>2. SubSeq(order, 1, 0) = <<>>
    BY SubSeqEmpty
  <2>3. <<>> \o order = order
    BY Z3
  <2>4. SubSeq(order, 1, Len(order)) = order
    BY SubSeqFull
  <2>. QED  BY <1>1, <1>2, <2>1, <2>2, <2>3, <2>4
<1>3. CASE connector # "whole"
  <2>. DEFINE last == IF place + served < Len(order) THEN place + served ELSE Len(order)
  <2>1. Page(place) = SubSeq(order, place + 1, last)
    BY <1>3 DEF Page
  <2>2. last \in place..Len(order) /\ (last - place < served => last = Len(order))
    BY <1>1
  <2>. HIDE DEF last
  <2>3. Len(Page(place)) = last - place
    <3>1. \A i \in (place + 1)..last : order[i] \in Accounts
      BY <1>1, <2>2
    <3>2. Len(SubSeq(order, place + 1, last)) =
            IF place + 1 <= last THEN last - (place + 1) + 1 ELSE 0
      BY <1>1, <2>2, <3>1, SubSeqProperties
    <3>. QED  BY <1>1, <2>1, <2>2, <3>2
  <2>4. SubSeq(order, 1, place) \o SubSeq(order, place + 1, last) = SubSeq(order, 1, last)
    <3>1. 1 \in 1..(Len(order) + 1) /\ place \in (1 - 1)..Len(order) /\ last \in place..Len(order)
      BY <1>1, <2>2
    <3>. QED  BY <3>1, ConcatAdjacentSubSeq
  <2>. QED  BY <1>1, <1>3, <2>1, <2>2, <2>3, <2>4
<1>. QED  BY <1>2, <1>3
------------------------------------------------------------------------------
LEMMA ListingInit == Init => LInv
  BY ListingAssumption DEF Init, LInv, ListingTypes, PrefixListed, Idle, Quiet

(***************************************************************************)
(* A change of the vault ends the stillness of the pull it falls into.     *)
(***************************************************************************)
LEMMA ListingChanges ==
  ASSUME LInv, NEW i \in Nat
  PROVE  /\ i \in 1..Len(order) /\ Departs(i) => LInv'
         /\ \A a \in Accounts : i \in 1..(Len(order) + 1) /\ Arrives(a, i) => LInv'
<1>0. Len(order) \in Nat /\ order \in Seq(Accounts)
  BY DEF LInv, ListingTypes
<1>1. ASSUME i \in 1..Len(order), Departs(i)
      PROVE  LInv'
  <2>1. order' \in Seq(Accounts)
    <3>1. SubSeq(order, 1, i - 1) \in Seq(Accounts) /\ SubSeq(order, i + 1, Len(order)) \in Seq(Accounts)
      BY <1>0, <1>1, SubSeqProperties
    <3>. QED  BY <1>1, <3>1, ConcatProperties DEF Departs, RemoveAt
  <2>2. /\ pull'.pc = pull.pc /\ pull'.pages = pull.pages
        /\ pull' = [pc |-> pull'.pc, listed |-> pull'.listed, place |-> pull'.place,
                    pages |-> pull'.pages, mounts |-> pull'.mounts, names |-> pull'.names]
    BY <1>1 DEF Departs, Moved, LInv, ListingTypes
  <2>3. /\ during'.departures \in Nat /\ during'.arrivals \in Nat
        /\ during' = [held |-> during'.held, departures |-> during'.departures,
                      arrivals |-> during'.arrivals, refusals |-> during'.refusals]
    <3>1. CASE during' = during
      BY <3>1 DEF LInv, ListingTypes
    <3>2. CASE during' = [during EXCEPT !.held = @ \ {order[i]}, !.departures = @ + 1]
      <4>1. DOMAIN during = {"held", "departures", "arrivals", "refusals"}
        BY DEF LInv, ListingTypes
      <4>2. /\ during'.departures = during.departures + 1 /\ during'.arrivals = during.arrivals
            /\ DOMAIN during' = DOMAIN during
        BY <3>2, <4>1
      <4>3. during' = [x \in DOMAIN during |-> during'[x]]
        BY <3>2, <4>1, <4>2
      <4>4. during' = [held |-> during'.held, departures |-> during'.departures,
                      arrivals |-> during'.arrivals, refusals |-> during'.refusals]
        BY <4>1, <4>3
      <4>. QED  BY <4>2, <4>4 DEF LInv, ListingTypes
    <3>. QED  BY <1>1, <3>1, <3>2 DEF Departs
  <2>4. ListingTypes'
    BY <1>1, <2>1, <2>2, <2>3 DEF LInv, ListingTypes, Departs
  <2>5. pull.pc # "idle" => ~Still'
    BY <1>1 DEF Departs, Still, LInv, ListingTypes
  <2>. QED  BY <2>2, <2>4, <2>5 DEF LInv, PrefixListed
<1>2. ASSUME NEW a \in Accounts, i \in 1..(Len(order) + 1), Arrives(a, i)
      PROVE  LInv'
  <2>1. order' \in Seq(Accounts)
    <3>1. SubSeq(order, 1, i - 1) \in Seq(Accounts) /\ SubSeq(order, i, Len(order)) \in Seq(Accounts)
      BY <1>0, <1>2, SubSeqProperties
    <3>2. <<a>> \in Seq(Accounts)
      OBVIOUS
    <3>. QED  BY <1>2, <3>1, <3>2, ConcatProperties DEF Arrives, InsertAt
  <2>2. /\ pull'.pc = pull.pc /\ pull'.pages = pull.pages
        /\ pull' = [pc |-> pull'.pc, listed |-> pull'.listed, place |-> pull'.place,
                    pages |-> pull'.pages, mounts |-> pull'.mounts, names |-> pull'.names]
    BY <1>2 DEF Arrives, Moved, LInv, ListingTypes
  <2>3. /\ during'.departures \in Nat /\ during'.arrivals \in Nat
        /\ during' = [held |-> during'.held, departures |-> during'.departures,
                      arrivals |-> during'.arrivals, refusals |-> during'.refusals]
    BY <1>2 DEF Arrives, LInv, ListingTypes
  <2>4. ListingTypes'
    BY <1>2, <2>1, <2>2, <2>3 DEF LInv, ListingTypes, Arrives
  <2>5. pull.pc # "idle" => ~Still'
    BY <1>2 DEF Arrives, Still, LInv, ListingTypes
  <2>. QED  BY <2>2, <2>4, <2>5 DEF LInv, PrefixListed
<1>. QED  BY <1>1, <1>2

(***************************************************************************)
(* One page of any loop: the prefix grows by it, and if the loop ends here *)
(* without unfilled pages or the guard, nothing is left.                   *)
(***************************************************************************)
LEMMA ListingPage ==
  ASSUME LInv, ReadPage
  PROVE  LInv'
<1>. DEFINE items == Page(pull.place)
            next == NextPlace(pull.place, items)
            pages == IF Guarded THEN pull.pages + 1 ELSE 0
<1>1. /\ pull.pc = "listing" /\ ~Walking
      /\ pull' = [pull EXCEPT !.listed = @ \o items, !.place = next, !.pages = pages,
                              !.pc = IF LastPage(items, next, pages) THEN "listed" ELSE "listing"]
      /\ UNCHANGED <<connector, served, order, during>>
  BY DEF ReadPage
<1>. HIDE DEF items, next, pages
<1>2. /\ pull'.pc = IF LastPage(items, next, pages) THEN "listed" ELSE "listing"
      /\ pull'.listed = pull.listed \o items /\ pull'.place = next /\ pull'.pages = pages
      /\ pull' = [pc |-> pull'.pc, listed |-> pull'.listed, place |-> pull'.place,
                  pages |-> pull'.pages, mounts |-> pull'.mounts, names |-> pull'.names]
  BY <1>1 DEF LInv, ListingTypes
<1>3. ListingTypes'
  BY <1>1, <1>2 DEF LInv, ListingTypes, pages
<1>4. CASE ~Still
  BY <1>1, <1>3, <1>4 DEF LInv, PrefixListed, Still
<1>5. CASE Still
  <2>1. /\ pull.place \in 0..Len(order) /\ pull.listed = SubSeq(order, 1, pull.place)
        /\ connector = "whole" => pull.place = 0
    BY <1>1, <1>5 DEF LInv, PrefixListed
  <2>2. /\ order \in Seq(Accounts) /\ served \in 1..PageSize /\ PageSize \in Nat
        /\ Len(order) \in Nat
        /\ connector \in {"whole", "page", "offset", "cursor", "cyberark", "delinea", "resources"}
    BY <1>1, ListingAssumption DEF LInv, ListingTypes, Walking
  <2>3. next = pull.place + Len(items)
    BY DEF items, next, NextPlace
  <2>4. /\ SubSeq(order, 1, pull.place) \o items = SubSeq(order, 1, next)
        /\ next \in 0..Len(order)
        /\ connector = "whole" => next = Len(order)
        /\ connector # "whole" /\ Len(items) < served => next = Len(order)
    BY <2>1, <2>2, <2>3, PageExtendsPrefix DEF items
  <2>9. pages \in Nat
    BY DEF pages, LInv, ListingTypes
  <2>5. LastPage(items, next, pages) /\ Filled /\ (Guarded => pages < MaximumPages) => next = Len(order)
    <3>. SUFFICES ASSUME LastPage(items, next, pages), Filled, Guarded => pages < MaximumPages
                  PROVE  next = Len(order)
      OBVIOUS
    <3>1. CASE connector = "whole"
      BY <2>4, <3>1
    <3>2. CASE next >= Len(order)
      BY <2>2, <2>4, <3>2
    <3>3. CASE connector \in {"page", "offset", "cyberark", "resources"} /\ Len(items) < PageSize
      BY <2>4, <3>3 DEF Filled
    <3>4. CASE Guarded /\ pages >= MaximumPages
      BY <2>9, <3>4, ListingAssumption
    <3>. QED  BY <2>2, <3>1, <3>2, <3>3, <3>4
           DEF LastPage, LastGenericPage, LastCyberArkPage, LastDelineaPage, LastResourcePage, Guarded
  <2>6. pull'.listed = SubSeq(order, 1, next)
    BY <1>2, <2>1, <2>4
  <2>7. PrefixListed'
    BY <1>1, <1>2, <2>4, <2>5, <2>6
       DEF PrefixListed, Filled, Unguarded, Guarded, Walking, LastPage
  <2>. QED  BY <1>3, <2>7 DEF LInv
<1>. QED  BY <1>4, <1>5
------------------------------------------------------------------------------
(***************************************************************************)
(* The steps that read no page: the vault's order, and the place and the   *)
(* listing of a paging loop, stay as they are.                             *)
(***************************************************************************)
LEMMA ListingWalks ==
  ASSUME LInv, ListRoles \/ ReadRole \/ EndWalk
  PROVE  LInv'
<1>1. Walking' /\ UNCHANGED <<order, served, connector>>
  BY DEF ListRoles, ReadRole, EndWalk, Walking
<1>2. /\ pull.pc = "listing" /\ pull'.pc \in {"listing", "listed"} /\ pull'.pages = pull.pages
      /\ pull' = [pc |-> pull'.pc, listed |-> pull'.listed, place |-> pull'.place,
                  pages |-> pull'.pages, mounts |-> pull'.mounts, names |-> pull'.names]
  <2>1. CASE ListRoles
    BY <2>1 DEF LInv, ListingTypes, ListRoles
  <2>2. CASE ReadRole
    BY <2>2 DEF LInv, ListingTypes, ReadRole
  <2>3. CASE EndWalk
    BY <2>3 DEF LInv, ListingTypes, EndWalk
  <2>. QED  BY <2>1, <2>2, <2>3
<1>3. \/ during' = during
      \/ during' = [during EXCEPT !.refusals = @ + 1]
  BY DEF ListRoles, ReadRole, EndWalk
<1>4. ListingTypes'
  BY <1>1, <1>2, <1>3 DEF LInv, ListingTypes
<1>. QED  BY <1>1, <1>4 DEF LInv, PrefixListed

LEMMA ListingStart ==
  ASSUME LInv, StartPull
  PROVE  LInv'
<1>1. SubSeq(order, 1, 0) = <<>> /\ Len(order) \in Nat
  BY SubSeqEmpty DEF LInv, ListingTypes
<1>2. /\ pull'.pc = "listing" /\ pull'.listed = <<>> /\ pull'.place = 0 /\ pull'.pages = 0
      /\ pull' = [pc |-> pull'.pc, listed |-> pull'.listed, place |-> pull'.place,
                  pages |-> pull'.pages, mounts |-> pull'.mounts, names |-> pull'.names]
  BY DEF StartPull, Idle
<1>3. /\ during'.departures = 0 /\ during'.arrivals = 0
      /\ during' = [held |-> during'.held, departures |-> during'.departures,
                    arrivals |-> during'.arrivals, refusals |-> during'.refusals]
      /\ UNCHANGED <<order, served, connector>>
  BY DEF StartPull, Quiet
<1>4. ListingTypes'
  BY <1>2, <1>3 DEF LInv, ListingTypes
<1>5. PrefixListed'
  BY <1>1, <1>2, <1>3 DEF PrefixListed
<1>. QED  BY <1>4, <1>5 DEF LInv

LEMMA ListingEnds ==
  ASSUME LInv, Reconcile \/ FailPull
  PROVE  LInv'
<1>1. pull' = Idle /\ during' = Quiet /\ UNCHANGED <<order, served, connector>>
  BY DEF Reconcile, FailPull
<1>2. ListingTypes'
  BY <1>1 DEF LInv, ListingTypes, Idle, Quiet
<1>3. PrefixListed'
  BY <1>1 DEF PrefixListed, Idle
<1>. QED  BY <1>2, <1>3 DEF LInv

(***************************************************************************)
(* Every step keeps the invariant.                                         *)
(***************************************************************************)
LEMMA ListingNext == LInv /\ [Next]_vars => LInv'
<1>. SUFFICES ASSUME LInv, [Next]_vars PROVE LInv'
  OBVIOUS
<1>1. ASSUME NEW i \in 1..Len(order), Departs(i) PROVE LInv'
  BY <1>1, ListingChanges DEF LInv, ListingTypes
<1>2. ASSUME NEW a \in Accounts, NEW i \in 1..(Len(order) + 1), Arrives(a, i) PROVE LInv'
  BY <1>2, ListingChanges DEF LInv, ListingTypes
<1>3. CASE StartPull
  BY <1>3, ListingStart
<1>4. CASE ReadPage
  BY <1>4, ListingPage
<1>5. CASE ListRoles \/ ReadRole \/ EndWalk
  BY <1>5, ListingWalks
<1>6. CASE Reconcile \/ FailPull
  BY <1>6, ListingEnds
<1>7. CASE UNCHANGED vars
  BY <1>7 DEF vars, LInv, ListingTypes, PrefixListed, Still, Walking, Filled, Unguarded, Guarded
<1>. QED  BY <1>1, <1>2, <1>3, <1>4, <1>5, <1>6, <1>7 DEF Next

(***************************************************************************)
(* The contract of iter_accounts (base.py:293-294) on a vault that does    *)
(* not change meanwhile, for every vault and every loop of pages: nothing  *)
(* is missed, nothing comes twice.                                         *)
(***************************************************************************)
THEOREM ListingIsComplete == Spec => []StillVaultIsListedOnce
<1>1. LInv => StillVaultIsListedOnce
  BY SubSeqFull DEF LInv, ListingTypes, PrefixListed, StillVaultIsListedOnce
<1>. QED  BY <1>1, ListingInit, ListingNext, PTL DEF Spec
------------------------------------------------------------------------------
(***************************************************************************)
(* What a listing may miss.  Behind are the accounts that were in the      *)
(* vault all the while, lie before the place a paging loop has reached,    *)
(* and were not listed.  An account comes to lie there only when another   *)
(* leaves before it; a cursor moves with the accounts, so nobody does.     *)
(***************************************************************************)
Upto(place) == {order[j] : j \in {i \in 1..Len(order) : i <= place}}
Behind == (during.held \cap Upto(pull.place)) \ Range(pull.listed)
Allowed == IF connector \in {"whole", "cursor", "walk"} THEN 0 ELSE during.departures

Positions ==
  /\ pull.pc # "idle" => during.held \subseteq Vault
  /\ pull.listed \in Seq(Accounts) /\ pull.place \in Nat
  /\ pull.mounts \in Seq(Range(Mounts))

LoopMisses ==
  ~Walking =>
    /\ pull.pc = "listing" /\ connector # "whole" => Cardinality(Behind) <= Allowed
    /\ pull.pc = "listed" /\ Filled /\ Unguarded => Cardinality(Missed) <= Allowed

\* What a walk has not listed yet is among the names or mounts it still has in hand.
WalkHasInHand ==
  Walking =>
    /\ during.refusals \in Nat
    /\ during.refusals = 0 =>
         \A a \in Missed : a \in pull.names \/ MountOf[a] \in Range(pull.mounts)
    /\ pull.pc = "listed" => pull.names = {} /\ pull.mounts = <<>>

MissInv == ListingTypes /\ Positions /\ LoopMisses /\ WalkHasInHand
------------------------------------------------------------------------------
LEMMA VaultIsFinite ==
  ASSUME order \in Seq(Accounts)
  PROVE  \A S : S \subseteq Vault => IsFiniteSet(S)
<1>1. order \in [1..Len(order) -> Accounts] /\ Len(order) \in Nat
  OBVIOUS
<1>2. order \in Surjection(1..Len(order), Range(order))
  BY <1>1 DEF Surjection, Range
<1>3. IsFiniteSet(Range(order))
  BY <1>1, <1>2, FS_Interval, FS_Surjection
<1>. QED  BY <1>3, FS_Subset DEF Vault

(***************************************************************************)
(* Of two sets that are held, the smaller has the smaller count, and one   *)
(* account more counts for one.                                            *)
(***************************************************************************)
LEMMA FewerCountLess ==
  ASSUME NEW S, IsFiniteSet(S), NEW T
  PROVE  /\ T \subseteq S => Cardinality(T) <= Cardinality(S)
         /\ \A x : T \subseteq S \cup {x} => Cardinality(T) <= Cardinality(S) + 1
         /\ Cardinality(S) \in Nat /\ (T \subseteq S => Cardinality(T) \in Nat)
<1>1. T \subseteq S => Cardinality(T) <= Cardinality(S) /\ IsFiniteSet(T)
  BY FS_Subset
<1>2. Cardinality(S) \in Nat /\ (T \subseteq S => Cardinality(T) \in Nat)
  BY <1>1, FS_CardinalityType
<1>3. ASSUME NEW x, T \subseteq S \cup {x}
      PROVE  Cardinality(T) <= Cardinality(S) + 1
  <2>1. /\ IsFiniteSet(S \cup {x})
        /\ Cardinality(S \cup {x}) = IF x \in S THEN Cardinality(S) ELSE Cardinality(S) + 1
    BY FS_AddElement
  <2>2. Cardinality(T) <= Cardinality(S \cup {x}) /\ IsFiniteSet(T)
    BY <1>3, <2>1, FS_Subset
  <2>3. Cardinality(T) \in Nat
    BY <2>2, FS_CardinalityType
  <2>. QED  BY <1>2, <2>1, <2>2, <2>3
<1>. QED  BY <1>1, <1>2, <1>3

(***************************************************************************)
(* What lies before a place when an account leaves or arrives.             *)
(***************************************************************************)
LEMMA OrderAfterDeparture ==
  ASSUME order \in Seq(Accounts), NEW i \in 1..Len(order), order' = RemoveAt(order, i)
  PROVE  /\ order' \in Seq(Accounts) /\ Len(order') = Len(order) - 1
         /\ \A j \in 1..Len(order') : order'[j] = IF j < i THEN order[j] ELSE order[j + 1]
         /\ Vault \ {order[i]} \subseteq Vault'
<1>. DEFINE front == SubSeq(order, 1, i - 1)
            back == SubSeq(order, i + 1, Len(order))
<1>1. Len(order) \in Nat /\ \A j \in 1..Len(order) : order[j] \in Accounts
  OBVIOUS
<1>2. front \in Seq(Accounts) /\ Len(front) = i - 1 /\ \A j \in 1..(i - 1) : front[j] = order[j]
  <2>1. \A j \in 1..(i - 1) : order[j] \in Accounts
    BY <1>1
  <2>2. 1 \in Int /\ i - 1 \in Int
    OBVIOUS
  <2>3. /\ SubSeq(order, 1, i - 1) \in Seq(Accounts)
        /\ Len(SubSeq(order, 1, i - 1)) = IF 1 <= i - 1 THEN (i - 1) - 1 + 1 ELSE 0
        /\ \A j \in 1..((i - 1) - 1 + 1) : SubSeq(order, 1, i - 1)[j] = order[1 + j - 1]
    BY <2>1, <2>2, SubSeqProperties
  <2>. QED  BY <1>1, <2>3
<1>3. back \in Seq(Accounts) /\ Len(back) = Len(order) - i
      /\ \A j \in 1..(Len(order) - i) : back[j] = order[i + j]
  <2>1. \A j \in (i + 1)..Len(order) : order[j] \in Accounts
    BY <1>1
  <2>2. i + 1 \in Int /\ Len(order) \in Int
    BY <1>1
  <2>3. /\ SubSeq(order, i + 1, Len(order)) \in Seq(Accounts)
        /\ Len(SubSeq(order, i + 1, Len(order))) =
             IF i + 1 <= Len(order) THEN Len(order) - (i + 1) + 1 ELSE 0
        /\ \A j \in 1..(Len(order) - (i + 1) + 1) :
             SubSeq(order, i + 1, Len(order))[j] = order[i + 1 + j - 1]
    BY <2>1, <2>2, SubSeqProperties
  <2>. QED  BY <1>1, <2>3
<1>4. order' = front \o back
  BY DEF RemoveAt
<1>. HIDE DEF front, back
<1>5. /\ order' \in Seq(Accounts) /\ Len(order') = Len(order) - 1
      /\ \A j \in 1..Len(order') : order'[j] = IF j <= i - 1 THEN front[j] ELSE back[j - (i - 1)]
  <2>1. /\ front \o back \in Seq(Accounts) /\ Len(front \o back) = Len(front) + Len(back)
        /\ \A j \in 1..(Len(front) + Len(back)) :
             (front \o back)[j] = IF j <= Len(front) THEN front[j] ELSE back[j - Len(front)]
    BY <1>2, <1>3, ConcatProperties
  <2>. QED  BY <1>1, <1>2, <1>3, <1>4, <2>1
<1>6. \A j \in 1..Len(order') : order'[j] = IF j < i THEN order[j] ELSE order[j + 1]
  BY <1>1, <1>2, <1>3, <1>5
<1>7. ASSUME NEW j \in 1..Len(order), j # i
      PROVE  order[j] \in Vault'
  <2>1. CASE j < i
    BY <1>1, <1>5, <1>6, <2>1 DEF Vault, Range
  <2>2. CASE j > i
    <3>1. j - 1 \in 1..Len(order') /\ order'[j - 1] = order[j]
      BY <1>1, <1>5, <1>6, <2>2
    <3>. QED  BY <1>5, <3>1 DEF Vault, Range
  <2>. QED  BY <1>1, <1>7, <2>1, <2>2
<1>. QED  BY <1>5, <1>6, <1>7 DEF Vault, Range

LEMMA OrderAfterArrival ==
  ASSUME order \in Seq(Accounts), NEW a \in Accounts, NEW i \in 1..(Len(order) + 1),
         order' = InsertAt(order, i, a)
  PROVE  /\ order' \in Seq(Accounts) /\ Len(order') = Len(order) + 1
         /\ \A j \in 1..Len(order') :
              order'[j] = IF j < i THEN order[j] ELSE IF j = i THEN a ELSE order[j - 1]
         /\ Vault \subseteq Vault'
<1>. DEFINE front == SubSeq(order, 1, i - 1)
            back == SubSeq(order, i, Len(order))
<1>1. Len(order) \in Nat /\ \A j \in 1..Len(order) : order[j] \in Accounts
  OBVIOUS
<1>2. front \in Seq(Accounts) /\ Len(front) = i - 1 /\ \A j \in 1..(i - 1) : front[j] = order[j]
  <2>1. \A j \in 1..(i - 1) : order[j] \in Accounts
    BY <1>1
  <2>2. 1 \in Int /\ i - 1 \in Int
    OBVIOUS
  <2>3. /\ SubSeq(order, 1, i - 1) \in Seq(Accounts)
        /\ Len(SubSeq(order, 1, i - 1)) = IF 1 <= i - 1 THEN (i - 1) - 1 + 1 ELSE 0
        /\ \A j \in 1..((i - 1) - 1 + 1) : SubSeq(order, 1, i - 1)[j] = order[1 + j - 1]
    BY <2>1, <2>2, SubSeqProperties
  <2>. QED  BY <1>1, <2>3
<1>3. back \in Seq(Accounts) /\ Len(back) = Len(order) - i + 1
      /\ \A j \in 1..(Len(order) - i + 1) : back[j] = order[i + j - 1]
  <2>1. \A j \in i..Len(order) : order[j] \in Accounts
    BY <1>1
  <2>2. i \in Int /\ Len(order) \in Int
    BY <1>1
  <2>3. /\ SubSeq(order, i, Len(order)) \in Seq(Accounts)
        /\ Len(SubSeq(order, i, Len(order))) = IF i <= Len(order) THEN Len(order) - i + 1 ELSE 0
        /\ \A j \in 1..(Len(order) - i + 1) : SubSeq(order, i, Len(order))[j] = order[i + j - 1]
    BY <2>1, <2>2, SubSeqProperties
  <2>. QED  BY <1>1, <2>3
<1>4. order' = front \o <<a>> \o back
  BY DEF InsertAt
<1>. HIDE DEF front, back
<1>5. /\ front \o <<a>> \in Seq(Accounts) /\ Len(front \o <<a>>) = i
      /\ \A j \in 1..i : (front \o <<a>>)[j] = IF j <= i - 1 THEN front[j] ELSE a
  <2>1. <<a>> \in Seq(Accounts) /\ Len(<<a>>) = 1 /\ <<a>>[1] = a
    OBVIOUS
  <2>2. /\ front \o <<a>> \in Seq(Accounts) /\ Len(front \o <<a>>) = Len(front) + Len(<<a>>)
        /\ \A j \in 1..(Len(front) + Len(<<a>>)) :
             (front \o <<a>>)[j] = IF j <= Len(front) THEN front[j] ELSE <<a>>[j - Len(front)]
    BY <1>2, <2>1, ConcatProperties
  <2>. QED  BY <1>1, <1>2, <2>1, <2>2
<1>6. /\ order' \in Seq(Accounts) /\ Len(order') = Len(order) + 1
      /\ \A j \in 1..Len(order') : order'[j] = IF j <= i THEN (front \o <<a>>)[j] ELSE back[j - i]
  <2>. DEFINE head == front \o <<a>>
  <2>1. order' = head \o back
    BY <1>4
  <2>2. head \in Seq(Accounts) /\ Len(head) = i
    BY <1>5
  <2>. HIDE DEF head
  <2>3. /\ head \o back \in Seq(Accounts) /\ Len(head \o back) = Len(head) + Len(back)
        /\ \A j \in 1..(Len(head) + Len(back)) :
             (head \o back)[j] = IF j <= Len(head) THEN head[j] ELSE back[j - Len(head)]
    BY <1>3, <2>2, ConcatProperties
  <2>4. /\ order' \in Seq(Accounts) /\ Len(order') = Len(order) + 1
        /\ \A j \in 1..Len(order') : order'[j] = IF j <= i THEN head[j] ELSE back[j - i]
    BY <1>1, <1>3, <2>1, <2>2, <2>3
  <2>. QED  BY <2>4 DEF head
<1>7. \A j \in 1..Len(order') :
        order'[j] = IF j < i THEN order[j] ELSE IF j = i THEN a ELSE order[j - 1]
  <2>. SUFFICES ASSUME NEW j \in 1..Len(order')
                PROVE  order'[j] = IF j < i THEN order[j] ELSE IF j = i THEN a ELSE order[j - 1]
    OBVIOUS
  <2>1. i \in Nat /\ j \in Nat /\ j <= Len(order) + 1 /\ j >= 1
    BY <1>1, <1>6
  <2>2. CASE j < i
    <3>1. j \in 1..(i - 1) /\ j \in 1..i
      BY <2>1, <2>2
    <3>. QED  BY <1>2, <1>5, <1>6, <2>1, <2>2, <3>1
  <2>3. CASE j = i
    <3>1. i \in 1..i /\ ~(i <= i - 1)
      BY <2>1, <2>3
    <3>. QED  BY <1>5, <1>6, <2>1, <2>3, <3>1
  <2>4. CASE j > i
    <3>1. j - i \in 1..(Len(order) - i + 1) /\ i + (j - i) - 1 = j - 1
      BY <1>1, <2>1, <2>4
    <3>2. back[j - i] = order[j - 1]
      BY <1>3, <3>1
    <3>. QED  BY <1>6, <2>1, <2>4, <3>2
  <2>. QED  BY <2>1, <2>2, <2>3, <2>4
<1>8. ASSUME NEW j \in 1..Len(order)
      PROVE  order[j] \in Vault'
  <2>1. CASE j < i
    <3>1. j \in 1..Len(order') /\ order'[j] = order[j]
      BY <1>1, <1>6, <1>7, <2>1
    <3>2. DOMAIN order' = 1..Len(order')
      BY <1>6
    <3>3. order'[j] \in Range(order')
      BY <3>1, <3>2 DEF Range
    <3>. QED  BY <3>1, <3>3 DEF Vault
  <2>2. CASE j >= i
    <3>1. j + 1 \in 1..Len(order') /\ order'[j + 1] = order[j]
      BY <1>1, <1>6, <1>7, <2>2
    <3>2. DOMAIN order' = 1..Len(order')
      BY <1>6
    <3>3. order'[j + 1] \in Range(order')
      BY <3>1, <3>2 DEF Range
    <3>. QED  BY <3>1, <3>3 DEF Vault
  <2>. QED  BY <1>1, <2>1, <2>2
<1>. QED  BY <1>6, <1>7, <1>8 DEF Vault, Range
------------------------------------------------------------------------------
\* What a change of the vault leaves of the pull and of its history.
LEMMA PullMoves ==
  ASSUME ListingTypes, NEW place, pull' = Moved(place)
  PROVE  /\ pull'.pc = pull.pc /\ pull'.listed = pull.listed /\ pull'.pages = pull.pages
         /\ pull'.mounts = pull.mounts /\ pull'.names = pull.names
         /\ pull'.place = IF connector = "cursor" /\ pull.pc = "listing" THEN place ELSE pull.place
<1>1. PICK c, l, p, g, m, n :
        pull = [pc |-> c, listed |-> l, place |-> p, pages |-> g, mounts |-> m, names |-> n]
  BY DEF ListingTypes
<1>2. [pull EXCEPT !.place = place] =
        [pc |-> c, listed |-> l, place |-> place, pages |-> g, mounts |-> m, names |-> n]
  BY <1>1
<1>3. CASE connector = "cursor" /\ pull.pc = "listing"
  BY <1>1, <1>2, <1>3 DEF Moved
<1>4. CASE ~(connector = "cursor" /\ pull.pc = "listing")
  BY <1>4 DEF Moved
<1>. QED  BY <1>3, <1>4

LEMMA HistoryNotes ==
  ASSUME ListingTypes, NEW left
  PROVE  LET after == [during EXCEPT !.held = @ \ left, !.departures = @ + 1]
         IN /\ after.held = during.held \ left /\ after.departures = during.departures + 1
            /\ after.refusals = during.refusals
<1>1. DOMAIN during = {"held", "departures", "arrivals", "refusals"}
  BY DEF ListingTypes
<1>. QED  BY <1>1

(***************************************************************************)
(* An account that leaves puts at most one more behind the loop: the one   *)
(* that lay right after the place.  A cursor steps back with it.           *)
(***************************************************************************)
LEMMA MissDeparts ==
  ASSUME MissInv, NEW i \in 1..Len(order), Departs(i), pull.pc # "idle"
  PROVE  Positions' /\ LoopMisses' /\ WalkHasInHand'
<1>. DEFINE back == IF i <= pull.place THEN pull.place - 1 ELSE pull.place
            next == Upto(pull.place + 1) \ Upto(pull.place)
<1>1. /\ order \in Seq(Accounts) /\ Len(order) \in Nat /\ pull.place \in Nat
      /\ during.held \subseteq Vault /\ during.departures \in Nat
  BY DEF MissInv, ListingTypes, Positions
<1>2. /\ order' \in Seq(Accounts) /\ Len(order') = Len(order) - 1
      /\ \A j \in 1..Len(order') : order'[j] = IF j < i THEN order[j] ELSE order[j + 1]
      /\ Vault \ {order[i]} \subseteq Vault'
  BY <1>1, OrderAfterDeparture DEF Departs
<1>3. /\ pull'.pc = pull.pc /\ pull'.listed = pull.listed /\ pull'.pages = pull.pages
      /\ pull'.mounts = pull.mounts /\ pull'.names = pull.names
      /\ pull'.place = IF connector = "cursor" /\ pull.pc = "listing" THEN back ELSE pull.place
  BY PullMoves DEF MissInv, Departs
<1>4. /\ during'.held = during.held \ {order[i]} /\ during'.departures = during.departures + 1
      /\ during'.refusals = during.refusals
  BY HistoryNotes DEF MissInv, Departs
<1>5. UNCHANGED <<connector, served>>
  BY DEF Departs
<1>6. Positions'
  BY <1>1, <1>2, <1>3, <1>4 DEF MissInv, Positions
<1>7. Missed' \subseteq Missed
  BY <1>3, <1>4 DEF Missed
<1>8. IsFiniteSet(Missed) /\ IsFiniteSet(Behind)
  BY <1>1, VaultIsFinite DEF Missed, Behind
<1>9. Allowed \in Nat /\ Allowed <= Allowed'
      /\ (connector \notin {"whole", "cursor", "walk"} => Allowed' = Allowed + 1)
  BY <1>1, <1>4, <1>5 DEF Allowed
<1>10. ASSUME pull.pc = "listing", ~Walking, connector # "whole"
       PROVE  Cardinality(Behind') <= Allowed'
  <2>1. Cardinality(Behind) <= Allowed /\ Cardinality(Behind) \in Nat
    BY <1>8, <1>10, FS_CardinalityType DEF MissInv, LoopMisses
  <2>2. CASE connector = "cursor"
    <3>1. ASSUME NEW a \in Behind'
          PROVE  a \in Behind
      <4>1. PICK j \in 1..Len(order') : j <= back /\ order'[j] = a
        BY <1>3, <1>10, <2>2 DEF Behind, Upto
      <4>2. PICK k \in 1..Len(order) : k <= pull.place /\ order[k] = a
        <5>1. CASE j < i
          <6>1. j \in 1..Len(order) /\ j <= pull.place /\ order[j] = a
            BY <1>1, <1>2, <4>1, <5>1
          <6>. QED  BY <6>1
        <5>2. CASE j >= i
          <6>1. j + 1 \in 1..Len(order) /\ j + 1 <= pull.place /\ order[j + 1] = a
            BY <1>1, <1>2, <4>1, <5>2
          <6>. QED  BY <6>1
        <5>. QED  BY <1>1, <1>2, <4>1, <5>1, <5>2
      <4>. QED  BY <1>3, <1>4, <4>2 DEF Behind, Upto
    <3>2. Cardinality(Behind') <= Cardinality(Behind) /\ Cardinality(Behind') \in Nat
      BY <1>8, <3>1, FewerCountLess
    <3>. QED  BY <1>9, <2>1, <3>2, FS_CardinalityType DEF Allowed
  <2>3. CASE connector # "cursor"
    <3>1. ASSUME NEW a \in Behind', a # order[pull.place + 1]
          PROVE  a \in Behind
      <4>1. PICK j \in 1..Len(order') : j <= pull.place /\ order'[j] = a
        BY <1>3, <2>3 DEF Behind, Upto
      <4>2. PICK k \in 1..Len(order) : k <= pull.place + 1 /\ order[k] = a
        <5>1. CASE j < i
          <6>1. j \in 1..Len(order) /\ j <= pull.place + 1 /\ order[j] = a
            BY <1>1, <1>2, <4>1, <5>1
          <6>. QED  BY <6>1
        <5>2. CASE j >= i
          <6>1. j + 1 \in 1..Len(order) /\ j + 1 <= pull.place + 1 /\ order[j + 1] = a
            BY <1>1, <1>2, <4>1, <5>2
          <6>. QED  BY <6>1
        <5>. QED  BY <1>1, <1>2, <4>1, <5>1, <5>2
      <4>3. k <= pull.place
        BY <1>1, <3>1, <4>2
      <4>. QED  BY <1>3, <1>4, <4>2, <4>3 DEF Behind, Upto
    <3>2. Behind' \subseteq Behind \cup {order[pull.place + 1]}
      BY <3>1
    <3>3. Cardinality(Behind') <= Cardinality(Behind) + 1
      BY <1>8, <3>2, FewerCountLess
    <3>4. IsFiniteSet(Behind')
      <4>1. IsFiniteSet(Behind \cup {order[pull.place + 1]})
        BY <1>8, FS_AddElement
      <4>. HIDE DEF Behind
      <4>. QED  BY <3>2, <4>1, FS_Subset
    <3>5. Cardinality(Behind') \in Nat
      BY <3>4, FS_CardinalityType
    <3>6. connector \notin {"whole", "cursor", "walk"}
      BY <1>10, <2>3 DEF Walking
    <3>. QED  BY <1>9, <2>1, <3>3, <3>5, <3>6
  <2>. QED  BY <2>2, <2>3
<1>11. ASSUME pull.pc = "listed", ~Walking, Filled, Unguarded
       PROVE  Cardinality(Missed') <= Allowed'
  <2>1. Cardinality(Missed) <= Allowed
    BY <1>11 DEF MissInv, LoopMisses
  <2>2. /\ Cardinality(Missed') <= Cardinality(Missed)
        /\ Cardinality(Missed') \in Nat /\ Cardinality(Missed) \in Nat
    BY <1>7, <1>8, FewerCountLess
  <2>. QED  BY <1>1, <1>4, <1>9, <2>1, <2>2 DEF Allowed
<1>12. LoopMisses'
  BY <1>3, <1>5, <1>10, <1>11 DEF LoopMisses, Filled, Unguarded, Guarded, Walking
<1>13. WalkHasInHand'
  BY <1>3, <1>4, <1>5, <1>7 DEF MissInv, WalkHasInHand, Walking
<1>. QED  BY <1>6, <1>12, <1>13

(***************************************************************************)
(* An account that arrives pushes others beyond the place, never before    *)
(* it, and was not in the vault all the while itself.                      *)
(***************************************************************************)
LEMMA MissArrives ==
  ASSUME MissInv, NEW a \in Accounts, NEW i \in 1..(Len(order) + 1), Arrives(a, i), pull.pc # "idle"
  PROVE  Positions' /\ LoopMisses' /\ WalkHasInHand'
<1>. DEFINE on == IF i <= pull.place THEN pull.place + 1 ELSE pull.place
<1>1. /\ order \in Seq(Accounts) /\ Len(order) \in Nat /\ pull.place \in Nat
      /\ during.held \subseteq Vault /\ during.departures \in Nat
  BY DEF MissInv, ListingTypes, Positions
<1>2. /\ order' \in Seq(Accounts) /\ Len(order') = Len(order) + 1
      /\ \A j \in 1..Len(order') :
           order'[j] = IF j < i THEN order[j] ELSE IF j = i THEN a ELSE order[j - 1]
      /\ Vault \subseteq Vault'
  BY <1>1, OrderAfterArrival DEF Arrives
<1>3. /\ pull'.pc = pull.pc /\ pull'.listed = pull.listed /\ pull'.pages = pull.pages
      /\ pull'.mounts = pull.mounts /\ pull'.names = pull.names
      /\ pull'.place = IF connector = "cursor" /\ pull.pc = "listing" THEN on ELSE pull.place
  BY PullMoves DEF MissInv, Arrives
<1>4. /\ during'.held = during.held /\ during'.departures = during.departures
      /\ during'.refusals = during.refusals
  <2>1. PICK h, d, v, r : during = [held |-> h, departures |-> d, arrivals |-> v, refusals |-> r]
    BY DEF MissInv, ListingTypes
  <2>2. during' = [held |-> h, departures |-> d, arrivals |-> v + 1, refusals |-> r]
    BY <2>1 DEF Arrives
  <2>. QED  BY <2>1, <2>2
<1>5. UNCHANGED <<connector, served>> /\ a \notin Vault
  BY DEF Arrives
<1>6. Positions'
  BY <1>1, <1>2, <1>3, <1>4 DEF MissInv, Positions
<1>7. Missed' = Missed /\ Allowed' = Allowed
  BY <1>3, <1>4, <1>5 DEF Missed, Allowed
<1>8. ASSUME pull.pc = "listing", ~Walking, connector # "whole"
       PROVE  Cardinality(Behind') <= Allowed'
  <2>1. Cardinality(Behind) <= Allowed
    BY <1>8 DEF MissInv, LoopMisses
  <2>2. ASSUME NEW b \in Behind'
        PROVE  b \in Behind
    <3>1. PICK j \in 1..Len(order') : j <= pull'.place /\ order'[j] = b
      BY DEF Behind, Upto
    <3>2. b # a
      BY <1>1, <1>4, <1>5 DEF Behind
    <3>3. PICK k \in 1..Len(order) : k <= pull.place /\ order[k] = b
      <4>1. CASE j < i
        BY <1>1, <1>2, <1>3, <3>1, <4>1
      <4>2. CASE j > i
        <5>1. order[j - 1] = b /\ j - 1 \in 1..Len(order)
          BY <1>1, <1>2, <3>1, <4>2
        <5>2. j - 1 <= pull.place
          BY <1>1, <1>3, <3>1
        <5>. QED  BY <5>1, <5>2
      <4>. QED  BY <1>2, <3>1, <3>2, <4>1, <4>2
    <3>. QED  BY <1>3, <1>4, <3>3 DEF Behind, Upto
  <2>3. IsFiniteSet(Behind)
    BY <1>1, VaultIsFinite DEF Behind
  <2>4. /\ Cardinality(Behind') <= Cardinality(Behind)
        /\ Cardinality(Behind') \in Nat /\ Cardinality(Behind) \in Nat
    BY <2>2, <2>3, FewerCountLess
  <2>. QED  BY <1>1, <1>7, <2>1, <2>4 DEF Allowed
<1>9. LoopMisses'
  BY <1>3, <1>5, <1>7, <1>8 DEF MissInv, LoopMisses, Filled, Unguarded, Guarded, Walking
<1>10. WalkHasInHand'
  BY <1>3, <1>4, <1>5, <1>7 DEF MissInv, WalkHasInHand, Walking
<1>. QED  BY <1>6, <1>9, <1>10

(***************************************************************************)
(* A page: what lies between the place and the next is on it, and a page   *)
(* the server could have filled more is the last there is.                 *)
(***************************************************************************)
LEMMA PageHolds ==
  ASSUME order \in Seq(Accounts), served \in 1..PageSize, NEW place \in Nat, connector # "whole"
  PROVE  /\ Page(place) \in Seq(Accounts)
         /\ \A j \in 1..Len(order) :
              place < j /\ j <= place + Len(Page(place)) => order[j] \in Range(Page(place))
         /\ Len(Page(place)) < served => place + Len(Page(place)) >= Len(order)
<1>. DEFINE last == IF place + served < Len(order) THEN place + served ELSE Len(order)
<1>1. /\ Len(order) \in Nat /\ served \in Nat /\ PageSize \in Nat
      /\ \A j \in 1..Len(order) : order[j] \in Accounts
  BY ListingAssumption
<1>2. Page(place) = SubSeq(order, place + 1, last)
  BY DEF Page
<1>3. /\ last \in Nat /\ last <= Len(order) /\ last <= place + served
      /\ last < place + served => last = Len(order)
  BY <1>1
<1>. HIDE DEF last
<1>4. /\ SubSeq(order, place + 1, last) \in Seq(Accounts)
      /\ Len(SubSeq(order, place + 1, last)) =
           IF place + 1 <= last THEN last - (place + 1) + 1 ELSE 0
      /\ \A j \in 1..(last - (place + 1) + 1) :
           SubSeq(order, place + 1, last)[j] = order[place + 1 + j - 1]
  <2>1. \A j \in (place + 1)..last : order[j] \in Accounts
    BY <1>1, <1>3
  <2>2. place + 1 \in Int /\ last \in Int
    BY <1>3
  <2>3. /\ SubSeq(order, place + 1, last) \in Seq(Accounts)
        /\ Len(SubSeq(order, place + 1, last)) =
             IF place + 1 <= last THEN last - (place + 1) + 1 ELSE 0
    BY <2>1, <2>2, SubSeqProperties
  <2>4. \A j \in 1..(last - (place + 1) + 1) :
          SubSeq(order, place + 1, last)[j] = order[place + 1 + j - 1]
    BY <2>1, <2>2, SubSeqProperties
  <2>. QED  BY <2>3, <2>4
<1>. DEFINE page == Page(place)
<1>5. page \in Seq(Accounts) /\ Len(page) = IF place + 1 <= last THEN last - place ELSE 0
  BY <1>2, <1>3, <1>4
<1>6. \A j \in 1..(last - place) : page[j] = order[place + j]
  BY <1>2, <1>3, <1>4
<1>7. DOMAIN page = 1..Len(page)
  BY <1>5
<1>. HIDE DEF page
<1>8. ASSUME NEW j \in 1..Len(order), place < j, j <= place + Len(page)
      PROVE  order[j] \in Range(page)
  <2>1. j - place \in 1..Len(page) /\ j - place \in 1..(last - place) /\ place + (j - place) = j
    BY <1>3, <1>5, <1>8
  <2>2. page[j - place] = order[j]
    BY <1>6, <2>1
  <2>. QED  BY <1>7, <2>1, <2>2 DEF Range
<1>9. Len(page) < served => place + Len(page) >= Len(order)
  BY <1>1, <1>3, <1>5
<1>. QED  BY <1>5, <1>8, <1>9 DEF page

\* A loop that ends on filled pages below its guard has come to the end of the vault.
LEMMA LastPageIsTheEnd ==
  ASSUME ListingTypes, NEW place \in Nat, NEW pages \in Nat, ~Walking, connector # "whole",
         LastPage(Page(place), NextPlace(place, Page(place)), pages), Filled,
         Guarded => pages < MaximumPages
  PROVE  NextPlace(place, Page(place)) >= Len(order)
<1>. DEFINE items == Page(place)
            next == NextPlace(place, items)
<1>1. /\ items \in Seq(Accounts) /\ next = place + Len(items)
      /\ Len(items) < served => next >= Len(order)
  BY PageHolds DEF ListingTypes, NextPlace
<1>2. /\ connector \in {"page", "offset", "cursor", "cyberark", "delinea", "resources"}
      /\ MaximumPages \in Nat /\ Len(order) \in Nat /\ Len(items) \in Nat /\ next \in Nat
  BY <1>1, ListingAssumption DEF ListingTypes, Walking
<1>. HIDE DEF items, next
<1>3. CASE next >= Len(order)
  BY <1>3 DEF items, next
<1>4. CASE connector \in {"page", "offset", "cyberark", "resources"} /\ Len(items) < PageSize
  BY <1>1, <1>4 DEF Filled, items, next
<1>5. CASE Guarded /\ pages >= MaximumPages
  BY <1>2, <1>5
<1>6. LastPage(items, next, pages)
  BY DEF items, next
<1>. QED  BY <1>2, <1>3, <1>4, <1>5, <1>6
       DEF LastPage, LastGenericPage, LastCyberArkPage, LastDelineaPage, LastResourcePage, Guarded

(***************************************************************************)
(* A request of a loop puts nobody behind it: what lies before the new     *)
(* place is on the page.  At the end of the vault, who was missed lies     *)
(* behind.                                                                 *)
(***************************************************************************)
LEMMA MissPage ==
  ASSUME MissInv, ReadPage
  PROVE  Positions' /\ LoopMisses' /\ WalkHasInHand'
<1>. DEFINE items == Page(pull.place)
            next == NextPlace(pull.place, items)
            pages == IF Guarded THEN pull.pages + 1 ELSE 0
<1>1. /\ pull.pc = "listing" /\ ~Walking
      /\ pull' = [pull EXCEPT !.listed = @ \o items, !.place = next, !.pages = pages,
                              !.pc = IF LastPage(items, next, pages) THEN "listed" ELSE "listing"]
      /\ UNCHANGED <<connector, served, order, during>>
  BY DEF ReadPage
<1>2. /\ order \in Seq(Accounts) /\ Len(order) \in Nat /\ served \in 1..PageSize
      /\ pull.place \in Nat /\ pull.listed \in Seq(Accounts) /\ pages \in Nat
      /\ during.held \subseteq Vault /\ during.departures \in Nat
  BY <1>1 DEF MissInv, ListingTypes, Positions
<1>3. items \in Seq(Accounts) /\ next = pull.place + Len(items) /\ next \in Nat
  <2>1. items \in Seq(Accounts)
    BY <1>2, PageHolds DEF Page
  <2>. HIDE DEF items
  <2>. QED  BY <1>2, <2>1 DEF NextPlace
<1>. HIDE DEF items, next, pages
<1>4. /\ pull'.pc = IF LastPage(items, next, pages) THEN "listed" ELSE "listing"
      /\ pull'.listed = pull.listed \o items /\ pull'.place = next /\ pull'.pages = pages
      /\ pull'.mounts = pull.mounts
  BY <1>1 DEF MissInv, ListingTypes
<1>5. pull'.listed \in Seq(Accounts) /\ Range(pull'.listed) = Range(pull.listed) \cup Range(items)
  <2>1. /\ pull.listed \o items \in Seq(Accounts)
        /\ Range(pull.listed \o items) = Range(pull.listed) \cup Range(items)
    BY <1>2, <1>3, ConcatProperties, RangeConcatenation
  <2>. QED  BY <1>4, <2>1
<1>6. Positions'
  BY <1>1, <1>2, <1>3, <1>4, <1>5 DEF MissInv, Positions, Vault
<1>7. /\ IsFiniteSet(Behind) /\ IsFiniteSet(Missed)
      /\ Allowed' = Allowed /\ Allowed \in Nat
  BY <1>1, <1>2, VaultIsFinite DEF Behind, Missed, Allowed
<1>8. CASE connector = "whole"
  <2>1. items = order
    BY <1>8 DEF items, Page
  <2>2. Missed' = {}
    BY <1>1, <1>2, <1>5, <2>1 DEF Missed, Vault
  <2>3. Cardinality(Missed') = 0
    BY <2>2, FS_EmptySet
  <2>. QED  BY <1>1, <1>6, <1>7, <1>8, <2>3 DEF LoopMisses, WalkHasInHand, Walking
<1>9. CASE connector # "whole"
  <2>1. /\ \A j \in 1..Len(order) :
             pull.place < j /\ j <= pull.place + Len(items) => order[j] \in Range(items)
    BY <1>2, <1>9, PageHolds DEF items
  <2>2. Behind' \subseteq Behind
    <3>1. ASSUME NEW a \in Behind'
          PROVE  a \in Behind
      <4>1. PICK j \in 1..Len(order) : j <= next /\ order[j] = a
        BY <1>1, <1>4 DEF Behind, Upto
      <4>2. a \notin Range(items) /\ a \notin Range(pull.listed)
        BY <1>5 DEF Behind
      <4>3. j <= pull.place
        BY <1>2, <1>3, <2>1, <4>1, <4>2
      <4>. QED  BY <1>1, <4>1, <4>2, <4>3 DEF Behind, Upto
    <3>. QED  BY <3>1
  <2>3. Cardinality(Behind) <= Allowed
    BY <1>1, <1>9 DEF MissInv, LoopMisses
  <2>4. \A S : S \subseteq Behind => Cardinality(S) <= Allowed
    <3>1. \A S : S \subseteq Behind =>
            /\ Cardinality(S) <= Cardinality(Behind)
            /\ Cardinality(S) \in Nat /\ Cardinality(Behind) \in Nat
      BY <1>7, FewerCountLess
    <3>. QED  BY <1>7, <2>3, <3>1
  <2>5. ASSUME LastPage(items, next, pages), Filled, Guarded => pages < MaximumPages
        PROVE  Missed' \subseteq Behind
    <3>1. next >= Len(order)
      BY <1>1, <1>2, <1>9, <2>5, LastPageIsTheEnd DEF MissInv, items, next
    <3>2. ASSUME NEW a \in Missed'
          PROVE  a \in Behind'
      <4>1. a \in Range(order) /\ DOMAIN order = 1..Len(order)
        BY <1>1, <1>2 DEF Missed, Vault
      <4>2. PICK j \in 1..Len(order) : order[j] = a
        BY <4>1 DEF Range
      <4>3. j <= next
        BY <1>2, <1>3, <3>1
      <4>. QED  BY <1>1, <1>4, <4>2, <4>3 DEF Missed, Behind, Upto
    <3>. QED  BY <2>2, <3>2
  <2>6. LoopMisses'
    BY <1>1, <1>4, <1>7, <2>2, <2>4, <2>5 DEF LoopMisses, Filled, Unguarded, Guarded, Walking
  <2>. QED  BY <1>1, <1>6, <2>6 DEF WalkHasInHand, Walking
<1>. QED  BY <1>8, <1>9

(***************************************************************************)
(* A walk that is refused nothing reads every role it has in hand: what is *)
(* gone by then was not in the vault all the while.                        *)
(***************************************************************************)
LEMMA MissWalks ==
  ASSUME MissInv, ListRoles \/ ReadRole \/ EndWalk
  PROVE  Positions' /\ LoopMisses' /\ WalkHasInHand'
<1>1. /\ Walking /\ Walking' /\ pull.pc = "listing" /\ UNCHANGED <<order, served, connector>>
      /\ during.held \subseteq Vault /\ pull.mounts \in Seq(Range(Mounts))
      /\ pull.listed \in Seq(Accounts) /\ pull.place \in Nat
  BY DEF ListRoles, ReadRole, EndWalk, Walking, MissInv, Positions
<1>2. LoopMisses'
  BY <1>1 DEF LoopMisses
<1>3. DOMAIN pull = {"pc", "listed", "place", "pages", "mounts", "names"}
      /\ DOMAIN during = {"held", "departures", "arrivals", "refusals"}
  BY DEF MissInv, ListingTypes
<1>4. /\ during.refusals \in Nat
      /\ during.refusals = 0 =>
           \A a \in Missed : a \in pull.names \/ MountOf[a] \in Range(pull.mounts)
  BY <1>1 DEF MissInv, WalkHasInHand
<1>5. \/ during' = during
      \/ during'.held = during.held /\ during'.refusals = during.refusals + 1
  BY <1>3 DEF ListRoles, ReadRole, EndWalk
<1>6. CASE ListRoles
  <2>1. pull.mounts # <<>> /\ pull.names = {} /\ pull'.mounts = Tail(pull.mounts)
        /\ pull'.listed = pull.listed /\ pull'.place = pull.place /\ pull'.pc = "listing"
    BY <1>3, <1>6 DEF ListRoles
  <2>2. /\ Tail(pull.mounts) \in Seq(Range(Mounts))
        /\ Range(pull.mounts) \subseteq {Head(pull.mounts)} \cup Range(Tail(pull.mounts))
    <3>. DEFINE t == Tail(pull.mounts)
    <3>1. /\ t \in Seq(Range(Mounts)) /\ Len(t) = Len(pull.mounts) - 1
          /\ \A k \in 1..Len(t) : t[k] = pull.mounts[k + 1]
      BY <1>1, <2>1, HeadTailProperties
    <3>2. DOMAIN t = 1..Len(t) /\ DOMAIN pull.mounts = 1..Len(pull.mounts) /\ Len(pull.mounts) \in Nat
      BY <1>1, <3>1
    <3>3. ASSUME NEW k \in 1..Len(pull.mounts)
          PROVE  pull.mounts[k] \in {Head(pull.mounts)} \cup Range(t)
      <4>1. CASE k = 1
        BY <1>1, <2>1, <4>1
      <4>2. CASE k # 1
        <5>1. k - 1 \in 1..Len(t) /\ t[k - 1] = pull.mounts[k]
          BY <3>1, <3>2, <4>2
        <5>. QED  BY <3>2, <5>1 DEF Range
      <4>. QED  BY <4>1, <4>2
    <3>. QED  BY <3>1, <3>2, <3>3 DEF Range
  <2>3. Positions'
    BY <1>1, <1>5, <2>1, <2>2 DEF Positions, Vault
  <2>4. Missed' = Missed
    BY <1>5, <2>1 DEF Missed
  <2>5. CASE during' = during /\ pull'.names = {a \in Vault : MountOf[a] = Head(pull.mounts)}
    <3>1. ASSUME during.refusals = 0, NEW a \in Missed
          PROVE  a \in pull'.names \/ MountOf[a] \in Range(pull'.mounts)
      <4>1. MountOf[a] \in Range(pull.mounts) /\ a \in Vault
        BY <1>1, <1>4, <2>1, <3>1 DEF Missed
      <4>. QED  BY <2>1, <2>2, <2>5, <4>1
    <3>. QED  BY <1>1, <1>2, <1>4, <2>1, <2>3, <2>4, <2>5, <3>1 DEF WalkHasInHand
  <2>6. CASE during'.refusals = during.refusals + 1
    BY <1>1, <1>2, <1>4, <2>1, <2>3, <2>6 DEF WalkHasInHand
  <2>. QED  BY <1>3, <1>6, <2>5, <2>6 DEF ListRoles
<1>7. CASE ReadRole
  <2>1. PICK role \in pull.names :
          \/ /\ role \in Vault
             /\ pull' = [pull EXCEPT !.names = @ \ {role}, !.listed = Append(@, role)]
             /\ UNCHANGED <<troubles, during>>
          \/ /\ role \notin Vault
             /\ pull' = [pull EXCEPT !.names = @ \ {role}]
             /\ UNCHANGED <<troubles, during>>
          \/ /\ during' = [during EXCEPT !.refusals = @ + 1]
             /\ pull' = [pull EXCEPT !.names = @ \ {role}]
    BY <1>7 DEF ReadRole
  <2>2. /\ pull'.pc = "listing" /\ pull'.mounts = pull.mounts /\ pull'.place = pull.place
        /\ pull'.names = pull.names \ {role}
    BY <1>1, <1>3, <2>1
  <2>3. CASE pull'.listed = Append(pull.listed, role) /\ role \in Vault /\ during' = during
    <3>1. role \in Accounts
      BY <2>3, RangeOfSeq DEF Vault, MissInv, ListingTypes
    <3>. DEFINE more == Append(pull.listed, role)
    <3>2. more \in Seq(Accounts) /\ Len(more) = Len(pull.listed) + 1
          /\ (\A k \in 1..Len(pull.listed) : more[k] = pull.listed[k])
          /\ more[Len(pull.listed) + 1] = role
      BY <1>1, <3>1, AppendProperties
    <3>. HIDE DEF more
    <3>3. DOMAIN more = 1..Len(more) /\ DOMAIN pull.listed = 1..Len(pull.listed)
          /\ Len(pull.listed) \in Nat
      BY <1>1, <3>2
    <3>4. Range(pull.listed) \cup {role} \subseteq Range(more)
      <4>1. role \in Range(more)
        BY <3>2, <3>3 DEF Range
      <4>2. ASSUME NEW k \in 1..Len(pull.listed) PROVE pull.listed[k] \in Range(more)
        BY <3>2, <3>3 DEF Range
      <4>. QED  BY <3>3, <4>1, <4>2 DEF Range
    <3>5. pull'.listed = more
      BY <2>3 DEF more
    <3>6. Positions'
      BY <1>1, <2>2, <2>3, <3>2, <3>5 DEF Positions, Vault
    <3>7. Missed' \subseteq Missed \ {role}
      BY <2>3, <3>4, <3>5 DEF Missed
    <3>. QED  BY <1>1, <1>2, <1>4, <2>2, <2>3, <3>6, <3>7 DEF WalkHasInHand
  <2>4. CASE pull'.listed = pull.listed /\ role \notin Vault /\ during' = during
    <3>1. Positions'
      BY <1>1, <2>2, <2>4 DEF Positions, Vault
    <3>2. Missed' = Missed /\ role \notin Missed
      BY <1>1, <2>4 DEF Missed
    <3>. QED  BY <1>1, <1>2, <1>4, <2>2, <2>4, <3>1, <3>2 DEF WalkHasInHand
  <2>5. CASE /\ pull'.listed = pull.listed /\ during'.held = during.held
             /\ during'.refusals = during.refusals + 1
    BY <1>1, <1>2, <1>4, <2>2, <2>5 DEF WalkHasInHand, Positions, Vault
  <2>. QED  BY <1>3, <2>1, <2>3, <2>4, <2>5
<1>8. CASE EndWalk
  <2>1. /\ pull.names = {} /\ pull.mounts = <<>> /\ during' = during
        /\ pull'.names = {} /\ pull'.mounts = <<>> /\ pull'.listed = pull.listed
        /\ pull'.place = pull.place /\ pull'.pc = "listed"
    BY <1>3, <1>8 DEF EndWalk
  <2>2. Positions' /\ Missed' = Missed
    BY <1>1, <2>1 DEF Positions, Vault, Missed
  <2>. QED  BY <1>1, <1>2, <1>4, <2>1, <2>2 DEF WalkHasInHand
<1>. QED  BY <1>6, <1>7, <1>8

\* A pull begins with nothing behind it, and with every mount in hand.
LEMMA MissStarts ==
  ASSUME MissInv, StartPull
  PROVE  Positions' /\ LoopMisses' /\ WalkHasInHand'
<1>1. /\ pull'.pc = "listing" /\ pull'.listed = <<>> /\ pull'.place = 0 /\ pull'.names = {}
      /\ pull'.mounts = IF Walking THEN Mounts ELSE <<>>
      /\ during'.held = Vault /\ during'.departures = 0 /\ during'.refusals = 0
      /\ UNCHANGED <<order, served, connector>>
  BY DEF StartPull, Idle, Quiet
<1>2. order \in Seq(Accounts) /\ Vault \subseteq Accounts
  BY RangeOfSeq DEF MissInv, ListingTypes, Vault
<1>3. <<>> \in Seq(Range(Mounts)) /\ <<>> \in Seq(Accounts)
  OBVIOUS
<1>4. Positions'
  BY <1>1, <1>3, ListingAssumption DEF Positions, Vault
<1>5. LoopMisses'
  <2>1. Behind' = {}
    BY <1>1, <1>2 DEF Behind, Upto
  <2>2. Cardinality(Behind') = 0
    BY <2>1, FS_EmptySet
  <2>. QED  BY <1>1, <2>2 DEF LoopMisses, Allowed
<1>6. WalkHasInHand'
  BY <1>1, <1>2, ListingAssumption DEF WalkHasInHand, Missed, Walking
<1>. QED  BY <1>4, <1>5, <1>6

LEMMA MissEnds ==
  ASSUME MissInv, Reconcile \/ FailPull
  PROVE  Positions' /\ LoopMisses' /\ WalkHasInHand'
<1>1. pull' = Idle /\ during' = Quiet /\ UNCHANGED <<order, served, connector>>
  BY DEF Reconcile, FailPull
<1>2. <<>> \in Seq(Range(Mounts)) /\ <<>> \in Seq(Accounts)
  OBVIOUS
<1>. QED  BY <1>1, <1>2 DEF Positions, LoopMisses, WalkHasInHand, Idle, Quiet, Missed

LEMMA MissInit == Init => MissInv
<1>. SUFFICES ASSUME Init PROVE MissInv
  OBVIOUS
<1>1. ListingTypes
  BY ListingInit DEF LInv
<1>2. <<>> \in Seq(Range(Mounts)) /\ <<>> \in Seq(Accounts)
  OBVIOUS
<1>. QED  BY <1>1, <1>2 DEF Init, MissInv, Positions, LoopMisses, WalkHasInHand, Idle, Quiet, Missed

LEMMA MissNext == LInv /\ MissInv /\ [Next]_vars => MissInv'
<1>. SUFFICES ASSUME LInv, MissInv, [Next]_vars PROVE MissInv'
  OBVIOUS
<1>1. ListingTypes'
  BY ListingNext DEF LInv
<1>. SUFFICES Positions' /\ LoopMisses' /\ WalkHasInHand'
  BY <1>1 DEF MissInv
<1>2. CASE pull.pc = "idle" /\ (\/ \E i \in 1..Len(order) : Departs(i)
                                \/ \E a \in Accounts, i \in 1..(Len(order) + 1) : Arrives(a, i))
  <2>1. pull' = pull /\ during' = during /\ connector' = connector
    BY <1>2 DEF Departs, Arrives, Moved
  <2>. QED  BY <1>2, <2>1 DEF MissInv, Positions, LoopMisses, WalkHasInHand, Walking, Missed
<1>3. ASSUME pull.pc # "idle", NEW i \in 1..Len(order), Departs(i)
      PROVE  Positions' /\ LoopMisses' /\ WalkHasInHand'
  BY <1>3, MissDeparts
<1>4. ASSUME pull.pc # "idle", NEW a \in Accounts, NEW i \in 1..(Len(order) + 1), Arrives(a, i)
      PROVE  Positions' /\ LoopMisses' /\ WalkHasInHand'
  BY <1>4, MissArrives
<1>5. CASE UNCHANGED vars
  BY <1>5 DEF vars, MissInv, Positions, LoopMisses, WalkHasInHand, Walking, Missed, Behind, Upto,
     Allowed, Filled, Unguarded, Guarded, Vault
<1>. QED  BY <1>2, <1>3, <1>4, <1>5, MissPage, MissWalks, MissStarts, MissEnds DEF Next

(***************************************************************************)
(* What a listing misses of the accounts that stayed in the vault has a    *)
(* departure to blame, for every vault, page size, guard and loop, however *)
(* many accounts come and go between two requests.                         *)
(***************************************************************************)
THEOREM EachMissHasADeparture == Spec => []MissedNeedDepartures
<1>1. MissInv => MissedNeedDepartures
  <2>. SUFFICES ASSUME MissInv, pull.pc = "listed", Filled, Unguarded, during.refusals = 0
                PROVE  Cardinality(Missed) <= Allowed
    BY DEF MissedNeedDepartures, Allowed
  <2>1. CASE ~Walking
    BY <2>1 DEF MissInv, LoopMisses
  <2>2. CASE Walking
    <3>1. pull.names = {} /\ Range(pull.mounts) = {}
      BY <2>2 DEF MissInv, WalkHasInHand, Range
    <3>2. Missed = {}
      BY <2>2, <3>1 DEF MissInv, WalkHasInHand
    <3>. QED  BY <2>2, <3>2, FS_EmptySet DEF Allowed, Walking
  <2>. QED  BY <2>1, <2>2
<1>. QED  BY <1>1, ListingInit, ListingNext, MissInit, MissNext, PTL DEF Spec
==============================================================================
