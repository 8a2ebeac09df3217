--------------------------- MODULE IdentityProofs ---------------------------
(***************************************************************************)
(* The lifecycle of identities, for any domains, cap and log length; and    *)
(* tabs, their audit trail and the session document, for any partitions and *)
(* tabs and any number of rows.                                             *)
(*                                                                         *)
(* The first invariant ties three sets together: what lives and what was    *)
(* purged were both minted, and they are disjoint.  Create then needs only  *)
(* its own guard, the mint's freshness; every call of the scheduler         *)
(* rewrites records it already has, whatever slots and events purged        *)
(* identities have left behind.  The second bounds the list of slots by the *)
(* cap and finds in it whoever is active and was activated once.  The third *)
(* says that the list is in the order of the last activations (InOrder).    *)
(* Of a session, the invariant is about the rows of one tab: the last one   *)
(* is its binding, and each starts where the one before it ended, which     *)
(* neither forgetting all but the last nor a new row can disturb (Trail);   *)
(* and of a document of our own, that what it names was durable when it was *)
(* written, and no identity is ever made anew (OwnDocument).                *)
(***************************************************************************)
EXTENDS IdentityScheduler, IdentitySession, PlacesProofs

-----------------------------------------------------------------------------
(* Purged identities.                                                      *)

MintedApart ==
    /\ Live \subseteq minted
    /\ purged \subseteq minted
    /\ purged \cap Live = {}

(* Sending identities to sleep neither makes nor loses a record.           *)
LEMMA HibernatedDomain ==
    ASSUME NEW recs, NEW gone
    PROVE  DOMAIN Hibernated(recs, gone) = DOMAIN recs
BY DEF Hibernated

(* Nor does waking one that has a record.                                  *)
LEMMA ActivatedDomain ==
    ASSUME NEW recs, NEW d
    PROVE  DOMAIN Activated(recs, d) = DOMAIN recs
BY DEF Activated

(* Scheduling an identity keeps the set of records.                        *)
LEMMA ScheduleKeeps ==
    ASSUME NEW d, Schedule(d)
    PROVE  Live' = Live /\ UNCHANGED <<minted, purged>>
<1>1. records' = Activated(Hibernated(records, Evicted(Without(active_order, d))), d)
  BY DEF Schedule
<1>2. DOMAIN records' = DOMAIN records
  BY <1>1, HibernatedDomain, ActivatedDomain
<1> QED
  BY <1>2 DEF Schedule, Live

(* The inductive invariant: every step keeps the three sets as they should  *)
(* be (Create relies on the mint, Destroy moves a domain from one side to   *)
(* the other).                                                              *)
THEOREM MintedApartAlways == Spec => []MintedApart
<1>1. Init => MintedApart
  BY DEF Init, MintedApart, Live
<1>2. MintedApart /\ [Next]_vars => MintedApart'
  <2> SUFFICES ASSUME MintedApart, [Next]_vars
               PROVE  MintedApart'
    OBVIOUS
  <2>1. ASSUME NEW d \in Domains, NEW in_memory \in BOOLEAN, Create(d, in_memory)
        PROVE  MintedApart'
    <3>1. Live' = Live \cup {d} /\ minted' = minted \cup {d} /\ purged' = purged
      BY <2>1 DEF Create, Live
    <3>2. d \notin minted
      BY <2>1 DEF Create
    <3> QED
      BY <3>1, <3>2 DEF MintedApart
  <2>2. ASSUME NEW d \in Domains, Activate(d) \/ Wake(d)
        PROVE  MintedApart'
    BY <2>2, ScheduleKeeps DEF Activate, Wake, MintedApart
  <2>3. ASSUME NEW d \in Domains, Hibernate(d) \/ Archive(d)
        PROVE  MintedApart'
    <3>1. Live' = Live
      BY <2>3, HibernatedDomain DEF Hibernate, Archive, Live
    <3> QED
      BY <2>3, <3>1 DEF Hibernate, Archive, MintedApart
  <2>4. ASSUME NEW d \in Domains, Destroy(d)
        PROVE  MintedApart'
    <3>1. /\ d \in Live
          /\ Live' = Live \ {d}
          /\ purged' = purged \/ purged' = purged \cup {d}
          /\ minted' = minted
      BY <2>4 DEF Destroy, Live
    <3> QED
      BY <3>1 DEF MintedApart
  <2>5. ASSUME NEW d \in Domains, PlantResidual(d)
        PROVE  MintedApart'
    BY <2>5 DEF PlantResidual, MintedApart, Live
  <2>6. CASE CompactEvictions
    BY <2>6 DEF CompactEvictions, MintedApart, Live
  <2>7. CASE UNCHANGED vars
    BY <2>7 DEF vars, MintedApart, Live
  <2> QED
    BY <2>1, <2>2, <2>3, <2>4, <2>5, <2>6, <2>7 DEF Next
<1> QED
  BY <1>1, <1>2, PTL DEF Spec

(* An identity whose destruction was verified never lives again, whatever   *)
(* the slot in active_order and the events it leaves behind                 *)
(* (Manager::Destroy, Scheduler::Wake).                                     *)
THEOREM PurgedForGood == Spec => []PurgedStaysPurged
<1>1. MintedApart => PurgedStaysPurged
  BY DEF MintedApart, PurgedStaysPurged
<1> QED
  BY <1>1, MintedApartAlways, PTL
-----------------------------------------------------------------------------
(* The cap.                                                                *)

Records == [in_memory : BOOLEAN, state : {"kActive", "kHibernated"}, surface : SUBSET Kinds]

(* Whoever is active and was activated has a slot, and there are no more    *)
(* slots than the cap allows.                                               *)
SlotsWithinCap ==
    /\ active_order \in Seq(Domains)
    /\ Len(active_order) <= Cap
    /\ ActiveIn(records) \cap ToSet(recent) \subseteq ToSet(active_order)

CapInv ==
    /\ records \in [Live -> Records]
    /\ recent \in Seq(Domains)
    /\ ToSet(recent) \subseteq minted
    /\ SlotsWithinCap

(* A list is no shorter than its set of members is large.                   *)
LEMMA CardinalityOfMembers ==
    ASSUME NEW S, NEW s \in Seq(S)
    PROVE  IsFiniteSet(ToSet(s)) /\ Cardinality(ToSet(s)) <= Len(s)
<1>1. s \in Surjection(1..Len(s), ToSet(s))
  BY DEF ToSet, Surjection
<1>2. ExistsSurjection(1..Len(s), ToSet(s))
  BY <1>1 DEF ExistsSurjection
<1>3. Len(s) \in Nat
  OBVIOUS
<1>4. IsFiniteSet(1..Len(s))
  BY <1>3, FS_Interval
<1> QED
  BY <1>1, <1>2, <1>3, <1>4, FS_Surjection, FS_SurjCardinalityBound

(* A list with one more at its end.                                         *)
LEMMA OneMore ==
    ASSUME NEW s \in Seq(Domains), NEW d \in Domains
    PROVE  /\ s \o <<d>> \in Seq(Domains)
           /\ Len(s \o <<d>>) = Len(s) + 1
           /\ ToSet(s \o <<d>>) = ToSet(s) \cup {d}
<1> DEFINE t == s \o <<d>>
<1>1. /\ t \in Seq(Domains)
      /\ Len(t) = Len(s) + 1
      /\ \A j \in 1..Len(s) : t[j] = s[j]
      /\ t[Len(s) + 1] = d
  OBVIOUS
<1> HIDE DEF t
<1>2. 1..(Len(s) + 1) = (1..Len(s)) \cup {Len(s) + 1}
  OBVIOUS
<1>3. ToSet(t) = ToSet(s) \cup {d}
  BY <1>1, <1>2 DEF ToSet
<1> QED
  BY <1>1, <1>3 DEF t

(* Taking a domain off a list moves up whoever came after it.               *)
LEMMA WithoutSkips ==
    ASSUME NEW s \in Seq(Domains), NEW d \in ToSet(s)
    PROVE  \E i \in 1..Len(s) :
              /\ s[i] = d
              /\ Without(s, d) \in Seq(Domains)
              /\ Len(Without(s, d)) = Len(s) - 1
              /\ \A j \in 1..(Len(s) - 1) :
                    Without(s, d)[j] = IF j < i THEN s[j] ELSE s[j + 1]
<1> DEFINE i == CHOOSE j \in DOMAIN s : s[j] = d
           before == SubSeq(s, 1, i - 1)
           after == SubSeq(s, i + 1, Len(s))
           w == before \o after
<1>1. i \in 1..Len(s) /\ s[i] = d
  BY DEF ToSet
<1>2. Without(s, d) = w
  BY DEF Without
<1> HIDE DEF i
<1>3. /\ before \in Seq(Domains)
      /\ Len(before) = i - 1
      /\ \A j \in 1..(i - 1) : before[j] = s[j]
  BY <1>1
<1>4. /\ after \in Seq(Domains)
      /\ Len(after) = Len(s) - i
      /\ \A j \in 1..(Len(s) - i) : after[j] = s[i + j]
  BY <1>1
<1> HIDE DEF before, after
<1>5. w = before \o after
  BY DEF w
<1> HIDE DEF w
<1>6. w \in Seq(Domains) /\ Len(w) = Len(s) - 1
  BY <1>1, <1>3, <1>4, <1>5
<1>7. ASSUME NEW j \in 1..(Len(s) - 1)
      PROVE  w[j] = IF j < i THEN s[j] ELSE s[j + 1]
  <2>1. CASE j < i
    BY <1>1, <1>3, <1>4, <1>5, <2>1
  <2>2. CASE j >= i
    <3>1. j - (i - 1) \in 1..(Len(s) - i) /\ w[j] = after[j - (i - 1)]
      BY <1>1, <1>3, <1>4, <1>5, <2>2
    <3> QED
      BY <1>1, <1>4, <2>2, <3>1
  <2> QED
    BY <1>1, <2>1, <2>2
<1> QED
  BY <1>1, <1>2, <1>6, <1>7

(* It loses nobody else.                                                    *)
LEMMA WithoutLosesOne ==
    ASSUME NEW s \in Seq(Domains), NEW d
    PROVE  /\ Without(s, d) \in Seq(Domains)
           /\ Len(Without(s, d)) <= Len(s)
           /\ ToSet(Without(s, d)) \subseteq ToSet(s)
           /\ ToSet(s) \subseteq ToSet(Without(s, d)) \cup {d}
<1>1. CASE d \notin ToSet(s)
  BY <1>1 DEF Without
<1>2. CASE d \in ToSet(s)
  <2> DEFINE w == Without(s, d)
  <2>1. PICK i \in 1..Len(s) :
            /\ s[i] = d
            /\ w \in Seq(Domains)
            /\ Len(w) = Len(s) - 1
            /\ \A j \in 1..(Len(s) - 1) : w[j] = IF j < i THEN s[j] ELSE s[j + 1]
    BY <1>2, WithoutSkips
  <2> HIDE DEF w
  <2>2. ToSet(w) \subseteq ToSet(s)
    BY <2>1 DEF ToSet
  <2>3. ASSUME NEW k \in 1..Len(s), s[k] # d
        PROVE  s[k] \in ToSet(w)
    <3>1. CASE k < i
      BY <2>1, <3>1 DEF ToSet
    <3>2. CASE k > i
      <4>1. k - 1 \in 1..Len(w) /\ w[k - 1] = s[k]
        BY <2>1, <3>2
      <4> QED
        BY <2>1, <4>1 DEF ToSet
    <3> QED
      BY <2>1, <2>3, <3>1, <3>2
  <2>4. ToSet(s) \subseteq ToSet(w) \cup {d}
    BY <2>3 DEF ToSet
  <2> QED
    BY <2>1, <2>2, <2>4 DEF w
<1> QED
  BY <1>1, <1>2

(* The list splits into who leaves and who stays, and one more fits.        *)
LEMMA ListSplits ==
    ASSUME NEW s \in Seq(Domains), Len(s) <= Cap
    PROVE  /\ Rest(s) \in Seq(Domains)
           /\ Len(Rest(s)) + 1 <= Cap
           /\ ToSet(s) \subseteq ToSet(Oldest(s)) \cup ToSet(Rest(s))
<1> DEFINE n == Excess(s)
<1>1. n \in 0..Len(s) /\ Len(s) - n + 1 <= Cap
  BY SchedulerAssumption DEF Excess
<1>2. Oldest(s) = SubSeq(s, 1, n) /\ Rest(s) = SubSeq(s, n + 1, Len(s))
  BY DEF Oldest, Rest
<1> HIDE DEF n
<1>3. /\ Rest(s) \in Seq(Domains)
      /\ Len(Rest(s)) = Len(s) - n
      /\ \A j \in 1..(Len(s) - n) : Rest(s)[j] = s[n + j]
  BY <1>1, <1>2
<1>4. /\ Oldest(s) \in Seq(Domains)
      /\ Len(Oldest(s)) = n
      /\ \A j \in 1..n : Oldest(s)[j] = s[j]
  BY <1>1, <1>2
<1>5. ASSUME NEW k \in 1..Len(s)
      PROVE  s[k] \in ToSet(Oldest(s)) \cup ToSet(Rest(s))
  <2>1. CASE k <= n
    BY <1>1, <1>4, <2>1 DEF ToSet
  <2>2. CASE k > n
    <3>1. k - n \in 1..(Len(s) - n) /\ Rest(s)[k - n] = s[k]
      BY <1>1, <1>3, <2>2
    <3> QED
      BY <1>3, <3>1 DEF ToSet
  <2> QED
    BY <1>1, <2>1, <2>2
<1> QED
  BY <1>1, <1>3, <1>5 DEF ToSet

(* Who is active once some have been sent to sleep and one has been woken.  *)
LEMMA ActiveAfter ==
    ASSUME NEW recs, recs \in [DOMAIN recs -> Records], NEW gone
    PROVE  /\ Hibernated(recs, gone) \in [DOMAIN recs -> Records]
           /\ ActiveIn(Hibernated(recs, gone)) = ActiveIn(recs) \ gone
           /\ \A d \in DOMAIN recs :
                 /\ Activated(recs, d) \in [DOMAIN recs -> Records]
                 /\ ActiveIn(Activated(recs, d)) = ActiveIn(recs) \cup {d}
<1>1. \A r \in Records :
        /\ [r EXCEPT !.state = "kHibernated", !.surface = @ \ {"cache"}] \in Records
        /\ [r EXCEPT !.state = "kHibernated", !.surface = @ \ {"cache"}].state = "kHibernated"
        /\ [r EXCEPT !.state = "kActive"] \in Records
        /\ [r EXCEPT !.state = "kActive"].state = "kActive"
  BY DEF Records
<1>2. /\ Hibernated(recs, gone) \in [DOMAIN recs -> Records]
      /\ ActiveIn(Hibernated(recs, gone)) = ActiveIn(recs) \ gone
  BY <1>1 DEF Hibernated, ActiveIn
<1>3. ASSUME NEW d \in DOMAIN recs
      PROVE  /\ Activated(recs, d) \in [DOMAIN recs -> Records]
             /\ ActiveIn(Activated(recs, d)) = ActiveIn(recs) \cup {d}
  <2>1. Activated(recs, d) =
            [e \in DOMAIN recs |-> IF e = d THEN [recs[d] EXCEPT !.state = "kActive"] ELSE recs[e]]
    BY DEF Activated
  <2>2. Activated(recs, d) \in [DOMAIN recs -> Records]
    BY <1>1, <2>1
  <2>3. \A e \in DOMAIN recs : Activated(recs, d)[e].state =
            IF e = d THEN "kActive" ELSE recs[e].state
    <3>1. recs[d] \in Records /\ [recs[d] EXCEPT !.state = "kActive"].state = "kActive"
      BY <1>1
    <3> QED
      BY <2>1, <3>1
  <2> QED
    BY <2>2, <2>3 DEF ActiveIn
<1> QED
  BY <1>2, <1>3

(* Activating an identity keeps the invariant: it takes a slot, and those   *)
(* whose slots are gone are asleep.                                         *)
LEMMA ScheduleFits ==
    ASSUME MintedApart, CapInv, NEW d \in Domains, d \in Live, Schedule(d)
    PROVE  CapInv'
<1> DEFINE order == Without(active_order, d)
           gone == Evicted(order)
<1>1. /\ order \in Seq(Domains)
      /\ Len(order) <= Cap
      /\ ToSet(active_order) \subseteq ToSet(order) \cup {d}
  <2>1. Len(order) \in Nat /\ Len(active_order) \in Nat
    BY WithoutLosesOne DEF CapInv, SlotsWithinCap
  <2> QED
    BY <2>1, WithoutLosesOne, SchedulerAssumption DEF CapInv, SlotsWithinCap
<1>2. /\ Rest(order) \in Seq(Domains)
      /\ Len(Rest(order)) + 1 <= Cap
      /\ ToSet(order) \subseteq ToSet(Oldest(order)) \cup ToSet(Rest(order))
  BY <1>1, ListSplits
<1>3. /\ records' = Activated(Hibernated(records, gone), d)
      /\ active_order' = Rest(order) \o <<d>>
      /\ recent' = Without(recent, d) \o <<d>>
      /\ minted' = minted
  BY DEF Schedule
<1>4. /\ records' \in [Live -> Records]
      /\ ActiveIn(records') = (ActiveIn(records) \ gone) \cup {d}
  <2>1. /\ Hibernated(records, gone) \in [Live -> Records]
        /\ DOMAIN Hibernated(records, gone) = Live
        /\ ActiveIn(Hibernated(records, gone)) = ActiveIn(records) \ gone
    BY ActiveAfter, HibernatedDomain DEF CapInv, Live
  <2> HIDE DEF gone
  <2> QED
    BY <1>3, <2>1, ActiveAfter
<1>5. Live' = Live
  BY ScheduleKeeps
<1> HIDE DEF order
<1>6. ToSet(active_order') = ToSet(Rest(order)) \cup {d}
  BY <1>2, <1>3, OneMore
<1>7. /\ Without(recent, d) \in Seq(Domains)
      /\ ToSet(Without(recent, d)) \subseteq ToSet(recent)
  BY WithoutLosesOne DEF CapInv
<1>8. ToSet(recent') = ToSet(Without(recent, d)) \cup {d}
  BY <1>3, <1>7, OneMore
<1>9. ActiveIn(records') \cap ToSet(recent') \subseteq ToSet(active_order')
  <2> SUFFICES ASSUME NEW e \in ActiveIn(records) \ gone, e \in ToSet(recent), e # d
               PROVE  e \in ToSet(Rest(order))
    BY <1>4, <1>6, <1>7, <1>8
  <2>1. e \in ToSet(order)
    BY <1>1 DEF CapInv, SlotsWithinCap
  <2>2. e \notin ToSet(Oldest(order))
    BY DEF Evicted
  <2> QED
    BY <1>2, <2>1, <2>2
<1>10. active_order' \in Seq(Domains) /\ Len(active_order') <= Cap
  BY <1>2, <1>3, OneMore
<1>11. recent' \in Seq(Domains) /\ ToSet(recent') \subseteq minted'
  BY <1>3, <1>7, <1>8, OneMore DEF CapInv, MintedApart
<1> QED
  BY <1>4, <1>5, <1>9, <1>10, <1>11 DEF CapInv, SlotsWithinCap

(* The calls around the scheduler leave the list alone: they can only make  *)
(* its slots stale, never put somebody active outside it.                   *)
THEOREM CapInvariant == Spec => []CapInv
<1>1. Init => CapInv
  BY SchedulerAssumption DEF Init, CapInv, SlotsWithinCap, Live, ActiveIn, ToSet
<1>2. MintedApart /\ CapInv /\ [Next]_vars => CapInv'
  <2> SUFFICES ASSUME MintedApart, CapInv, [Next]_vars
               PROVE  CapInv'
    OBVIOUS
  <2>1. ASSUME NEW d \in Domains, NEW in_memory \in BOOLEAN, Create(d, in_memory)
        PROVE  CapInv'
    <3> DEFINE fresh == [in_memory |-> in_memory, state |-> "kActive",
                         surface |-> FreshSurface(in_memory)]
    <3>1. fresh \in Records
      BY DEF Records, FreshSurface, Kinds
    <3> HIDE DEF fresh
    <3>2. /\ records' = [e \in Live \cup {d} |-> IF e = d THEN fresh ELSE records[e]]
          /\ d \notin minted /\ minted' = minted \cup {d}
          /\ UNCHANGED <<active_order, recent>>
      BY <2>1 DEF Create, fresh
    <3>3. Live' = Live \cup {d} /\ records' \in [Live' -> Records]
      BY <3>1, <3>2 DEF CapInv, Live
    <3>4. ActiveIn(records') \subseteq ActiveIn(records) \cup {d}
      BY <3>2 DEF ActiveIn, Live
    <3>5. d \notin ToSet(recent)
      BY <3>2 DEF CapInv
    <3> QED
      BY <3>2, <3>3, <3>4, <3>5 DEF CapInv, SlotsWithinCap
  <2>2. ASSUME NEW d \in Domains, Activate(d) \/ Wake(d)
        PROVE  CapInv'
    BY <2>2, ScheduleFits DEF Activate, Wake, Usable
  <2>3. ASSUME NEW d \in Domains, Hibernate(d) \/ Archive(d)
        PROVE  CapInv'
    <3>1. /\ records' = Hibernated(records, {d})
          /\ UNCHANGED <<minted, recent>>
          /\ active_order' = active_order \/ active_order' = Without(active_order, d)
      BY <2>3 DEF Hibernate, Archive
    <3>2. /\ Live' = Live
          /\ records' \in [Live -> Records]
          /\ ActiveIn(records') = ActiveIn(records) \ {d}
      BY <3>1, ActiveAfter, HibernatedDomain DEF CapInv, Live
    <3>3. /\ active_order' \in Seq(Domains)
          /\ Len(active_order') <= Cap
          /\ ToSet(active_order) \subseteq ToSet(active_order') \cup {d}
      <4>1. CASE active_order' = active_order
        BY <4>1 DEF CapInv, SlotsWithinCap
      <4>2. CASE active_order' = Without(active_order, d)
        <5>1. Len(active_order) \in Nat /\ Len(active_order') \in Nat
          BY <4>2, WithoutLosesOne DEF CapInv, SlotsWithinCap
        <5> QED
          BY <4>2, <5>1, WithoutLosesOne, SchedulerAssumption DEF CapInv, SlotsWithinCap
      <4> QED
        BY <3>1, <4>1, <4>2
    <3> QED
      BY <3>1, <3>2, <3>3 DEF CapInv, SlotsWithinCap
  <2>4. ASSUME NEW d \in Domains, Destroy(d)
        PROVE  CapInv'
    <3>1. /\ records' = [e \in Live \ {d} |-> records[e]]
          /\ UNCHANGED <<active_order, minted, recent>>
      BY <2>4 DEF Destroy
    <3>2. Live' = Live \ {d} /\ records' \in [Live' -> Records]
      BY <3>1 DEF CapInv, Live
    <3>3. ActiveIn(records') \subseteq ActiveIn(records)
      BY <3>1 DEF ActiveIn, Live
    <3> QED
      BY <3>1, <3>2, <3>3 DEF CapInv, SlotsWithinCap
  <2>5. ASSUME NEW d \in Domains, PlantResidual(d)
        PROVE  CapInv'
    BY <2>5 DEF PlantResidual, CapInv, SlotsWithinCap, Live
  <2>6. CASE CompactEvictions
    BY <2>6 DEF CompactEvictions, CapInv, SlotsWithinCap, Live
  <2>7. CASE UNCHANGED vars
    BY <2>7 DEF vars, CapInv, SlotsWithinCap, Live
  <2> QED
    BY <2>1, <2>2, <2>3, <2>4, <2>5, <2>6, <2>7 DEF Next
<1> QED
  BY <1>1, <1>2, MintedApartAlways, PTL DEF Spec

(* The soft cap holds however activations, wakes, archives, hibernations    *)
(* and destructions alternate (Scheduler::Activate, EvictLru).              *)
THEOREM CapHoldsAlways == Spec => []CapHolds
<1>1. CapInv => CapHolds
  <2> SUFFICES ASSUME CapInv PROVE CapHolds
    OBVIOUS
  <2> DEFINE held == ActiveIn(records) \cap ToSet(recent)
  <2>1. /\ IsFiniteSet(ToSet(active_order))
        /\ Cardinality(ToSet(active_order)) <= Len(active_order)
    BY CardinalityOfMembers DEF CapInv, SlotsWithinCap
  <2>2. /\ IsFiniteSet(held)
        /\ Cardinality(held) <= Cardinality(ToSet(active_order))
    BY <2>1, FS_Subset DEF CapInv, SlotsWithinCap
  <2>3. /\ Cardinality(held) \in Nat
        /\ Cardinality(ToSet(active_order)) \in Nat
        /\ Len(active_order) \in Nat
        /\ Len(active_order) <= Cap
    BY <2>1, <2>2, FS_CardinalityType DEF CapInv, SlotsWithinCap
  <2> QED
    BY <2>1, <2>2, <2>3, SchedulerAssumption DEF CapHolds
<1> QED
  BY <1>1, CapInvariant, PTL
-----------------------------------------------------------------------------
(* The order of eviction.                                                  *)

(* x stands somewhere before y.                                            *)
Before(s, x, y) == \E p, q \in DOMAIN s : p < q /\ s[p] = x /\ s[q] = y

Distinct(s) == \A p, q \in DOMAIN s : s[p] = s[q] => p = q

Events == [domain : Domains, reason : {"cap", "user"}]

(* The slots are in the order of the last activations, which no two        *)
(* domains share, and the log is a list of events.                         *)
InOrder ==
    /\ Distinct(recent)
    /\ ToSet(active_order) \subseteq ToSet(recent)
    /\ \A p, q \in DOMAIN active_order :
          p < q => Before(recent, active_order[p], active_order[q])
    /\ evictions \in Seq(Events)

(* Taking a domain off a list leaves the others as they stood.             *)
LEMMA WithoutKeepsOrder ==
    ASSUME NEW s \in Seq(Domains), NEW d
    PROVE  LET w == Without(s, d)
           IN  /\ \A p, q \in DOMAIN w : p < q => Before(s, w[p], w[q])
               /\ \A x, y : x # d /\ y # d /\ Before(s, x, y) => Before(w, x, y)
               /\ Distinct(s) => Distinct(w) /\ d \notin ToSet(w)
<1> DEFINE w == Without(s, d)
<1>1. CASE d \notin ToSet(s)
  BY <1>1 DEF Without, Before
<1>2. CASE d \in ToSet(s)
  <2>1. PICK i \in 1..Len(s) :
            /\ s[i] = d
            /\ w \in Seq(Domains)
            /\ Len(w) = Len(s) - 1
            /\ \A j \in 1..(Len(s) - 1) : w[j] = IF j < i THEN s[j] ELSE s[j + 1]
    BY <1>2, WithoutSkips
  <2> HIDE DEF w
  <2> DEFINE From(j) == IF j < i THEN j ELSE j + 1
             To(k) == IF k < i THEN k ELSE k - 1
  <2>2. /\ Len(s) \in Nat /\ DOMAIN s = 1..Len(s) /\ DOMAIN w = 1..(Len(s) - 1)
        /\ i \in 1..Len(s)
    BY <2>1
  <2>3. \A j \in DOMAIN w : /\ From(j) \in DOMAIN s /\ From(j) # i
                            /\ w[j] = s[From(j)]
    BY <2>1, <2>2
  <2>4. \A k \in DOMAIN s : k # i => To(k) \in DOMAIN w /\ w[To(k)] = s[k]
    BY <2>1, <2>2
  <2>5. /\ \A j, l \in DOMAIN w : j < l => From(j) < From(l)
        /\ \A k, l \in DOMAIN s : k # i /\ l # i /\ k < l => To(k) < To(l)
        /\ \A j, l \in DOMAIN w : From(j) = From(l) => j = l
    BY <2>2
  <2> HIDE DEF From, To
  <2>6. \A p, q \in DOMAIN w : p < q => Before(s, w[p], w[q])
    BY <2>3, <2>5 DEF Before
  <2>7. \A x, y : x # d /\ y # d /\ Before(s, x, y) => Before(w, x, y)
    BY <2>1, <2>4, <2>5 DEF Before
  <2>8. ASSUME Distinct(s) PROVE Distinct(w) /\ d \notin ToSet(w)
    <3>1. Distinct(w)
      BY <2>3, <2>5, <2>8 DEF Distinct
    <3>2. \A j \in DOMAIN w : w[j] # d
      BY <2>1, <2>2, <2>3, <2>8 DEF Distinct
    <3> QED BY <3>1, <3>2 DEF ToSet
  <2> QED BY <2>6, <2>7, <2>8 DEF w
<1> QED BY <1>1, <1>2

(* A newcomer at the end of a list stands after everybody.                 *)
LEMMA NewcomerIsLast ==
    ASSUME NEW s \in Seq(Domains), NEW d \in Domains
    PROVE  LET t == s \o <<d>>
           IN  /\ \A x, y : Before(s, x, y) => Before(t, x, y)
               /\ \A x \in ToSet(s) : Before(t, x, d)
               /\ Distinct(s) /\ d \notin ToSet(s) => Distinct(t)
               /\ DOMAIN t = 1..(Len(s) + 1)
               /\ \A j \in 1..Len(s) : t[j] = s[j]
               /\ t[Len(s) + 1] = d
<1> DEFINE t == s \o <<d>>
<1>1. /\ Len(s) \in Nat /\ DOMAIN s = 1..Len(s)
      /\ DOMAIN t = 1..(Len(s) + 1)
      /\ \A j \in 1..Len(s) : t[j] = s[j]
      /\ t[Len(s) + 1] = d
  OBVIOUS
<1> HIDE DEF t
<1>2. \A x, y : Before(s, x, y) => Before(t, x, y)
  <2>1. \A j \in DOMAIN s : j \in DOMAIN t /\ t[j] = s[j]
    BY <1>1
  <2> QED BY <2>1 DEF Before
<1>3. ASSUME NEW j \in DOMAIN s PROVE Before(t, s[j], d)
  <2>1. j \in DOMAIN t /\ Len(s) + 1 \in DOMAIN t /\ j < Len(s) + 1
    BY <1>1
  <2> QED BY <1>1, <2>1 DEF Before
<1>4. ASSUME Distinct(s), d \notin ToSet(s) PROVE Distinct(t)
  <2>1. \A j \in 1..Len(s) : t[j] # d
    BY <1>1, <1>4 DEF ToSet
  <2> SUFFICES ASSUME NEW p \in DOMAIN t, NEW q \in DOMAIN t, t[p] = t[q] PROVE p = q
    BY DEF Distinct
  <2>2. CASE p = Len(s) + 1 \/ q = Len(s) + 1
    BY <1>1, <2>1, <2>2
  <2>3. CASE p # Len(s) + 1 /\ q # Len(s) + 1
    BY <1>1, <1>4, <2>3 DEF Distinct
  <2> QED BY <2>2, <2>3
<1> QED BY <1>1, <1>2, <1>3, <1>4 DEF t, ToSet

(* In a list without repetition, standing before is a smaller position.    *)
LEMMA PositionsCompare ==
    ASSUME NEW s \in Seq(Domains), Distinct(s), NEW x, NEW y, Before(s, x, y)
    PROVE  Position(s, x) < Position(s, y)
<1>1. PICK p \in DOMAIN s, q \in DOMAIN s : p < q /\ s[p] = x /\ s[q] = y
  BY DEF Before
<1>2. Position(s, x) = p /\ Position(s, y) = q
  BY <1>1 DEF Position, Distinct
<1> QED BY <1>1, <1>2

(* Activating an identity keeps the order: the list as it is before the    *)
(* front leaves it, with the newcomer at its end, is already in the order  *)
(* of the activations that now are the last.                               *)
LEMMA ScheduleOrder ==
    ASSUME MintedApart, CapInv, InOrder, NEW d \in Domains, d \in Live, Schedule(d)
    PROVE  LET order == Without(active_order, d)
               queue == order \o <<d>>
           IN  /\ order \in Seq(Domains) /\ queue \in Seq(Domains)
               /\ Distinct(recent') /\ recent' \in Seq(Domains)
               /\ ToSet(queue) \subseteq ToSet(recent')
               /\ \A p, q \in DOMAIN queue : p < q => Before(recent', queue[p], queue[q])
<1> DEFINE order == Without(active_order, d)
           queue == order \o <<d>>
           others == Without(recent, d)
<1>1. /\ order \in Seq(Domains) /\ ToSet(order) \subseteq ToSet(active_order)
      /\ others \in Seq(Domains) /\ ToSet(recent) \subseteq ToSet(others) \cup {d}
  BY WithoutLosesOne DEF CapInv, SlotsWithinCap
<1>2. recent' = others \o <<d>>
  BY DEF Schedule
<1>3. Distinct(others) /\ d \notin ToSet(others)
  BY WithoutKeepsOrder DEF CapInv, InOrder
<1>4. Distinct(recent') /\ recent' \in Seq(Domains) /\ ToSet(recent') = ToSet(others) \cup {d}
  <2> HIDE DEF others
  <2>1. Distinct(others \o <<d>>)
    BY <1>1, <1>3, NewcomerIsLast
  <2> QED BY <1>1, <1>2, <2>1, OneMore
<1>5. d \notin ToSet(order)
  <2>1. Distinct(active_order)
    <3> SUFFICES ASSUME NEW p \in DOMAIN active_order, NEW q \in DOMAIN active_order,
                        active_order[p] = active_order[q], p < q
                 PROVE  FALSE
      BY DEF Distinct, CapInv, SlotsWithinCap
    <3>1. PICK k, l \in DOMAIN recent : k < l /\ recent[k] = recent[l]
      BY DEF InOrder, Before
    <3> QED BY <3>1 DEF InOrder, Distinct, CapInv
  <2> QED BY <2>1, WithoutKeepsOrder DEF CapInv, SlotsWithinCap
<1>6. \A p, q \in DOMAIN order : p < q => Before(recent', order[p], order[q])
  <2> SUFFICES ASSUME NEW p \in DOMAIN order, NEW q \in DOMAIN order, p < q
               PROVE  Before(recent', order[p], order[q])
    OBVIOUS
  <2>1. Before(active_order, order[p], order[q])
    BY WithoutKeepsOrder DEF CapInv, SlotsWithinCap
  <2>2. Before(recent, order[p], order[q])
    BY <2>1 DEF InOrder, Before
  <2>3. order[p] # d /\ order[q] # d
    BY <1>5 DEF ToSet
  <2> HIDE DEF order
  <2>4. Before(others, order[p], order[q])
    BY <2>2, <2>3, WithoutKeepsOrder DEF CapInv
  <2> HIDE DEF others
  <2> QED BY <1>1, <1>2, <2>4, NewcomerIsLast
<1> HIDE DEF order
<1>7. /\ queue \in Seq(Domains) /\ ToSet(queue) = ToSet(order) \cup {d}
      /\ Len(order) \in Nat
      /\ DOMAIN order = 1..Len(order) /\ DOMAIN queue = 1..(Len(order) + 1)
      /\ \A j \in 1..Len(order) : queue[j] = order[j]
      /\ queue[Len(order) + 1] = d
  BY <1>1, OneMore, NewcomerIsLast
<1>8. ToSet(queue) \subseteq ToSet(recent')
  BY <1>1, <1>4, <1>7 DEF InOrder
<1> HIDE DEF queue
<1>9. ASSUME NEW p \in DOMAIN queue, NEW q \in DOMAIN queue, p < q
      PROVE  Before(recent', queue[p], queue[q])
  <2>1. p \in DOMAIN order /\ queue[p] = order[p]
    BY <1>7, <1>9
  <2>2. CASE q \in DOMAIN order
    BY <1>6, <1>7, <1>9, <2>1, <2>2
  <2>3. CASE q \notin DOMAIN order
    <3>1. queue[q] = d
      BY <1>7, <2>3
    <3>2. order[p] \in ToSet(others)
      <4>1. order[p] \in ToSet(order)
        BY <2>1 DEF ToSet
      <4> QED BY <1>1, <1>5, <4>1 DEF InOrder
    <3> HIDE DEF others
    <3> QED BY <1>1, <1>2, <2>1, <3>1, <3>2, NewcomerIsLast
  <2> QED BY <2>2, <2>3
<1> QED BY <1>1, <1>4, <1>7, <1>8, <1>9 DEF order, queue

(* The events of those the cap sends to sleep.                             *)
LEMMA EventsOfTheFront ==
    ASSUME NEW order \in Seq(Domains)
    PROVE  /\ Excess(order) \in Nat
           /\ EvictionsOf(order) \in Seq(Events)
           /\ \A k \in DOMAIN EvictionsOf(order) :
                 \E i \in 1..Excess(order) :
                    i \in DOMAIN order /\ EvictionsOf(order)[k].domain = order[i]
<1> DEFINE n == Excess(order)
           front == Oldest(order)
           at == {i \in 1..n : order[i] \in Evicted(order)}
           kept == Keep(front, at)
<1>1. n \in 0..Len(order) /\ n \in Nat /\ Len(order) \in Nat /\ DOMAIN order = 1..Len(order)
  BY SchedulerAssumption DEF Excess
<1>2. front = SubSeq(order, 1, n) /\ EvictionsOf(order) = CapEvents(kept)
  BY DEF Oldest, EvictionsOf
<1> HIDE DEF n, front
<1>3. /\ front \in Seq(Domains) /\ Len(front) = n /\ DOMAIN front = 1..n
      /\ \A j \in 1..n : front[j] = order[j]
  BY <1>1, <1>2
<1>4. IsSeq(front)
  <2>1. front \in [1..n -> ToSet(front)]
    BY <1>3 DEF ToSet
  <2> QED BY <1>1, <2>1 DEF IsSeq
<1>5. at \in SUBSET DOMAIN front
  BY <1>3
<1> HIDE DEF at
<1>6. /\ DOMAIN kept = 1..Cardinality(at) /\ Cardinality(at) \in Nat
      /\ \A k \in DOMAIN kept : Nth(k, at) \in at /\ kept[k] = front[Nth(k, at)]
  BY <1>4, <1>5, KeptMembers
<1> HIDE DEF kept
<1>7. ASSUME NEW k \in DOMAIN kept
      PROVE  /\ Nth(k, at) \in 1..n /\ Nth(k, at) \in DOMAIN order
             /\ kept[k] = order[Nth(k, at)] /\ kept[k] \in Domains
  <2>1. Nth(k, at) \in 1..n /\ kept[k] = front[Nth(k, at)]
    BY <1>3, <1>5, <1>6
  <2>2. Nth(k, at) \in DOMAIN order
    BY <1>1, <2>1
  <2> QED BY <1>3, <2>1, <2>2
<1>8. CapEvents(kept) \in Seq(Events)
  <2>1. CapEvents(kept) \in [1..Cardinality(at) -> Events]
    BY <1>6, <1>7 DEF CapEvents, Event, Events
  <2> QED BY <1>6, <2>1
<1>9. \A k \in DOMAIN CapEvents(kept) : k \in DOMAIN kept /\ CapEvents(kept)[k].domain = kept[k]
  BY DEF CapEvents, Event
<1> QED BY <1>1, <1>2, <1>7, <1>8, <1>9 DEF n

(* The front leaves the list and the newcomer joins it: the rest is as it  *)
(* was, further to the front.                                              *)
LEMMA QueueMovesUp ==
    ASSUME NEW order \in Seq(Domains), NEW d \in Domains, Len(order) <= Cap
    PROVE  LET queue == order \o <<d>>
               rest == Rest(order) \o <<d>>
           IN  /\ Excess(order) \in 0..Len(order)
               /\ \A j \in DOMAIN rest : /\ Excess(order) + j \in DOMAIN queue
                                         /\ rest[j] = queue[Excess(order) + j]
               /\ \A e \in ToSet(order) \ ToSet(Oldest(order)) :
                     \E k \in DOMAIN order : k > Excess(order) /\ order[k] = e
<1> DEFINE n == Excess(order)
           queue == order \o <<d>>
           rest == Rest(order) \o <<d>>
<1>1. n \in 0..Len(order) /\ n \in Nat /\ Len(order) \in Nat /\ DOMAIN order = 1..Len(order)
  BY SchedulerAssumption DEF Excess
<1>2. Rest(order) = SubSeq(order, n + 1, Len(order)) /\ Oldest(order) = SubSeq(order, 1, n)
  BY DEF Rest, Oldest
<1> HIDE DEF n
<1>3. /\ Rest(order) \in Seq(Domains) /\ Len(Rest(order)) = Len(order) - n
      /\ \A j \in 1..(Len(order) - n) : Rest(order)[j] = order[n + j]
      /\ Len(Oldest(order)) = n /\ Oldest(order) \in Seq(Domains)
      /\ \A j \in 1..n : Oldest(order)[j] = order[j]
  <2> HIDE DEF queue, rest
  <2>1. /\ Rest(order) \in Seq(Domains) /\ Len(Rest(order)) = Len(order) - n
        /\ \A j \in 1..(Len(order) - n) : Rest(order)[j] = order[n + j]
    BY <1>1, <1>2
  <2>2. /\ Len(Oldest(order)) = n /\ Oldest(order) \in Seq(Domains)
        /\ \A j \in 1..n : Oldest(order)[j] = order[j]
    BY <1>1, <1>2
  <2> QED BY <2>1, <2>2
<1>4. /\ DOMAIN queue = 1..(Len(order) + 1)
      /\ \A j \in 1..Len(order) : queue[j] = order[j]
      /\ queue[Len(order) + 1] = d
  BY NewcomerIsLast
<1>5. /\ DOMAIN rest = 1..(Len(order) - n + 1)
      /\ \A j \in 1..(Len(order) - n) : rest[j] = Rest(order)[j]
      /\ rest[Len(order) - n + 1] = d
  BY <1>3, NewcomerIsLast
<1> HIDE DEF queue, rest
<1>6. ASSUME NEW j \in DOMAIN rest
      PROVE  n + j \in DOMAIN queue /\ rest[j] = queue[n + j]
  <2>1. CASE j = Len(order) - n + 1
    BY <1>1, <1>4, <1>5, <2>1
  <2>2. CASE j \in 1..(Len(order) - n)
    BY <1>1, <1>3, <1>4, <1>5, <2>2
  <2> QED BY <1>1, <1>5, <2>1, <2>2
<1>7. ASSUME NEW k \in DOMAIN order, order[k] \notin ToSet(Oldest(order))
      PROVE  k > n
  <2> SUFFICES ASSUME k <= n PROVE FALSE
    BY <1>1
  <2>1. k \in DOMAIN Oldest(order) /\ Oldest(order)[k] = order[k]
    BY <1>1, <1>3
  <2> QED BY <1>7, <2>1 DEF ToSet
<1>8. \A e \in ToSet(order) \ ToSet(Oldest(order)) :
         \E k \in DOMAIN order : k > n /\ order[k] = e
  BY <1>7 DEF ToSet
<1> QED BY <1>1, <1>6, <1>8 DEF n, queue, rest

(* Any activation keeps the slots in order and evicts from the front.      *)
LEMMA ScheduleInOrder ==
    ASSUME MintedApart, CapInv, InOrder, NEW d \in Domains, d \in Live, Schedule(d)
    PROVE  /\ InOrder'
           /\ \A ev \in NewEvents : \A e \in ActiveIn(records') \cap ToSet(recent') :
                 Position(recent', ev.domain) < Position(recent', e)
<1> DEFINE order == Without(active_order, d)
           queue == order \o <<d>>
           n == Excess(order)
           news == EvictionsOf(order)
<1>1. /\ order \in Seq(Domains) /\ queue \in Seq(Domains)
      /\ Distinct(recent') /\ recent' \in Seq(Domains)
      /\ ToSet(queue) \subseteq ToSet(recent')
      /\ \A p, q \in DOMAIN queue : p < q => Before(recent', queue[p], queue[q])
  BY ScheduleOrder
<1>2. Len(order) <= Cap /\ ToSet(active_order) \subseteq ToSet(order) \cup {d}
  <2>1. Len(order) \in Nat /\ Len(active_order) \in Nat
    BY WithoutLosesOne DEF CapInv, SlotsWithinCap
  <2> QED
    BY <2>1, WithoutLosesOne, SchedulerAssumption DEF CapInv, SlotsWithinCap
<1>3. /\ active_order' = Rest(order) \o <<d>>
      /\ evictions' = evictions \o news
      /\ records' = Activated(Hibernated(records, Evicted(order)), d)
      /\ recent' = Without(recent, d) \o <<d>>
  BY DEF Schedule
<1> HIDE DEF order
<1>4. /\ DOMAIN queue = 1..(Len(order) + 1) /\ DOMAIN order = 1..Len(order)
      /\ Len(order) \in Nat
      /\ \A j \in 1..Len(order) : queue[j] = order[j]
      /\ queue[Len(order) + 1] = d
  BY <1>1, NewcomerIsLast
<1>5. /\ n \in 0..Len(order)
      /\ \A j \in DOMAIN active_order' : n + j \in DOMAIN queue /\ active_order'[j] = queue[n + j]
      /\ \A e \in ToSet(order) \ ToSet(Oldest(order)) :
            \E k \in DOMAIN order : k > n /\ order[k] = e
  <2> HIDE DEF queue, n
  <2> QED BY <1>1, <1>2, <1>3, QueueMovesUp DEF queue, n
<1>6. /\ news \in Seq(Events)
      /\ \A k \in DOMAIN news : \E i \in 1..n : i \in DOMAIN order /\ news[k].domain = order[i]
  BY <1>1, EventsOfTheFront
<1>7. active_order' \in Seq(Domains)
  BY <1>1, <1>2, <1>3, ListSplits, OneMore
<1> HIDE DEF queue, n, news
<1>8. InOrder'
  <2>1. ToSet(active_order') \subseteq ToSet(recent')
    <3>1. \A j \in DOMAIN active_order' : active_order'[j] \in ToSet(queue)
      BY <1>5 DEF ToSet
    <3> QED BY <1>1, <3>1 DEF ToSet
  <2>2. ASSUME NEW p \in DOMAIN active_order', NEW q \in DOMAIN active_order', p < q
        PROVE  Before(recent', active_order'[p], active_order'[q])
    <3>1. n + p < n + q
      BY <1>5, <1>7, <2>2
    <3> QED BY <1>1, <1>5, <3>1
  <2>3. evictions' \in Seq(Events)
    BY <1>3, <1>6 DEF InOrder
  <2> QED BY <1>1, <2>1, <2>2, <2>3 DEF InOrder
<1>9. ASSUME NEW ev \in NewEvents, NEW e \in ActiveIn(records') \cap ToSet(recent')
      PROVE  Position(recent', ev.domain) < Position(recent', e)
  <2>1. PICK k \in DOMAIN news : ev = news[k]
    <3>1. PICK j \in DOMAIN evictions' : j > Len(evictions) /\ ev = evictions'[j]
      BY DEF NewEvents
    <3>2. j - Len(evictions) \in DOMAIN news /\ evictions'[j] = news[j - Len(evictions)]
      BY <1>3, <1>6, <3>1 DEF InOrder
    <3> QED BY <3>1, <3>2
  <2>2. PICK i \in 1..n : i \in DOMAIN order /\ ev.domain = order[i]
    BY <1>6, <2>1
  <2>3. PICK m \in DOMAIN queue : m > n /\ queue[m] = e
    <3>1. CASE e = d
      BY <1>4, <1>5, <3>1
    <3>2. CASE e # d
      <4>1. e \in ActiveIn(records) \ Evicted(order)
        <5>1. /\ Hibernated(records, Evicted(order)) \in [Live -> Records]
              /\ DOMAIN Hibernated(records, Evicted(order)) = Live
              /\ ActiveIn(Hibernated(records, Evicted(order)))
                   = ActiveIn(records) \ Evicted(order)
          BY ActiveAfter, HibernatedDomain DEF CapInv, Live
        <5>2. ActiveIn(records') = (ActiveIn(records) \ Evicted(order)) \cup {d}
          BY <1>3, <5>1, ActiveAfter
        <5> QED BY <3>2, <5>2
      <4>2. e \in ToSet(recent)
        <5>1. /\ Without(recent, d) \in Seq(Domains)
              /\ ToSet(Without(recent, d)) \subseteq ToSet(recent)
          BY WithoutLosesOne DEF CapInv
        <5> QED BY <1>3, <3>2, <5>1, OneMore
      <4>3. e \in ToSet(order) \ ToSet(Oldest(order))
        BY <1>2, <3>2, <4>1, <4>2 DEF CapInv, SlotsWithinCap, Evicted
      <4>4. PICK l \in DOMAIN order : l > n /\ order[l] = e
        BY <1>5, <4>3
      <4> QED BY <1>4, <4>4
    <3> QED BY <3>1, <3>2
  <2>4. i \in DOMAIN queue /\ i < m /\ queue[i] = ev.domain
    BY <1>4, <1>5, <2>2, <2>3
  <2>5. Before(recent', ev.domain, e)
    BY <1>1, <2>3, <2>4
  <2> QED BY <1>1, <2>5, PositionsCompare
<1> QED BY <1>8, <1>9

(* The slots stay in the order of the last activations, and every step     *)
(* that adds an event of the cap adds it for somebody who was activated    *)
(* before whoever is left active (EvictLru takes the front of the list).   *)
LEMMA OrderIsKept ==
    ASSUME MintedApart, CapInv, InOrder, [Next]_vars
    PROVE  /\ InOrder'
           /\ \A ev \in NewEvents : ev.reason = "cap" =>
                 \A e \in ActiveIn(records') \cap ToSet(recent') :
                    Position(recent', ev.domain) < Position(recent', e)
<1> DEFINE Quiet == InOrder' /\ \A ev \in NewEvents : ev.reason # "cap"
<1>1. ASSUME NEW d \in Domains, Activate(d) \/ Wake(d)
      PROVE  /\ InOrder'
             /\ \A ev \in NewEvents : \A e \in ActiveIn(records') \cap ToSet(recent') :
                   Position(recent', ev.domain) < Position(recent', e)
  <2>1. d \in Live /\ Schedule(d)
    BY <1>1 DEF Activate, Wake, Usable
  <2> QED BY <2>1, ScheduleInOrder
<1>2. ASSUME UNCHANGED <<active_order, recent, evictions>> PROVE Quiet
  <2>1. NewEvents = {}
    BY <1>2 DEF NewEvents, InOrder
  <2> QED BY <1>2, <2>1 DEF InOrder
<1>3. ASSUME NEW d \in Domains, Hibernate(d) PROVE Quiet
  <2> DEFINE w == Without(active_order, d)
  <2>1. /\ active_order' = w /\ evictions' = Append(evictions, Event(d, "user"))
        /\ recent' = recent
    BY <1>3 DEF Hibernate
  <2>2. ToSet(w) \subseteq ToSet(active_order)
    BY WithoutLosesOne DEF CapInv, SlotsWithinCap
  <2>3. \A p, q \in DOMAIN w : p < q => Before(active_order, w[p], w[q])
    BY WithoutKeepsOrder DEF CapInv, SlotsWithinCap
  <2> HIDE DEF w
  <2>4. \A p, q \in DOMAIN w : p < q => Before(recent, w[p], w[q])
    BY <2>3 DEF InOrder, Before
  <2>5. /\ Event(d, "user") \in Events /\ Event(d, "user").reason # "cap"
    BY DEF Event, Events
  <2>6. evictions' \in Seq(Events) /\ \A ev \in NewEvents : ev = Event(d, "user")
    BY <2>1, <2>5 DEF InOrder, NewEvents
  <2> QED BY <2>1, <2>2, <2>4, <2>5, <2>6 DEF InOrder
<1>4. CASE CompactEvictions
  <2>1. UNCHANGED <<active_order, recent>>
    BY <1>4 DEF CompactEvictions
  <2>2. Len(evictions) \in Nat /\ KeepEvents \in Nat /\ Len(evictions) > KeepEvents
    BY <1>4, SchedulerAssumption DEF CompactEvictions, InOrder
  <2>3. evictions' \in Seq(Events) /\ Len(evictions') = KeepEvents
    BY <1>4, <2>2 DEF CompactEvictions, InOrder
  <2>4. NewEvents = {}
    BY <2>2, <2>3 DEF NewEvents
  <2> QED BY <2>1, <2>3, <2>4 DEF InOrder
<1>5. ASSUME NEW d \in Domains,
             \/ \E in_memory \in BOOLEAN : Create(d, in_memory)
             \/ Archive(d) \/ Destroy(d) \/ PlantResidual(d)
      PROVE  UNCHANGED <<active_order, recent, evictions>>
  BY <1>5 DEF Create, Archive, Destroy, PlantResidual
<1>6. CASE UNCHANGED vars
  BY <1>2, <1>6 DEF vars
<1> HIDE DEF Quiet
<1>7. Quiet => /\ InOrder'
               /\ \A ev \in NewEvents : ev.reason = "cap" =>
                     \A e \in ActiveIn(records') \cap ToSet(recent') :
                        Position(recent', ev.domain) < Position(recent', e)
  BY DEF Quiet
<1> QED BY <1>1, <1>2, <1>3, <1>4, <1>5, <1>6, <1>7 DEF Next

(* The order of the slots, for every schedule of calls.                    *)
THEOREM InOrderAlways == Spec => []InOrder
<1>1. Init => InOrder
  BY DEF Init, InOrder, Distinct, ToSet
<1> QED BY <1>1, OrderIsKept, MintedApartAlways, CapInvariant, PTL DEF Spec

(* The cap evicts the least recently activated first, whatever was         *)
(* archived, destroyed or hibernated in between (Scheduler::EvictLru).     *)
THEOREM LeastRecentAlways == Spec => LeastRecentGoesFirst
<1>1. MintedApart /\ CapInv /\ InOrder /\ [Next]_vars
          => [\A ev \in NewEvents : ev.reason = "cap" =>
                 \A d \in ActiveIn(records') \cap ToSet(recent') :
                    Position(recent', ev.domain) < Position(recent', d)]_vars
  BY OrderIsKept
<1> QED
  BY <1>1, MintedApartAlways, CapInvariant, InOrderAlways, PTL DEF Spec, LeastRecentGoesFirst
-----------------------------------------------------------------------------
(* Tabs and their trail.                                                   *)

AuditRows == [tab_id : Tabs, from : Partitions \cup {NoDomain}, to : Partitions,
              cause : {"kWindowDefault", "kUserConfirmedMove", "kRestore"}]

TabsOf(rows) == {rows[i].tab_id : i \in DOMAIN rows}

(* The rows after i are about other tabs; those between i and j are.       *)
LastOfItsTab(rows, i) == \A j \in DOMAIN rows : j > i => rows[j].tab_id # rows[i].tab_id
NoneBetween(rows, i, j) ==
    \A k \in (i + 1) .. (j - 1) : rows[k].tab_id # rows[i].tab_id

(* A row starts where the one before it of its tab ended.                  *)
Chained(rows) ==
    \A i, j \in DOMAIN rows :
        i < j /\ rows[i].tab_id = rows[j].tab_id /\ NoneBetween(rows, i, j)
        => rows[j].from = rows[i].to

(* The rows are about the tabs that are bound, and the last one of each    *)
(* tab is its binding.                                                     *)
Explain(rows, bindings) ==
    /\ TabsOf(rows) = DOMAIN bindings
    /\ \A i \in DOMAIN rows :
          LastOfItsTab(rows, i) => rows[i].to = bindings[rows[i].tab_id]

Trail ==
    /\ tab_identity \in Bindings
    /\ changes \in Seq(AuditRows)
    /\ Explain(changes, tab_identity)
    /\ Chained(changes)

(* A document names finitely many tabs, and only partitions that were      *)
(* created once are alive.                                                 *)
StoreInv ==
    /\ born \in [DOMAIN born -> BOOLEAN] /\ DOMAIN born \subseteq Partitions
    /\ live \subseteq DOMAIN born
    /\ session \in Bindings

(* The last row of a tab, of the rows at some places.                      *)
LEMMA LatestIsLast ==
    ASSUME NEW rows, IsSeq(rows), NEW at \in SUBSET DOMAIN rows
    PROVE  /\ DOMAIN LatestOf(rows, at) = {rows[i].tab_id : i \in at}
           /\ \A t \in DOMAIN LatestOf(rows, at) :
                 /\ LatestOf(rows, at)[t] \in at
                 /\ rows[LatestOf(rows, at)[t]].tab_id = t
                 /\ \A j \in at : rows[j].tab_id = t => j <= LatestOf(rows, at)[t]
<1>1. Len(rows) \in Nat /\ DOMAIN rows = 1..Len(rows)
  BY SeqShape
<1> DEFINE latest == LatestOf(rows, at)
           Own(t) == {i \in at : rows[i].tab_id = t}
<1>2. /\ DOMAIN latest = {rows[i].tab_id : i \in at}
      /\ \A t \in DOMAIN latest : latest[t] = Max(Own(t))
  BY DEF LatestOf
<1> HIDE DEF latest
<1>3. ASSUME NEW t \in DOMAIN latest
      PROVE  latest[t] \in Own(t) /\ \A j \in Own(t) : j <= latest[t]
  <2>1. Own(t) \in SUBSET (1..Len(rows)) /\ Own(t) # {}
    BY <1>1, <1>2
  <2> HIDE DEF Own
  <2>2. Own(t) \in SUBSET (0..Len(rows))
    BY <1>1, <2>1
  <2> QED BY <1>1, <1>2, <2>1, <2>2, GreatestNumber
<1> QED BY <1>2, <1>3 DEF latest

(* The tabs that rows are about are finitely many.                         *)
LEMMA FewTabs ==
    ASSUME NEW rows \in Seq(AuditRows)
    PROVE  IsFiniteSet(TabsOf(rows)) /\ TabsOf(rows) \subseteq Tabs
<1> DEFINE named == [i \in 1..Len(rows) |-> rows[i].tab_id]
<1>1. Len(rows) \in Nat /\ DOMAIN rows = 1..Len(rows) /\ \A i \in DOMAIN rows : rows[i] \in AuditRows
  OBVIOUS
<1>2. \A i \in DOMAIN rows : rows[i].tab_id \in Tabs
  BY <1>1 DEF AuditRows
<1>3. named \in Seq(Tabs) /\ DOMAIN named = 1..Len(rows)
  BY <1>1, <1>2
<1>4. ToSet(named) = TabsOf(rows)
  BY <1>1, <1>3 DEF ToSet, TabsOf
<1> HIDE DEF named
<1>5. IsFiniteSet(ToSet(named))
  BY <1>3, CardinalityOfMembers
<1> QED BY <1>1, <1>2, <1>4, <1>5 DEF TabsOf

(* One row for each tab, in ascending order, explains the tabs it names if *)
(* each row does, and there is nothing to chain.                           *)
LEMMA OneRowEach ==
    ASSUME NEW f, DOMAIN f \in SUBSET Tabs, IsFiniteSet(DOMAIN f),
           \A t \in DOMAIN f : f[t] \in AuditRows /\ f[t].tab_id = t
    PROVE  /\ Ascending(f) \in Seq(AuditRows)
           /\ TabsOf(Ascending(f)) = DOMAIN f
           /\ \A k \in DOMAIN Ascending(f) :
                 \E t \in DOMAIN f : Ascending(f)[k] = f[t]
           /\ Chained(Ascending(f))
<1> DEFINE at == DOMAIN f
           rows == Ascending(f)
<1>1. at \in SUBSET Int /\ IsFiniteSet(at)
  <2>1. Tabs \subseteq Int
    BY SessionAssumption
  <2> QED BY <2>1
<1>2. /\ DOMAIN rows = 1..Cardinality(at) /\ Cardinality(at) \in Nat
      /\ IsSeq(rows) /\ Len(rows) = Cardinality(at)
      /\ \A k \in DOMAIN rows : Nth(k, at) \in at /\ rows[k] = f[Nth(k, at)]
      /\ \A j, k \in DOMAIN rows : j < k => Nth(j, at) < Nth(k, at)
      /\ \A i \in at : \E k \in DOMAIN rows : Nth(k, at) = i
  <2> HIDE DEF at
  <2> QED BY <1>1, AscendingMembers DEF at
<1> HIDE DEF rows
<1>3. \A k \in DOMAIN rows : /\ rows[k] \in AuditRows /\ rows[k].tab_id = Nth(k, at)
                             /\ \E t \in at : rows[k] = f[t]
  BY <1>2
<1>4. rows \in Seq(AuditRows)
  <2>1. ToSet(rows) \subseteq AuditRows
    BY <1>3 DEF ToSet
  <2> HIDE DEF ToSet
  <2> QED BY <1>2, <2>1, SeqMonotonic DEF IsSeq
<1>5. TabsOf(rows) = at
  <2>1. \A t \in at : \E k \in DOMAIN rows : rows[k].tab_id = t
    BY <1>2, <1>3
  <2>2. \A k \in DOMAIN rows : rows[k].tab_id \in at
    BY <1>2, <1>3
  <2> HIDE DEF at
  <2> QED BY <2>1, <2>2 DEF TabsOf
<1>6. ASSUME NEW i \in DOMAIN rows, NEW j \in DOMAIN rows, i < j
      PROVE  rows[i].tab_id # rows[j].tab_id
  <2>1. Nth(i, at) < Nth(j, at) /\ Nth(i, at) \in Int /\ Nth(j, at) \in Int
    BY <1>1, <1>2, <1>6
  <2> QED BY <1>3, <2>1
<1>7. Chained(rows)
  BY <1>6 DEF Chained
<1> QED BY <1>3, <1>4, <1>5, <1>7 DEF rows, at

(* Bindings and documents are functions from finitely many tabs.           *)
LEMMA BindingShape ==
    ASSUME NEW b
    PROVE  b \in Bindings <=> /\ b \in [DOMAIN b -> Partitions]
                              /\ DOMAIN b \in SUBSET Tabs /\ IsFiniteSet(DOMAIN b)
BY DEF Bindings

(* No rows explain no bindings.                                            *)
LEMMA NothingIsExplained ==
    /\ <<>> \in Bindings
    /\ <<>> \in Seq(AuditRows)
    /\ Explain(<<>>, <<>>)
    /\ Chained(<<>>)
<1>1. IsFiniteSet({}) /\ DOMAIN <<>> = {} /\ <<>> \in [{} -> Partitions]
  BY FS_EmptySet
<1>2. <<>> \in Bindings
  BY <1>1, BindingShape
<1> QED BY <1>1, <1>2 DEF Explain, TabsOf, Chained

(* The trail is a sequence of rows about tabs and partitions.              *)
LEMMA RowShape ==
    ASSUME Trail
    PROVE  /\ IsSeq(changes) /\ Len(changes) \in Nat /\ DOMAIN changes = 1..Len(changes)
           /\ \A i \in DOMAIN changes : changes[i] \in AuditRows
           /\ \A i \in DOMAIN changes : /\ changes[i].tab_id \in Tabs
                                        /\ changes[i].to \in Partitions
<1>1. Len(changes) \in Nat /\ DOMAIN changes = 1..Len(changes)
      /\ \A i \in DOMAIN changes : changes[i] \in AuditRows
  BY DEF Trail
<1>2. IsSeq(changes)
  <2>1. changes \in [1..Len(changes) -> ToSet(changes)]
    BY <1>1 DEF ToSet, Trail
  <2> QED BY <1>1, <2>1 DEF IsSeq
<1> QED BY <1>1, <1>2 DEF AuditRows

(* The last row of a tab is where LatestRow finds it.                      *)
LEMMA LatestBinds ==
    ASSUME Trail, NEW t \in DOMAIN tab_identity
    PROVE  /\ t \in DOMAIN LatestRow(changes)
           /\ LatestRow(changes)[t] \in DOMAIN changes
           /\ changes[LatestRow(changes)[t]].tab_id = t
           /\ changes[LatestRow(changes)[t]].to = tab_identity[t]
<1> DEFINE i == LatestRow(changes)[t]
<1>1. /\ DOMAIN LatestRow(changes) = TabsOf(changes)
      /\ \A u \in DOMAIN LatestRow(changes) :
            /\ LatestRow(changes)[u] \in DOMAIN changes
            /\ changes[LatestRow(changes)[u]].tab_id = u
            /\ \A j \in DOMAIN changes :
                  changes[j].tab_id = u => j <= LatestRow(changes)[u]
  BY RowShape, LatestIsLast DEF LatestRow, TabsOf
<1>2. t \in DOMAIN LatestRow(changes)
  BY <1>1 DEF Trail, Explain
<1>3. /\ i \in DOMAIN changes /\ changes[i].tab_id = t
      /\ \A j \in DOMAIN changes : changes[j].tab_id = t => j <= i
  BY <1>1, <1>2
<1> HIDE DEF i
<1>4. LastOfItsTab(changes, i)
  BY <1>3, RowShape DEF LastOfItsTab
<1>5. changes[i].to = tab_identity[t]
  BY <1>3, <1>4 DEF Trail, Explain
<1> QED BY <1>2, <1>3, <1>5 DEF i

(* What a save writes names tabs that are bound, and partitions.           *)
LEMMA SnapshotFits ==
    ASSUME Trail
    PROVE  Snapshot(changes) \in Bindings
<1> DEFINE kept == {i \in DOMAIN changes : changes[i].to \in live}
           latest == LatestOf(changes, kept)
           doc == Snapshot(changes)
<1>1. /\ DOMAIN latest \subseteq TabsOf(changes)
      /\ \A t \in DOMAIN latest : latest[t] \in DOMAIN changes
  <2>1. kept \in SUBSET DOMAIN changes
    OBVIOUS
  <2> HIDE DEF kept
  <2>2. /\ DOMAIN latest = {changes[i].tab_id : i \in kept}
        /\ \A t \in DOMAIN latest : latest[t] \in kept
    BY <2>1, RowShape, LatestIsLast
  <2> HIDE DEF latest
  <2> QED BY <2>1, <2>2 DEF TabsOf
<1>2. /\ doc = [t \in DOMAIN doc |-> changes[latest[t]].to]
      /\ DOMAIN doc \subseteq DOMAIN latest
  BY DEF Snapshot
<1> HIDE DEF latest, doc
<1>3. DOMAIN doc \in SUBSET Tabs /\ IsFiniteSet(DOMAIN doc)
  BY <1>1, <1>2, FewTabs, FS_Subset DEF Trail
<1>4. doc \in [DOMAIN doc -> Partitions]
  BY <1>1, <1>2, RowShape
<1> QED BY <1>3, <1>4, BindingShape DEF doc

(* A change of a binding adds the row that explains it.                    *)
LEMMA ChangeIsExplained ==
    ASSUME Trail, NEW t \in Tabs, NEW to \in Partitions,
           NEW cause \in {"kWindowDefault", "kUserConfirmedMove"},
           ChangeTabIdentity(t, to, cause)
    PROVE  Trail'
<1> DEFINE row == [tab_id |-> t, from |-> CurrentOf(tab_identity, t), to |-> to, cause |-> cause]
           n == Len(changes)
<1>1. /\ changes' = Append(changes, row)
      /\ tab_identity' = [u \in DOMAIN tab_identity \cup {t} |->
                             IF u = t THEN to ELSE tab_identity[u]]
  BY DEF ChangeTabIdentity
<1>2. tab_identity' \in Bindings
  <2>1. /\ tab_identity \in [DOMAIN tab_identity -> Partitions]
        /\ DOMAIN tab_identity \in SUBSET Tabs /\ IsFiniteSet(DOMAIN tab_identity)
    BY BindingShape DEF Trail
  <2>2. IsFiniteSet(DOMAIN tab_identity \cup {t})
    BY <2>1, FS_AddElement
  <2>3. /\ tab_identity' \in [DOMAIN tab_identity' -> Partitions]
        /\ DOMAIN tab_identity' = DOMAIN tab_identity \cup {t}
    BY <1>1, <2>1
  <2> QED BY <2>1, <2>2, <2>3, BindingShape
<1>3. row \in AuditRows /\ row.tab_id = t /\ row.to = to /\ row.from = CurrentOf(tab_identity, t)
  <2>1. CurrentOf(tab_identity, t) \in Partitions \cup {NoDomain}
    BY BindingShape DEF Trail, CurrentOf
  <2> QED BY <2>1 DEF AuditRows
<1> HIDE DEF row
<1>4. /\ n \in Nat /\ DOMAIN changes = 1..n /\ DOMAIN changes' = 1..(n + 1)
      /\ changes' \in Seq(AuditRows)
      /\ \A i \in 1..n : changes'[i] = changes[i]
      /\ changes'[n + 1] = row
  BY <1>1, <1>3, RowShape DEF Trail
<1> HIDE DEF n
<1>5. Explain(changes', tab_identity')
  <2>1. TabsOf(changes') = DOMAIN tab_identity'
    <3>1. TabsOf(changes) = DOMAIN tab_identity
      BY DEF Trail, Explain
    <3>2. \A i \in DOMAIN changes' : changes'[i].tab_id \in TabsOf(changes) \cup {t}
      BY <1>3, <1>4 DEF TabsOf
    <3>3. \A i \in DOMAIN changes : i \in DOMAIN changes' /\ changes'[i].tab_id = changes[i].tab_id
      BY <1>4
    <3>4. n + 1 \in DOMAIN changes' /\ changes'[n + 1].tab_id = t
      BY <1>3, <1>4
    <3>5. DOMAIN tab_identity' = DOMAIN tab_identity \cup {t}
      BY <1>1
    <3>6. TabsOf(changes) \subseteq TabsOf(changes')
      BY <3>3 DEF TabsOf
    <3>7. t \in TabsOf(changes')
      BY <3>4 DEF TabsOf
    <3>8. TabsOf(changes') \subseteq TabsOf(changes) \cup {t}
      BY <3>2 DEF TabsOf
    <3> QED BY <3>1, <3>5, <3>6, <3>7, <3>8
  <2>2. ASSUME NEW i \in DOMAIN changes', LastOfItsTab(changes', i)
        PROVE  changes'[i].to = tab_identity'[changes'[i].tab_id]
    <3>1. CASE i = n + 1
      BY <1>1, <1>3, <1>4, <3>1
    <3>2. CASE i # n + 1
      <4>1. i \in DOMAIN changes /\ changes'[i] = changes[i]
        BY <1>4, <3>2
      <4>2. changes[i].tab_id # t
        BY <1>3, <1>4, <2>2, <4>1 DEF LastOfItsTab
      <4>3. LastOfItsTab(changes, i)
        BY <1>4, <2>2, <4>1 DEF LastOfItsTab
      <4>4. changes[i].tab_id \in DOMAIN tab_identity
        BY <4>1 DEF Trail, Explain, TabsOf
      <4> QED BY <1>1, <4>1, <4>2, <4>3, <4>4 DEF Trail, Explain
    <3> QED BY <3>1, <3>2
  <2> QED BY <2>1, <2>2 DEF Explain
<1>6. Chained(changes')
  <2> SUFFICES ASSUME NEW i \in DOMAIN changes', NEW j \in DOMAIN changes', i < j,
                      changes'[i].tab_id = changes'[j].tab_id, NoneBetween(changes', i, j)
               PROVE  changes'[j].from = changes'[i].to
    BY DEF Chained
  <2>1. i \in DOMAIN changes /\ changes'[i] = changes[i]
    BY <1>4
  <2>2. CASE j = n + 1
    <3>1. changes[i].tab_id = t
      BY <1>3, <1>4, <2>1, <2>2
    <3>2. LastOfItsTab(changes, i)
      <4> SUFFICES ASSUME NEW k \in DOMAIN changes, k > i
                   PROVE  changes[k].tab_id # changes[i].tab_id
        BY DEF LastOfItsTab
      <4>1. k \in (i + 1) .. (j - 1) /\ changes'[k] = changes[k]
        BY <1>4, <2>1, <2>2
      <4> QED BY <2>1, <4>1 DEF NoneBetween
    <3>3. changes[i].to = tab_identity[t] /\ t \in DOMAIN tab_identity
      BY <2>1, <3>1, <3>2 DEF Trail, Explain, TabsOf
    <3> QED BY <1>3, <1>4, <2>1, <2>2, <3>3 DEF CurrentOf
  <2>3. CASE j # n + 1
    <3>1. j \in DOMAIN changes /\ changes'[j] = changes[j]
      BY <1>4, <2>3
    <3>2. NoneBetween(changes, i, j)
      BY <1>4, <2>1, <3>1 DEF NoneBetween
    <3> QED BY <2>1, <3>1, <3>2 DEF Trail, Chained
  <2> QED BY <2>2, <2>3
<1> QED BY <1>2, <1>4, <1>5, <1>6 DEF Trail

(* Forgetting all but the last row of each tab loses no explanation.       *)
LEMMA CompactionExplains ==
    ASSUME Trail, CompactAudit
    PROVE  Trail'
<1> DEFINE f == [t \in DOMAIN LatestRow(changes) |-> changes[LatestRow(changes)[t]]]
<1>1. changes' = Ascending(f) /\ tab_identity' = tab_identity
  BY DEF CompactAudit
<1>2. DOMAIN f = DOMAIN tab_identity
  <2>1. DOMAIN LatestRow(changes) = TabsOf(changes)
    BY RowShape, LatestIsLast DEF LatestRow, TabsOf
  <2> QED BY <2>1 DEF Trail, Explain
<1>3. ASSUME NEW t \in DOMAIN tab_identity
      PROVE  f[t] \in AuditRows /\ f[t].tab_id = t /\ f[t].to = tab_identity[t]
  BY LatestBinds, RowShape
<1> HIDE DEF f
<1>4. /\ changes' \in Seq(AuditRows)
      /\ TabsOf(changes') = DOMAIN tab_identity
      /\ \A k \in DOMAIN changes' : \E t \in DOMAIN tab_identity : changes'[k] = f[t]
      /\ Chained(changes')
  <2>1. DOMAIN f \in SUBSET Tabs /\ IsFiniteSet(DOMAIN f)
    BY <1>2, BindingShape DEF Trail
  <2> QED BY <1>1, <1>2, <1>3, <2>1, OneRowEach
<1>5. \A k \in DOMAIN changes' : changes'[k].to = tab_identity[changes'[k].tab_id]
  BY <1>3, <1>4
<1> QED BY <1>1, <1>4, <1>5 DEF Trail, Explain

(* Restoring a document gives each of its tabs the row that explains it.   *)
LEMMA RestoreExplains ==
    ASSUME StoreInv, Restore
    PROVE  Trail'
<1> DEFINE f == [t \in DOMAIN session |->
                    [tab_id |-> t, from |-> NoDomain, to |-> session[t], cause |-> "kRestore"]]
<1>1. changes' = Ascending(f) /\ tab_identity' = session
  BY DEF Restore
<1>2. /\ session \in [DOMAIN session -> Partitions]
      /\ DOMAIN session \in SUBSET Tabs /\ IsFiniteSet(DOMAIN session)
  BY BindingShape DEF StoreInv
<1>3. DOMAIN f = DOMAIN session
  OBVIOUS
<1>4. ASSUME NEW t \in DOMAIN session
      PROVE  f[t] \in AuditRows /\ f[t].tab_id = t /\ f[t].to = session[t]
  BY <1>2 DEF AuditRows
<1> HIDE DEF f
<1>5. /\ changes' \in Seq(AuditRows)
      /\ TabsOf(changes') = DOMAIN session
      /\ \A k \in DOMAIN changes' : \E t \in DOMAIN session : changes'[k] = f[t]
      /\ Chained(changes')
  BY <1>1, <1>2, <1>3, <1>4, OneRowEach
<1>6. \A k \in DOMAIN changes' : changes'[k].to = session[changes'[k].tab_id]
  BY <1>4, <1>5
<1> QED BY <1>1, <1>5, <1>6 DEF Trail, Explain, StoreInv

(* What ends the process or writes the document keeps the trail and the    *)
(* store: the rows go with the bindings they explain.                      *)
LEMMA StepKeepsSession ==
    ASSUME StoreInv, Trail, [SessionNext]_sessionVars
    PROVE  StoreInv' /\ Trail'
<1>1. ASSUME NEW d \in Partitions, NEW in_memory \in BOOLEAN, CreateIdentity(d, in_memory)
      PROVE  StoreInv' /\ Trail'
  <2>1. Trail'
    BY <1>1 DEF CreateIdentity, Trail
  <2>2. /\ born' = [e \in DOMAIN born \cup {d} |-> IF e = d THEN in_memory ELSE born[e]]
        /\ live' = live \cup {d} /\ session' = session
    BY <1>1 DEF CreateIdentity
  <2> QED BY <2>1, <2>2 DEF StoreInv
<1>2. ASSUME NEW d \in Partitions, DestroyIdentity(d)
      PROVE  StoreInv' /\ Trail'
  BY <1>2 DEF DestroyIdentity, StoreInv, Trail
<1>3. ASSUME NEW d \in Partitions, NEW t \in Tabs, OpenTab(t, d) \/ MoveTab(t, d)
      PROVE  StoreInv' /\ Trail'
  <2>1. Trail'
    BY <1>3, ChangeIsExplained DEF OpenTab, MoveTab
  <2>2. UNCHANGED <<born, live, session>>
    BY <1>3 DEF OpenTab, MoveTab, ChangeTabIdentity
  <2> QED BY <2>1, <2>2 DEF StoreInv
<1>4. CASE CompactAudit
  <2>1. Trail'
    BY <1>4, CompactionExplains
  <2> QED BY <1>4, <2>1 DEF CompactAudit, StoreInv
<1>5. CASE Save
  <2>1. session' \in Bindings
    BY <1>5, SnapshotFits DEF Save
  <2> QED BY <1>5, <2>1 DEF Save, StoreInv, Trail
<1>6. CASE Crash
  <2>1. tab_identity' = <<>> /\ changes' = <<>> /\ live' \subseteq live
        /\ UNCHANGED <<born, session>>
    BY <1>6 DEF Crash, NoBindings
  <2>2. Trail'
    BY <2>1, NothingIsExplained DEF Trail
  <2> QED BY <2>1, <2>2 DEF StoreInv
<1>7. ASSUME NEW doc \in Bindings, Tamper(doc)
      PROVE  StoreInv' /\ Trail'
  BY <1>7 DEF Tamper, StoreInv, Trail
<1>8. CASE Restore
  <2>1. Trail'
    BY <1>8, RestoreExplains
  <2> QED BY <1>8, <2>1 DEF Restore, StoreInv
<1>9. CASE UNCHANGED sessionVars
  BY <1>9 DEF sessionVars, StoreInv, Trail
<1> QED BY <1>1, <1>2, <1>3, <1>4, <1>5, <1>6, <1>7, <1>8, <1>9 DEF SessionNext

(* The store and the trail, for every schedule of calls, quits, crashes    *)
(* and documents changed from outside.                                     *)
THEOREM SessionInvariant == SessionSpec => [](StoreInv /\ Trail)
<1>1. SessionInit => StoreInv /\ Trail
  <2> SUFFICES ASSUME SessionInit PROVE StoreInv /\ Trail
    OBVIOUS
  <2>1. Trail
    BY NothingIsExplained DEF SessionInit, NoBindings, Trail
  <2>2. session \in Bindings
    BY NothingIsExplained DEF SessionInit, NoBindings
  <2>3. born = <<>> /\ live = {}
    BY DEF SessionInit
  <2>4. born \in [DOMAIN born -> BOOLEAN] /\ DOMAIN born = {}
    BY <2>3
  <2> QED BY <2>1, <2>2, <2>3, <2>4 DEF StoreInv
<1> QED BY <1>1, StepKeepsSession, PTL DEF SessionSpec

(* The audit trail explains every binding, before and after a compaction   *)
(* and a restore (ChangeTabIdentity, CompactAudit, RestoreTab).            *)
THEOREM AuditExplains == SessionSpec => []AuditExplainsBindings
<1>1. Trail => AuditExplainsBindings
  <2> SUFFICES ASSUME Trail PROVE AuditExplainsBindings
    OBVIOUS
  <2>1. DOMAIN LatestRow(changes) = DOMAIN tab_identity
    <3>1. DOMAIN LatestRow(changes) = TabsOf(changes)
      BY RowShape, LatestIsLast DEF LatestRow, TabsOf
    <3> QED BY <3>1 DEF Trail, Explain
  <2>2. \A t \in DOMAIN tab_identity : changes[LatestRow(changes)[t]].to = tab_identity[t]
    BY LatestBinds
  <2>3. ASSUME NEW i \in DOMAIN changes, NEW j \in DOMAIN changes, i < j,
               changes[i].tab_id = changes[j].tab_id,
               \A k \in (i + 1) .. (j - 1) : changes[k].tab_id # changes[i].tab_id
        PROVE  changes[j].from = changes[i].to
    BY <2>3 DEF Trail, Chained, NoneBetween
  <2> QED BY <2>1, <2>2, <2>3 DEF AuditExplainsBindings
<1> QED BY <1>1, SessionInvariant, PTL

(* What a save would write is exact for every tab whose identity is alive: *)
(* its last row names that identity, so skipping the rows of purged ones   *)
(* first (session.cc: Snapshot) cannot bring back an older row.            *)
LEMMA SnapshotTells ==
    ASSUME StoreInv, Trail
    PROVE  SnapshotIsExact
<1> SUFFICES ASSUME NEW t \in DOMAIN tab_identity, tab_identity[t] \in live
             PROVE  CurrentOf(Snapshot(changes), t) =
                        IF InMemory(tab_identity[t]) THEN NoDomain ELSE tab_identity[t]
  BY DEF SnapshotIsExact
<1> DEFINE d == tab_identity[t]
           last == LatestRow(changes)[t]
           kept == {i \in DOMAIN changes : changes[i].to \in live}
           latest == LatestOf(changes, kept)
           doc == Snapshot(changes)
<1>1. last \in DOMAIN changes /\ changes[last].tab_id = t /\ changes[last].to = d
  BY LatestBinds
<1>2. \A j \in DOMAIN changes : changes[j].tab_id = t => j <= last
  BY LatestBinds, RowShape, LatestIsLast DEF LatestRow
<1> HIDE DEF last
<1>3. last \in kept
  BY <1>1
<1>4. /\ DOMAIN latest = {changes[i].tab_id : i \in kept}
      /\ \A u \in DOMAIN latest :
            /\ latest[u] \in kept /\ changes[latest[u]].tab_id = u
            /\ \A j \in kept : changes[j].tab_id = u => j <= latest[u]
  <2>1. kept \in SUBSET DOMAIN changes
    OBVIOUS
  <2> HIDE DEF kept
  <2> QED BY <2>1, RowShape, LatestIsLast
<1>5. doc = [u \in {v \in DOMAIN latest : Durable(changes[latest[v]].to)} |-> changes[latest[u]].to]
  BY DEF Snapshot
<1>6. kept \subseteq DOMAIN changes
  OBVIOUS
<1> HIDE DEF latest, doc, kept
<1>7. t \in DOMAIN latest
  BY <1>1, <1>3, <1>4
<1>8. latest[t] = last
  <2>1. last <= latest[t] /\ latest[t] <= last
    BY <1>1, <1>2, <1>3, <1>4, <1>6, <1>7
  <2>2. last \in Int /\ latest[t] \in Int
    BY <1>1, <1>4, <1>6, <1>7, RowShape
  <2> QED BY <2>1, <2>2
<1>9. changes[latest[t]].to = d
  BY <1>1, <1>8
<1>10. InMemory(d) \in BOOLEAN
  BY DEF StoreInv, InMemory
<1> HIDE DEF d
<1>11. CASE InMemory(d)
  <2>1. t \notin DOMAIN doc
    BY <1>5, <1>9, <1>11 DEF Durable
  <2> QED BY <1>11, <2>1 DEF CurrentOf, doc, d
<1>12. CASE ~InMemory(d)
  <2>1. Durable(d)
    BY <1>12 DEF Durable, d
  <2>2. t \in DOMAIN doc /\ doc[t] = d
    BY <1>5, <1>7, <1>9, <2>1
  <2> QED BY <1>12, <2>2 DEF CurrentOf, doc, d
<1> QED BY <1>10, <1>11, <1>12

(* So it is at every moment, whatever was moved, destroyed and compacted.  *)
THEOREM SnapshotExact == SessionSpec => []SnapshotIsExact
BY SessionInvariant, SnapshotTells, PTL

(* A document names identities that were created once; one of our own names *)
(* none that is in-memory, and each tab that it was to bring back.          *)
KnownIdentities ==
    /\ \A t \in DOMAIN tab_identity : tab_identity[t] \in DOMAIN born
    /\ \A t \in DOMAIN session : session[t] \in DOMAIN born
    /\ \A t \in DOMAIN saved_bindings : saved_bindings[t] \in DOMAIN born
OwnDocument ==
    ~tampered => /\ \A t \in DOMAIN session : ~InMemory(session[t])
                 /\ \A t \in DOMAIN saved_bindings : Durable(saved_bindings[t]) =>
                       CurrentOf(session, t) = saved_bindings[t]

(* An identity once created stays what it was, alive or destroyed: those   *)
(* that a document names are not made anew.                                *)
LEMMA NoneIsMadeAnew ==
    ASSUME KnownIdentities, OwnDocument, UNCHANGED <<session, tampered, saved_bindings>>,
           DOMAIN born \subseteq DOMAIN born',
           \A d \in DOMAIN born : born'[d] = born[d] /\ (d \in live' => d \in live)
    PROVE  OwnDocument'
<1> SUFFICES ASSUME ~tampered
             PROVE  /\ \A t \in DOMAIN session : ~born'[session[t]]
                    /\ \A t \in DOMAIN saved_bindings : Durable(saved_bindings[t])' =>
                          CurrentOf(session, t) = saved_bindings[t]
  BY DEF OwnDocument, InMemory, Durable, CurrentOf
<1>1. \A t \in DOMAIN session : ~born'[session[t]]
  BY DEF KnownIdentities, OwnDocument, InMemory
<1>2. ASSUME NEW t \in DOMAIN saved_bindings, Durable(saved_bindings[t])'
      PROVE  Durable(saved_bindings[t])
  BY <1>2 DEF KnownIdentities, Durable, InMemory
<1> QED BY <1>1, <1>2 DEF OwnDocument

(* Every step keeps both.                                                  *)
LEMMA StepKeepsDocument ==
    ASSUME StoreInv, Trail, KnownIdentities, OwnDocument, [SessionNext]_sessionVars
    PROVE  KnownIdentities' /\ OwnDocument'
<1>1. ASSUME NEW d \in Partitions, NEW in_memory \in BOOLEAN, CreateIdentity(d, in_memory)
      PROVE  KnownIdentities' /\ OwnDocument'
  <2>1. /\ d \notin DOMAIN born /\ live' = live \cup {d}
        /\ DOMAIN born' = DOMAIN born \cup {d} /\ \A e \in DOMAIN born : born'[e] = born[e]
        /\ UNCHANGED <<tab_identity, session, tampered, saved_bindings>>
    BY <1>1 DEF CreateIdentity
  <2>2. KnownIdentities'
    BY <2>1 DEF KnownIdentities
  <2> QED BY <2>1, <2>2, NoneIsMadeAnew
<1>2. ASSUME NEW d \in Partitions, DestroyIdentity(d)
      PROVE  KnownIdentities' /\ OwnDocument'
  <2>1. UNCHANGED <<born, tab_identity, session, tampered, saved_bindings>> /\ live' \subseteq live
    BY <1>2 DEF DestroyIdentity
  <2> QED BY <2>1, NoneIsMadeAnew DEF KnownIdentities
<1>3. ASSUME NEW d \in Partitions, NEW t \in Tabs, OpenTab(t, d) \/ MoveTab(t, d)
      PROVE  KnownIdentities' /\ OwnDocument'
  <2>1. /\ d \in DOMAIN born /\ UNCHANGED <<born, live, session, tampered, saved_bindings>>
        /\ tab_identity' = [u \in DOMAIN tab_identity \cup {t} |-> IF u = t THEN d ELSE tab_identity[u]]
    BY <1>3 DEF OpenTab, MoveTab, ChangeTabIdentity
  <2> QED BY <2>1, NoneIsMadeAnew DEF KnownIdentities
<1>4. CASE CompactAudit
  <2>1. UNCHANGED <<born, live, tab_identity, session, tampered, saved_bindings>>
    BY <1>4 DEF CompactAudit
  <2> QED BY <2>1, NoneIsMadeAnew DEF KnownIdentities
<1>5. CASE Save
  <2>1. /\ session' = Snapshot(changes) /\ saved_bindings' = tab_identity
        /\ UNCHANGED <<born, live, tab_identity>>
    BY <1>5 DEF Save
  <2>2. \A t \in DOMAIN Snapshot(changes) : Durable(Snapshot(changes)[t])
    BY DEF Snapshot
  <2>3. KnownIdentities'
    BY <2>1, <2>2 DEF KnownIdentities, Durable, StoreInv
  <2>4. SnapshotIsExact
    BY SnapshotTells
  <2>5. ASSUME NEW t \in DOMAIN tab_identity, Durable(tab_identity[t])
        PROVE  CurrentOf(Snapshot(changes), t) = tab_identity[t]
    BY <2>4, <2>5 DEF SnapshotIsExact, Durable
  <2>6. OwnDocument'
    BY <2>1, <2>2, <2>5 DEF OwnDocument, Durable, InMemory, CurrentOf
  <2> QED BY <2>3, <2>6
<1>6. CASE Crash
  <2>1. /\ tab_identity' = <<>> /\ live' \subseteq live
        /\ UNCHANGED <<born, session, tampered, saved_bindings>>
    BY <1>6 DEF Crash, NoBindings
  <2> QED BY <2>1, NoneIsMadeAnew DEF KnownIdentities
<1>7. ASSUME NEW doc \in Bindings, Range(doc) \subseteq DOMAIN born, Tamper(doc)
      PROVE  KnownIdentities' /\ OwnDocument'
  <2>1. \A t \in DOMAIN doc : doc[t] \in DOMAIN born
    BY <1>7 DEF Range
  <2> QED BY <1>7, <2>1 DEF Tamper, KnownIdentities, OwnDocument
<1>8. CASE Restore
  <2>1. tab_identity' = session /\ UNCHANGED <<born, live, session, tampered, saved_bindings>>
    BY <1>8 DEF Restore
  <2> QED BY <2>1, NoneIsMadeAnew DEF KnownIdentities
<1>9. CASE UNCHANGED sessionVars
  BY <1>9, NoneIsMadeAnew DEF sessionVars, KnownIdentities
<1> QED BY <1>1, <1>2, <1>3, <1>4, <1>5, <1>6, <1>7, <1>8, <1>9 DEF SessionNext

(* What was saved comes back with the identities it had, as long as these  *)
(* live, and a document of our own is refused only for an identity that    *)
(* was destroyed since (session.cc: Snapshot, RestoreSession).             *)
THEOREM SavedComesBack == SessionSpec => []SavedSessionComesBack
<1>1. SessionInit => KnownIdentities /\ OwnDocument
  BY DEF SessionInit, KnownIdentities, OwnDocument, NoBindings
<1>2. KnownIdentities /\ OwnDocument => SavedSessionComesBack
  BY DEF KnownIdentities, OwnDocument, SavedSessionComesBack, Restorable
<1> QED BY <1>1, <1>2, StepKeepsDocument, SessionInvariant, PTL DEF SessionSpec
=============================================================================
