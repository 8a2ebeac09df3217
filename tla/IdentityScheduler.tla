------------------------- MODULE IdentityScheduler -------------------------
(***************************************************************************)
(* Identity lifecycle: the IdentityStore and the Manager that owns it      *)
(* (identity/core/identity.cc), the soft cap and LRU list of the Scheduler *)
(* on top (hibernate.cc), and the two ways around the scheduler: the       *)
(* manager page's archive edit (manager_page.cc) and Destroy, both of      *)
(* which the hosts send straight to the Manager.  One process holds all of *)
(* it and runs one call at a time.                                         *)
(*                                                                         *)
(* Abstracted: a domain is a model value; the mint never yields one twice  *)
(* (OS entropy, or the fixture table's running index); names, colours,     *)
(* templates, grades and prefs rows; ticks, which only label evictions.    *)
(***************************************************************************)
EXTENDS Places, SequencesExt

CONSTANTS
    Domains,        \* opaque partition domains the mint can yield
    Cap,            \* active_cap_
    KeepEvents,     \* CompactEvictions' keep
    MaxEvictions    \* eviction events held at once (TLC's bound)

ASSUME SchedulerAssumption ==
    /\ Cap \in Nat \ {0}
    /\ KeepEvents \in Nat
    /\ MaxEvictions \in Nat

VARIABLES
    records,        \* IdentityStore: live domain -> record
    residual,       \* domains with bytes outside their own surface
    active_order,   \* Scheduler: least recently activated first
    evictions,      \* Scheduler: the recorded hibernations
    \* observers
    minted,         \* every domain ever created
    purged,         \* domains a caller was told are verified gone
    recent          \* domains by the time of their last activation

vars == <<records, residual, active_order, evictions, minted, purged, recent>>

Kinds == {"cookies", "cache", "prefs", "storage", "session_data"}

FreshSurface(in_memory) ==
    IF in_memory THEN Kinds \ {"session_data"} ELSE Kinds

Live == DOMAIN records

(* What every lifecycle call asks first; kUnknownIdentity and kNotPermitted *)
(* are its failures, and they change nothing.                              *)
Usable(d) == d \in Live /\ records[d].state # "kDestroyed"

ActiveIn(recs) == {d \in DOMAIN recs : recs[d].state = "kActive"}

(* A list has one slot of a domain at most: a push follows a Without.      *)
Without(s, d) ==
    IF d \notin ToSet(s) THEN s
    ELSE LET i == CHOOSE j \in DOMAIN s : s[j] = d
         IN  SubSeq(s, 1, i - 1) \o SubSeq(s, i + 1, Len(s))

----------------------------------------------------------------------------
Init ==
    /\ records = <<>>
    /\ residual = {}
    /\ active_order = <<>>
    /\ evictions = <<>>
    /\ minted = {}
    /\ purged = {}
    /\ recent = <<>>

(* Manager::Create: born active, outside the scheduler's list.             *)
Create(d, in_memory) ==
    /\ d \notin minted
    /\ minted' = minted \cup {d}
    /\ records' = [e \in Live \cup {d} |->
                      IF e = d THEN [in_memory |-> in_memory,
                                     state |-> "kActive",
                                     surface |-> FreshSurface(in_memory)]
                      ELSE records[e]]
    /\ UNCHANGED <<residual, active_order, evictions, purged, recent>>

(* Manager::Hibernate of every identity in `gone'.                         *)
Hibernated(recs, gone) ==
    [d \in DOMAIN recs |->
        IF d \in gone
        THEN [recs[d] EXCEPT !.state = "kHibernated", !.surface = @ \ {"cache"}]
        ELSE recs[d]]

Activated(recs, d) == [recs EXCEPT ![d].state = "kActive"]

(* EvictionEvent, without its tick.                                        *)
Event(d, reason) == [domain |-> d, reason |-> reason]

CapEvents(out) == [i \in DOMAIN out |-> Event(out[i], "cap")]

(* Mutant: the cap compared before the newcomer is counted.                *)
ExcessOverByOne(order) == IF Len(order) > Cap THEN Len(order) - Cap ELSE 0

(* How many leave the front of the list so that one more fits.             *)
Excess(order) == IF Len(order) + 1 > Cap THEN Len(order) + 1 - Cap ELSE 0

(* EvictLru for the front of the list: a slot whose identity is gone, or   *)
(* is not active any more, is dropped without a record.                    *)
Oldest(order) == SubSeq(order, 1, Excess(order))
Rest(order) == SubSeq(order, Excess(order) + 1, Len(order))
Evicted(order) == ToSet(Oldest(order)) \cap ActiveIn(records)
EvictionsOf(order) ==
    CapEvents(Keep(Oldest(order), {i \in 1..Excess(order) : order[i] \in Evicted(order)}))

(* Mutant: the newcomer put at the least recently activated end.           *)
ScheduleFirst(d) ==
    LET order == Without(active_order, d)
    IN  /\ records' = Activated(Hibernated(records, Evicted(order)), d)
        /\ active_order' = <<d>> \o Rest(order)
        /\ evictions' = evictions \o EvictionsOf(order)
        /\ recent' = Without(recent, d) \o <<d>>
        /\ UNCHANGED <<residual, minted, purged>>

(* Scheduler::Activate once the identity is usable: the newcomer leaves    *)
(* the list, the front makes room, the newcomer joins at the back.         *)
Schedule(d) ==
    LET order == Without(active_order, d)
    IN  /\ records' = Activated(Hibernated(records, Evicted(order)), d)
        /\ active_order' = Rest(order) \o <<d>>
        /\ evictions' = evictions \o EvictionsOf(order)
        /\ recent' = Without(recent, d) \o <<d>>
        /\ UNCHANGED <<residual, minted, purged>>

RoomInLog == Len(evictions) < MaxEvictions

Activate(d) == RoomInLog /\ Usable(d) /\ Schedule(d)

(* Mutant: a purged identity is woken from the eviction history.           *)
WakeFromHistory(d) ==
    /\ RoomInLog
    /\ \/ Usable(d) /\ records[d].state # "kActive" /\ Schedule(d)
       \/ /\ d \notin Live
          /\ \E i \in DOMAIN evictions : evictions[i].domain = d
          /\ records' = [e \in Live \cup {d} |->
                            IF e = d THEN [in_memory |-> FALSE,
                                           state |-> "kActive",
                                           surface |-> FreshSurface(FALSE)]
                            ELSE records[e]]
          /\ UNCHANGED <<residual, active_order, evictions, minted, purged,
                         recent>>

(* Scheduler::Wake: an active identity is awake already, nothing changes.  *)
Wake(d) ==
    /\ RoomInLog
    /\ Usable(d)
    /\ records[d].state # "kActive"
    /\ Schedule(d)

(* Scheduler::Hibernate, which repeats the record for a sleeping identity. *)
Hibernate(d) ==
    /\ RoomInLog
    /\ Usable(d)
    /\ records' = Hibernated(records, {d})
    /\ active_order' = Without(active_order, d)
    /\ evictions' = Append(evictions, Event(d, "user"))
    /\ UNCHANGED <<residual, minted, purged, recent>>

(* ApplyPageEdit kArchive: the Manager's hibernate, past the scheduler.    *)
Archive(d) ==
    /\ Usable(d)
    /\ records' = Hibernated(records, {d})
    /\ UNCHANGED <<residual, active_order, evictions, minted, purged, recent>>

(* Manager::Destroy: purge, erase, then look for bytes left anywhere.  A   *)
(* failed verification is reported; the record is gone either way, and the *)
(* scheduler is not told.                                                  *)
Destroy(d) ==
    /\ d \in Live
    /\ records' = [e \in Live \ {d} |-> records[e]]
    /\ purged' = IF d \in residual THEN purged ELSE purged \cup {d}
    /\ UNCHANGED <<residual, active_order, evictions, minted, recent>>

(* PlantResidual: bytes of an identity somewhere a purge does not look.    *)
PlantResidual(d) ==
    /\ d \in minted
    /\ residual' = residual \cup {d}
    /\ UNCHANGED <<records, active_order, evictions, minted, purged, recent>>

CompactEvictions ==
    /\ Len(evictions) > KeepEvents
    /\ evictions' = SubSeq(evictions, Len(evictions) - KeepEvents + 1, Len(evictions))
    /\ UNCHANGED <<records, residual, active_order, minted, purged, recent>>

Next ==
    \/ \E d \in Domains :
          \/ \E in_memory \in BOOLEAN : Create(d, in_memory)
          \/ Activate(d)
          \/ Wake(d)
          \/ Hibernate(d)
          \/ Archive(d)
          \/ Destroy(d)
          \/ PlantResidual(d)
    \/ CompactEvictions

Spec == Init /\ [][Next]_vars

----------------------------------------------------------------------------
(* Properties.                                                             *)

(* The soft cap: of the identities that were ever activated (an identity is *)
(* born active without being activated), at most Cap are active at once,    *)
(* however activations, wakes, archives and destructions alternate.         *)
CapHolds == Cardinality(ActiveIn(records) \cap ToSet(recent)) <= Cap

Position(s, d) == CHOOSE i \in DOMAIN s : s[i] = d

NewEvents ==
    {evictions'[i] : i \in {j \in DOMAIN evictions' : j > Len(evictions)}}

(* The cap evicts the least recently activated first: whoever stays active  *)
(* was activated later than whoever the cap sent to sleep.                  *)
LeastRecentGoesFirst ==
    [][\A ev \in NewEvents : ev.reason = "cap" =>
          \A d \in ActiveIn(records') \cap ToSet(recent') :
              Position(recent', ev.domain) < Position(recent', d)]_vars

(* Nothing brings back an identity whose destruction was verified: not a    *)
(* wake, not the slot or the eviction events it leaves behind.              *)
PurgedStaysPurged == purged \cap Live = {}

=============================================================================
