-------------------------- MODULE IdentitySession --------------------------
(***************************************************************************)
(* Tabs, identities and the session document: the BindingModel and its     *)
(* audit trail (identity/core/binding.cc), Snapshot and RestoreSession     *)
(* (session.cc), and a quit or crash between the two.  The session         *)
(* document is the only thing that outlives the process with the durable   *)
(* identities; restoring it re-binds its tabs with RestoreTab.             *)
(*                                                                         *)
(* Abstracted: the identity store is the set of live domains and which of  *)
(* them are in-memory; window names; the group_peers and after_nav         *)
(* arguments of a move, which only refuse it; suggestions, which           *)
(* ChangeTabIdentity refuses as a cause; the wire form, which round-trips. *)
(* A window's default and an explicit opener are both just the domain a    *)
(* tab is opened with: neither is checked against the store.               *)
(***************************************************************************)
EXTENDS Places, SequencesExt, Functions

CONSTANTS
    Partitions,     \* opaque partition domains
    Tabs,           \* tab ids
    MaxChanges      \* audit rows held at once (TLC's bound)

ASSUME SessionAssumption ==
    /\ Tabs \subseteq Nat
    /\ MaxChanges \in Nat

VARIABLES
    born,           \* every domain ever created -> is it in-memory
    live,           \* the IdentityStore's domains
    tab_identity,   \* BindingModel: tab -> domain
    changes,        \* BindingModel: the audit trail
    session,        \* the session document on disk: tab -> domain
    tampered,       \* the document was changed from outside
    saved_bindings  \* observer: tab_identity when the document was written

sessionVars == <<born, live, tab_identity, changes, session, tampered, saved_bindings>>

NoDomain == "none"
(* Functions from finitely many tabs to domains: bindings and documents.   *)
Bindings == UNION {[T -> Partitions] : T \in {S \in SUBSET Tabs : IsFiniteSet(S)}}
NoBindings == <<>>

InMemory(d) == born[d]
Durable(d) == d \in live /\ ~InMemory(d)

(* The last row of each tab, of the rows at some places: a function from   *)
(* the tabs that these rows name.                                          *)
LatestOf(rows, at) ==
    [t \in {rows[i].tab_id : i \in at} |-> Max({i \in at : rows[i].tab_id = t})]

LatestRow(rows) == LatestOf(rows, DOMAIN rows)

(* Mutant: the rows folded keeping the first of each tab.                  *)
SnapshotOfFirst(rows) ==
    LET kept == {i \in DOMAIN rows : rows[i].to \in live}
        first == [t \in {rows[i].tab_id : i \in kept} |->
                     Min({i \in kept : rows[i].tab_id = t})]
    IN  [t \in {u \in DOMAIN first : Durable(rows[first[u]].to)} |-> rows[first[t]].to]

(* Mutant: tabs of in-memory identities are written too.                   *)
SnapshotKeepsInMemory(rows) ==
    LET latest == LatestOf(rows, {i \in DOMAIN rows : rows[i].to \in live})
    IN  [t \in DOMAIN latest |-> rows[latest[t]].to]

(* Snapshot: rows naming an identity that is gone are skipped, the last    *)
(* row left of each tab counts, and tabs of in-memory identities are       *)
(* dropped.                                                                *)
Snapshot(rows) ==
    LET latest == LatestOf(rows, {i \in DOMAIN rows : rows[i].to \in live})
    IN  [t \in {u \in DOMAIN latest : Durable(rows[latest[u]].to)} |-> rows[latest[t]].to]

----------------------------------------------------------------------------
SessionInit ==
    /\ born = <<>>
    /\ live = {}
    /\ tab_identity = NoBindings
    /\ changes = <<>>
    /\ session = NoBindings
    /\ tampered = FALSE
    /\ saved_bindings = NoBindings

CreateIdentity(d, in_memory) ==
    /\ d \notin DOMAIN born
    /\ born' = [e \in DOMAIN born \cup {d} |->
                   IF e = d THEN in_memory ELSE born[e]]
    /\ live' = live \cup {d}
    /\ UNCHANGED <<tab_identity, changes, session, tampered, saved_bindings>>

DestroyIdentity(d) ==
    /\ d \in live
    /\ live' = live \ {d}
    /\ UNCHANGED <<born, tab_identity, changes, session, tampered, saved_bindings>>

CurrentOf(bindings, tab_id) ==
    IF tab_id \in DOMAIN bindings THEN bindings[tab_id] ELSE NoDomain

(* ChangeTabIdentity: the one place a binding changes, with its audit row. *)
ChangeTabIdentity(tab_id, to, cause) ==
    /\ Len(changes) < MaxChanges
    /\ tab_identity' = [t \in DOMAIN tab_identity \cup {tab_id} |->
                           IF t = tab_id THEN to ELSE tab_identity[t]]
    /\ changes' = Append(changes, [tab_id |-> tab_id,
                                   from |-> CurrentOf(tab_identity, tab_id),
                                   to |-> to, cause |-> cause])
    /\ UNCHANGED <<born, live, session, tampered, saved_bindings>>

OpenTab(tab_id, domain) ==
    /\ domain \in DOMAIN born
    /\ ChangeTabIdentity(tab_id, domain, "kWindowDefault")

MoveTab(tab_id, to) ==
    /\ tab_id \in DOMAIN tab_identity
    /\ to \in DOMAIN born
    /\ ChangeTabIdentity(tab_id, to, "kUserConfirmedMove")

(* Mutant: the compaction keeps the first row of each tab.                 *)
CompactToFirst ==
    /\ changes' = SelectSeq(changes, LAMBDA ch :
                     ch = changes[SelectInSeq(changes,
                                    LAMBDA c : c.tab_id = ch.tab_id)])
    /\ changes' # changes
    /\ UNCHANGED <<born, live, tab_identity, session, tampered, saved_bindings>>

(* CompactAudit: the last row of each tab, in ascending tab order.         *)
CompactAudit ==
    /\ changes' = Ascending([t \in DOMAIN LatestRow(changes) |-> changes[LatestRow(changes)[t]]])
    /\ changes' # changes
    /\ UNCHANGED <<born, live, tab_identity, session, tampered, saved_bindings>>

(* A quit, or the periodic save a crash falls back on.                     *)
Save ==
    /\ session' = Snapshot(changes)
    /\ tampered' = FALSE
    /\ saved_bindings' = tab_identity
    /\ UNCHANGED <<born, live, tab_identity, changes>>

(* The process ends.  The bindings, the audit and the in-memory identities *)
(* go with it; the durable partitions and the document stay.               *)
Crash ==
    /\ tab_identity # NoBindings
    /\ tab_identity' = NoBindings
    /\ changes' = <<>>
    /\ live' = {d \in live : ~InMemory(d)}
    /\ UNCHANGED <<born, session, tampered, saved_bindings>>

(* A document that is not the one this program wrote.                      *)
Tamper(doc) ==
    /\ doc # session
    /\ session' = doc
    /\ tampered' = TRUE
    /\ UNCHANGED <<born, live, tab_identity, changes, saved_bindings>>

(* RestoreSession accepts the document: one bad tab refuses all of it.     *)
Restorable(doc) ==
    \A t \in DOMAIN doc : doc[t] \in live /\ ~InMemory(doc[t])

(* RestoreSession in a process that has no tabs yet, then RestoreTab for   *)
(* each tab of the validated document, ascending.                          *)
Restore ==
    /\ tab_identity = NoBindings
    /\ session # NoBindings
    /\ Restorable(session)
    /\ changes' = Ascending([t \in DOMAIN session |->
                      [tab_id |-> t, from |-> NoDomain, to |-> session[t], cause |-> "kRestore"]])
    /\ tab_identity' = session
    /\ UNCHANGED <<born, live, session, tampered, saved_bindings>>

SessionNext ==
    \/ \E d \in Partitions :
          \/ \E in_memory \in BOOLEAN : CreateIdentity(d, in_memory)
          \/ DestroyIdentity(d)
          \/ \E t \in Tabs : OpenTab(t, d) \/ MoveTab(t, d)
    \/ CompactAudit
    \/ Save
    \/ Crash
    \/ \E doc \in Bindings : Range(doc) \subseteq DOMAIN born /\ Tamper(doc)
    \/ Restore

SessionSpec == SessionInit /\ [][SessionNext]_sessionVars

----------------------------------------------------------------------------
(* Properties.                                                             *)

(* The audit trail explains the bindings, compacted or not: a tab's last    *)
(* row is its binding, and each row starts where the tab's row before it    *)
(* ended.                                                                   *)
AuditExplainsBindings ==
    /\ DOMAIN LatestRow(changes) = DOMAIN tab_identity
    /\ \A t \in DOMAIN tab_identity :
          changes[LatestRow(changes)[t]].to = tab_identity[t]
    /\ \A i, j \in DOMAIN changes :
          /\ i < j
          /\ changes[i].tab_id = changes[j].tab_id
          /\ \A k \in (i + 1) .. (j - 1) : changes[k].tab_id # changes[i].tab_id
          => changes[j].from = changes[i].to

(* At every moment, what a save would write is exact for the tabs whose     *)
(* identity is alive: a durable one's tab with its identity, an in-memory   *)
(* one's tab not at all.                                                    *)
SnapshotIsExact ==
    \A t \in DOMAIN tab_identity :
        tab_identity[t] \in live =>
            CurrentOf(Snapshot(changes), t) =
                IF InMemory(tab_identity[t]) THEN NoDomain ELSE tab_identity[t]

RestoreStep ==
    /\ tab_identity = NoBindings
    /\ changes' # <<>>
    /\ changes'[1].cause = "kRestore"

(* What was saved comes back, until a document of somebody else replaces    *)
(* it: each tab of an identity that was durable then and still lives is in  *)
(* the document with that identity, and a restore refuses the document only *)
(* if an identity that it names was destroyed since.  A tab of an in-memory *)
(* identity, which would have the whole document refused, is never in it,   *)
(* however tabs were moved and the audit compacted before the save          *)
(* (session.cc: Snapshot, RestoreSession).                                  *)
SavedSessionComesBack ==
    ~tampered =>
        /\ \A t \in DOMAIN saved_bindings : Durable(saved_bindings[t]) =>
              CurrentOf(session, t) = saved_bindings[t]
        /\ Restorable(session) \/ \E t \in DOMAIN session : session[t] \notin live

(* A restored tab gets the identity it had when the document was written.   *)
(* Snapshot skips the rows of a purged identity before it takes the last    *)
(* one, so a tab moved to an identity that was then destroyed comes back    *)
(* bound to the one it had left: this does not hold.                        *)
RestoreNeverBleeds ==
    [][RestoreStep /\ ~tampered =>
          \A t \in DOMAIN tab_identity' :
              tab_identity'[t] = CurrentOf(saved_bindings, t)]_sessionVars

=============================================================================
