-------------------------- MODULE PermissionsHost --------------------------
(***************************************************************************)
(* The permissions host (permissions/host/permissions_host.cc) in          *)
(* --store-dir mode: one process per request.  A process reads the store   *)
(* and the clock file, folds the observed time into the persisted          *)
(* high-water mark, applies the core operation to the copy it read, writes *)
(* the store (tmp, fsync, rename) if its bytes changed, writes the clock   *)
(* file if time advanced, and only then prints the audit rows.  It can be  *)
(* killed between any two of these steps and either write can fail.  The   *)
(* host takes no lock, so processes interleave at these steps.             *)
(*                                                                         *)
(* Abstracted: AtomicWrite is one step, its rename (a kill before it       *)
(* leaves the old file; the half-written .tmp is truncated by the next     *)
(* writer); request parsing and argument checks, which touch no state; the *)
(* disposable mode, which writes nothing.                                  *)
(***************************************************************************)
EXTENDS PermissionOps

CONSTANTS
    Procs,          \* host processes that may be alive at once
    SettableStates, \* the default states callers ask for
    MaxFailures     \* kills and failed writes explored (TLC's bound)

ASSUME HostAssumption ==
    /\ SettableStates \subseteq CapStates
    /\ MaxFailures \in Nat

VARIABLES
    store,          \* permissions-store.json, as LoadStore reads it
    last_seen,      \* permissions-clock.json: last_seen_ms
    clock_ok,       \* FALSE: the clock file is not canonical
    pc,             \* where each process stands
    job,            \* what each process has in memory
    \* observers: what the caller has been told
    ledger,         \* the audit rows received, folded (see Receive)
    rows_lost,      \* rows of a landed change died with a process
    damaged,        \* the store file was damaged from outside
    failures        \* kills and failed writes so far

files == <<store, last_seen, clock_ok>>
observers == <<ledger, rows_lost, damaged, failures>>
vars == <<store, last_seen, clock_ok, pc, job, ledger, rows_lost, damaged,
          failures>>

Steps == {"idle", "write_store", "write_clock", "emit"}

Job == [store: Store, rows: SUBSET AuditRow, now: Times, seen: Times,
        swept: BOOLEAN]

NoJob == [store |-> EmptyStore, rows |-> {}, now |-> 0, seen |-> 0,
          swept |-> FALSE]

(* The caller's audit ledger, folded to what it says now: which grants     *)
(* were reported granted and ended, the identities and capabilities whose  *)
(* last default row is a grant, the identities whose last deny-list row is *)
(* a revoke, and the latest time a sweep was reported for.                 *)
Ledger == [granted: SUBSET Nat, ended: SUBSET Nat,
           allowed: SUBSET (Identities \X Capabilities),
           denied: SUBSET Identities, swept: Times]

EmptyLedger == [granted |-> {}, ended |-> {}, allowed |-> {}, denied |-> {},
                swept |-> 0]

RowsOf(rows, events, scopes) ==
    {r \in rows : r.event \in events /\ r.scope \in scopes}

About(rows, events) == {r.about : r \in RowsOf(rows, events, Scopes)}

DefaultRows(rows, events) ==
    {<<r.identity, r.capability>> :
        r \in RowsOf(rows, events, {"identity_default"})}

DenyRows(rows, events) ==
    {r.identity : r \in RowsOf(rows, events, {"identity_deny_list"})}

(* One reply, filed: a process prints its rows only once, all together.    *)
Receive(l, j) ==
    [granted |-> l.granted \cup About(j.rows, {"grant"}),
     ended |-> l.ended \cup About(j.rows, {"revoke", "expiry"}),
     allowed |-> (l.allowed \ DefaultRows(j.rows, {"revoke"}))
                     \cup DefaultRows(j.rows, {"grant"}),
     denied |-> (l.denied \ DenyRows(j.rows, {"grant"}))
                    \cup DenyRows(j.rows, {"revoke"}),
     swept |-> IF j.swept /\ j.now > l.swept THEN j.now ELSE l.swept]

----------------------------------------------------------------------------
Init ==
    /\ store = EmptyStore
    /\ last_seen = 0
    /\ clock_ok = TRUE
    /\ pc = [p \in Procs |-> "idle"]
    /\ job = [p \in Procs |-> NoJob]
    /\ ledger = EmptyLedger
    /\ rows_lost = FALSE
    /\ damaged = FALSE
    /\ failures = 0

(* Run, up to the first write: read both files, refuse a corrupt clock,    *)
(* apply the operation, refuse what the core refuses (a refusal prints a   *)
(* typed error and changes nothing).  The store is written only if its     *)
(* bytes changed, the clock file only if time advanced.                    *)
AfterStore(now, seen) == IF now > seen THEN "write_clock" ELSE "emit"

Apply(p, o, now, swept) ==
    /\ o.ok
    /\ pc' = [pc EXCEPT ![p] = IF o.store # store THEN "write_store"
                               ELSE AfterStore(now, last_seen)]
    /\ job' = [job EXCEPT ![p] = [store |-> o.store, rows |-> o.rows,
                                  now |-> now, seen |-> last_seen,
                                  swept |-> swept]]
    /\ UNCHANGED <<files, observers>>

Begin(p) == pc[p] = "idle" /\ clock_ok

ReqSetDefault(p) ==
    /\ Begin(p)
    /\ \E i \in Identities, c \in Capabilities, s \in SettableStates, t \in Times :
          Apply(p, SetDefault(store, i, c, s), EffectiveNow(last_seen, t), FALSE)

ReqGrant(p) ==
    /\ Begin(p)
    /\ store.next_seq \in GrantIds
    /\ \E i \in Identities, d \in Domains, c \in Capabilities, s \in Scopes,
          ses \in Sessions \cup {NoSession}, t \in Times :
          LET now == EffectiveNow(last_seen, t)
          IN  Apply(p, GrantTemp(store, i, d, c, s, ses, now), now, FALSE)

ReqSetDenied(p) ==
    /\ Begin(p)
    /\ \E i \in Identities, b \in BOOLEAN, t \in Times :
          Apply(p, SetDenied(store, i, b), EffectiveNow(last_seen, t), FALSE)

ReqConsumeOnce(p) ==
    /\ Begin(p)
    /\ \E id \in GrantIds, t \in Times :
          Apply(p, ConsumeOnce(store, id), EffectiveNow(last_seen, t), FALSE)

ReqSweep(p) ==
    /\ Begin(p)
    /\ \E ses \in Sessions \cup {NoSession}, t \in Times :
          LET now == EffectiveNow(last_seen, t)
          IN  Apply(p, SweepExpired(store, now, ses), now, TRUE)

ReqRevokeSite(p) ==
    /\ Begin(p)
    /\ \E i \in Identities, d \in Domains, t \in Times :
          Apply(p, RevokeSite(store, i, d), EffectiveNow(last_seen, t), FALSE)

ReqRevokeAll(p) ==
    /\ Begin(p)
    /\ \E i \in Identities, t \in Times :
          Apply(p, RevokeAll(store, i), EffectiveNow(last_seen, t), FALSE)

(* AtomicWrite of the store.                                               *)
WriteStore(p) ==
    /\ pc[p] = "write_store"
    /\ store' = job[p].store
    /\ pc' = [pc EXCEPT ![p] = AfterStore(job[p].now, job[p].seen)]
    /\ UNCHANGED <<last_seen, clock_ok, job, observers>>

(* AtomicWrite of the clock file.                                          *)
WriteClock(p) ==
    /\ pc[p] = "write_clock"
    /\ last_seen' = job[p].now
    /\ clock_ok' = TRUE
    /\ pc' = [pc EXCEPT ![p] = "emit"]
    /\ UNCHANGED <<store, job, observers>>

Emit(p) ==
    /\ pc[p] = "emit"
    /\ ledger' = Receive(ledger, job[p])
    /\ pc' = [pc EXCEPT ![p] = "idle"]
    /\ job' = [job EXCEPT ![p] = NoJob]
    /\ UNCHANGED <<files, rows_lost, damaged, failures>>

(* The process ends before its reply: the rows of a change that is already *)
(* on disk are never printed.                                              *)
Die(p) ==
    /\ failures < MaxFailures
    /\ failures' = failures + 1
    /\ rows_lost' = (rows_lost \/ (/\ pc[p] \in {"write_clock", "emit"}
                                   /\ job[p].rows # {}))
    /\ pc' = [pc EXCEPT ![p] = "idle"]
    /\ job' = [job EXCEPT ![p] = NoJob]
    /\ UNCHANGED <<files, ledger, damaged>>

(* kIoError "atomic store write failed".                                   *)
StoreWriteFails(p) == pc[p] = "write_store" /\ Die(p)

(* kIoError "atomic clock write failed": the store write has landed.       *)
ClockWriteFails(p) == pc[p] = "write_clock" /\ Die(p)

(* Mutant: the store written in place, so a kill can leave a torn file.     *)
KillTearsStore(p) ==
    /\ pc[p] = "write_store"
    /\ store' \in {store, CorruptStore}
    /\ pc' = [pc EXCEPT ![p] = "idle"]
    /\ job' = [job EXCEPT ![p] = NoJob]
    /\ UNCHANGED <<last_seen, clock_ok, observers>>

Kill(p) == pc[p] # "idle" /\ Die(p)

(* A file is damaged while no request is running.                          *)
DamageStore ==
    /\ \A p \in Procs : pc[p] = "idle"
    /\ store' = CorruptStore
    /\ damaged' = TRUE
    /\ UNCHANGED <<last_seen, clock_ok, pc, job, ledger, rows_lost, failures>>

DamageClock ==
    /\ \A p \in Procs : pc[p] = "idle"
    /\ clock_ok' = FALSE
    /\ UNCHANGED <<store, last_seen, pc, job, observers>>

Request(p) ==
    \/ ReqSetDefault(p)
    \/ ReqGrant(p)
    \/ ReqSetDenied(p)
    \/ ReqConsumeOnce(p)
    \/ ReqSweep(p)
    \/ ReqRevokeSite(p)
    \/ ReqRevokeAll(p)

Progress(p) == WriteStore(p) \/ WriteClock(p) \/ Emit(p)
Failure(p) == StoreWriteFails(p) \/ ClockWriteFails(p) \/ Kill(p)

Next ==
    \/ \E p \in Procs : Request(p) \/ Progress(p) \/ Failure(p)
    \/ DamageStore
    \/ DamageClock

Spec == Init /\ [][Next]_vars

----------------------------------------------------------------------------
(* Properties.                                                             *)

TypeOK ==
    /\ store \in Store
    /\ last_seen \in Times
    /\ clock_ok \in BOOLEAN
    /\ pc \in [Procs -> Steps]
    /\ job \in [Procs -> Job]
    /\ ledger \in Ledger
    /\ rows_lost \in BOOLEAN
    /\ damaged \in BOOLEAN
    /\ failures \in 0 .. MaxFailures

(* A grant the caller was told is over (revoked, spent or expired: a row    *)
(* of RevokeSite, RevokeAll, ConsumeOnce or SweepExpired) is never live in  *)
(* the store again: not after a kill, a failed write, a rolled-back clock,  *)
(* or by its id being handed out a second time (GrantTemp's id loop).       *)
ReportedEndedStaysEnded == \A g \in Live(store) : g.id \notin ledger.ended

(* Once a sweep was reported for time t, no live 7d grant ends at or before *)
(* t, whatever the wall clock reads later: EffectiveNow folds every later   *)
(* reading into the mark the sweep left in the clock file.                  *)
ReportedSweepIsFinal ==
    \A g \in Live(store) : g.scope = "7d" => g.expires_at > ledger.swept

(* No process has a landed change it has not reported yet.                  *)
Reported == \A p \in Procs : pc[p] \in {"idle", "write_store"}

LiveIds(s) == {g.id : g \in Live(s)}

AllowedIn(s) == {a \in Identities \X Capabilities :
                    s.defaults[a[1]][a[2]] = "kAllow"}

(* Ledger l accounts exactly for what store s grants, defaults and denies.  *)
LedgerMatches(l, s) ==
    /\ LiveIds(s) = l.granted \ l.ended
    /\ AllowedIn(s) = l.allowed
    /\ s.denied = l.denied

(* Ledger completeness through the process boundary: unless a process died  *)
(* between its store write and its reply, the rows received account exactly *)
(* for the store.                                                           *)
LedgerExplainsStore ==
    (Reported /\ ~rows_lost /\ ~store.corrupt) => LedgerMatches(ledger, store)

Decision(i, d, c, ses, t) ==
    OverlayDecision(ProjectView(store), i, d, c, ses, t, "kAsk")

(* Whenever a write changes the resolver's answer for an identity and a     *)
(* capability, on any site, session and time, the rows of that write name   *)
(* that identity and capability; no operation reaches another identity.     *)
(* Only damage to the file changes an answer unannounced.                   *)
AnswerChanges(i, c) ==
    \E d \in Domains, ses \in Sessions \cup {NoSession}, t \in Times :
        Decision(i, d, c, ses, t)' # Decision(i, d, c, ses, t)

NamedInRows(i, c) ==
    \E p \in Procs : /\ pc[p] = "write_store"
                     /\ \E r \in job[p].rows :
                          r.identity = i /\ r.capability = c

ChangedAnswersAreNamed ==
    [][store' # store /\ ~store'.corrupt =>
          \A i \in Identities, c \in Capabilities :
              AnswerChanges(i, c) => NamedInRows(i, c)]_store

(* A corrupt store is never repaired: every operation refuses it.           *)
CorruptStaysCorrupt == [][store.corrupt => store'.corrupt]_store

(* The host implements the abstract store: whole generations only, each one *)
(* operation after the one on disk, at a time the clock file has not passed.*)
Overlay == INSTANCE PermissionOverlay
               WITH store <- store, last_seen <- last_seen, damaged <- damaged
ImplementsOverlay == Overlay!OverlaySpec

=============================================================================
