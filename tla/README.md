# A verification development for xr-core

xr-core is the overlay of the XR browser: C++20 cores with no clock and no I/O of
their own (`<part>/core/`), small host programs that read a request on stdin and
print a reply (`<part>/host/`), a TypeScript UI and Chromium patches. The cores
and hosts decide who may do what: permissions, identities, updates, policy, what is
blocked, which command runs. That is what these modules are about.

## 1. Inventory

| Component | State | Operations | Interacts with | What is hard | What makes it correct |
|---|---|---|---|---|---|
| Permission overlay (`permissions/core`) | the store: sequence number, per identity a deny flag, capability defaults and grants; a corrupt marker | set-default, grant, set-denied, consume-once, sweep, revoke-site, revoke-all; load, serialize, project | the host gives it a time and a copy of the store; the projection feeds the resolver | ids, tombstones, expiry at a boundary, corruption | ended grants stay ended; rows account for every change |
| Permissions host (`permissions/host`) | two files: store, clock high-water mark | one process per request: read, apply, write store, write clock, reply | the caller, the file system | kill or failed write between steps, clock rollback, two processes | whole generations only; the caller's ledger matches the store |
| Identity lifecycle and scheduler (`identity/core/identity`, `hibernate`) | records, residual bytes, LRU list, eviction log | create, activate, wake, hibernate, archive, destroy, compact | page edits and destroy go around the scheduler | list and records drift apart | cap, LRU, no resurrection |
| Bindings and session (`binding`, `session`) | tab bindings, audit rows, the session document | open, move, compact, snapshot, restore | reads the identity store; the document outlives the process | crash, destroyed identities, tampered document | a tab comes back as what it was or not at all |
| Identity views (`mint`, `templates`, `attribution`, `ledger_tag`, `manager_page`, `identity/host`) | none that outlives a request | mint, provision, memory table, history overlay, frozen calls, manager page, reset | one process and one seeded store per request | remainders, malformed owners, repeated purges | each identity is told what is its own and no more |
| Update client (`update`) | seen file, epoch state, About state | verify, epoch-apply, about-step | caller keeps epoch and version; server answers | kill around the recording, replay, revocation during a check | no replay, no downgrade, final kill switch |
| Policy cache (`policy/core/cache`) | map, eviction order, generations | get, put, invalidate, pin | threads, the owner of the layers | fill in flight while invalidated | no stale hit, FIFO, bounded |
| Policy service and snapshots (`service`, `snapshot`) | cache, accumulated state, sequence, last snapshot | resolve, full, diff; decode, apply | consumers over a transport | two locks, keys joined to strings, refused blobs, lost and reordered diffs | a consumer enforces only emitted states |
| Policy resolver, store, enterprise (`resolve`, `resolve_io`, `store`, `policy/enterprise`) | three store files, the managed envelope | load, validate, migrate, merge under a request, parse, resolve, encode, diff | overlay, service | precedence, ill-typed members, order of entries | what denies is final, the managed policy holds, the newest entry decides in any order |
| Shield (`shield`) | active bundle, last good one, pins; scopes; event ring, all of them held by the caller | apply, add, remove, sweep, toggle, emit; match, status, events, debug page | the caller carries every document between requests | downgrade through another bundle id, narrowing to int, expiry unswept | the host accepts what it emitted; slots follow history; the chip tells what becomes of a request |
| Commands (`commands`) | registry file, shortcut file, trust file | register, bind, clear, invoke, list, search | writes entries the policy resolver reads | buffered write against fsync and rename, truncation in place | no lock-out without a cause, promises kept, a dial takes effect |
| Settings (`settings`) | the daily ledger | resolve a link, search, get, set | hosts that run at once | one temporary name for all, retention | the ledger never counts what did not happen, and keeps what it has |
| Themes, cosmetic, permission presentation, common, ui, mojom | none that outlives a call | parse, encode, render | | | not modelled, see section 5 |

`PROJECT.json` lists every component with its status, and every hazard at the line
where it bites.

## 2. Modules and how they correspond to the code

### Permissions

**PermissionOps**: `permissions/core` as functions from a store, arguments and a
time to an `OpOutcome`, one operator per C++ function, with the projection and the
overlay stage of `policy/core/resolve.cc`. The id `g<n>` is the number `n`.
Audit rows carry the id of the grant they were written for (`about`), which the
code knows in the loop iteration that writes the row and does not print.

**PermissionsHost**: `permissions_host.cc`. `Req*` is everything `Run` does before
its first write (both reads, `EffectiveNow`, the core operation, the refusals);
`WriteStore`, `WriteClock` and `Emit` are the three effects in their order, the
first two skipped when nothing changed. `StoreWriteFails`, `ClockWriteFails` and
`Kill` end a process between them. `DamageStore` and `DamageClock` are outside
interference. `ledger`, `rows_lost`, `damaged` and `failures` are observers: what the
caller has been told, and what happened to it.

**PermissionOverlay**: the abstract store. The file moves from one whole generation
to the next by one operation applied to what is there, at a time no earlier than
the recorded one. `PermissionsHost` is shown to implement it
(`ImplementsOverlay`, an `INSTANCE` with the store file and the clock file
substituted for the abstract variables).

### Identity

**IdentityScheduler**: `identity.cc`, `hibernate.cc` and the archive edit of
`manager_page.cc`. A destroyed identity's record is absent, as in the store.
`active_order` is the scheduler's list, with the slots that calls around it leave.
`Schedule` is the whole of the scheduler's activation: the slot of the newcomer is
taken out, the oldest slots are popped until it fits, each evicted record is put to
sleep and logged, the newcomer is appended.

**IdentitySession**: `binding.cc` and `session.cc` with a crash (or quit) that
keeps the durable identities and the document. `Restore` is `RestoreSession`
followed by `RestoreTab` per tab.

**IdentityViews**: the single requests of `identity_host.cc`, each in a process and
on a seeded store of its own, so operators and no state machine: the mint
(`FormatUuid`, the shape of a domain and when a name is part of one), the seven
templates, what `Ceremony` announces and `Provision` makes of them, `Attribute` with its remainders,
`FilterOmnibox` and `HistoryOracle`, `FrozenCall`, `ManagerPage` with its edits and
purges, `ResetAll`. SHA-256 is the choice of a digest. `MCIdentitySession`
takes it as an instance and states its laws.

### Updates

**UpdateClient**: `verify_policy.cc`, `epoch.cc`, `seen.cc` and the About machine
of `update_host.cc`. `Verify` loads what a process works with (epoch and seen
ids), `Deny` or `Record` is the decision, `Accept` the reply; `Fail` is a kill or a
failed write. The caller, outside the repository, is modelled as the protocol
implies it: it keeps the returned epoch and tells the About machine.

### Policy

**PolicyCacheOps / PolicyCache**: the methods of `cache.cc` as functions of the
cache object; then readers that miss, resolve without the lock and put, against
an owner that changes layers and invalidates.

**PolicyService**: extends `PolicyCacheOps`. `ResolveJson` writes the cache,
`Accumulate` the state: two locks, two steps. `SnapshotFull` and `SnapshotDiff`
encode, spend a sequence number and may be refused; blobs go to a set, from which
the consumer takes any, any number of times, or never. A hash is the state it is the
hash of, so equal hashes mean equal states. The state is kept by slots: `StateKeyOf` joins
the names of a key to a string, here a sequence of letters, and two keys may share one.
A resolve overwrites what is in its slot; the snapshots hold every entry under its own key.

**PolicyResolve**: `resolve.cc` from a parsed request to an effective policy (tier
ladder, identity attributes, enterprise forces, permission overlay) and the delta of
two policies (`effective_policy.cc`, `policy/core/events.cc`). **PolicyStore**: what comes
before: the three store files with validation and migration (`store.cc`), the managed
envelope (`managed_source.cc`), the layers put under a request (`service.cc`), and
the parser (`resolve_io.cc`), which drops what does not fit in some layers and
refuses the whole in others. An object is a function from its members to values,
a member of the wrong type is the value `Wrong`. **PolicyLaws** extends both
and the service, so that one run asks about the layers and about their distribution.

### Shield

**ShieldOps**: posture, exception scopes, the decision pipeline, activation in two
slots, the strict parser of the apply state and its invariants, the event ring.
`Narrow` is `static_cast<int>`. **ShieldFilters**: the reference matcher (filter text
to parsed filter, greedy segments, list bundles with their manifest, the table engine).
**ShieldHost**: every request that reads or returns one of the three documents. The
host keeps nothing, so the state is the caller's: it replaces what it holds by what an
accepted reply returns. `installed`, `swept` and `fresh` are history for the properties.

### Commands

**CommandOps**: descriptors and the registry, availability, the dispatcher's gates,
the shortcut store and the trust file. **CommandMatcher**: the scores and the order of
the palette. **CommandsHost**: one process per request over the three files. A file is
what the next process reads (`disk`) and what a power loss may leave of it
(`maybe`): `fsync` runs on the descriptor before the stdio buffer is flushed, so a
rename may become durable before the bytes do; the registry is truncated and written
in place. `DialTakesEffect` composes the trust file with the tier ladder of
`PolicyResolve`.

### Settings

**SettingsOps**: the schema's strict load, values, sections, links, search.
**SettingsHost**: processes that load the ledger, count, and write it through one
temporary file whose name they share; an open file keeps its descriptor when its name
is renamed or removed, so that one process can write into what another has published.

### Shared

**Places**: the list that is left when some places of a list are taken out, which is how
`std::remove_if`, `erase` and the loops that skip come out, and the walk of an ordered
map from its first key. `CommandOps`, `IdentityScheduler`, `IdentitySession` and
`ShieldOps` use it.

The `MC*` modules give the constants their small values, a symmetry set where it is
sound, and hold the laws over single requests. The operators marked "mutant" in
a module are broken variants that the checks of section 3 put in place of the
definition they follow; nothing else refers to them.

## 3. Runs, bounds and what they show

| Run | Instance | Properties |
|---|---|---|
| permissions_host | 1 process at a time, 2 identities, 1 site, 1 capability, 1 session, times 0-1, a week of 1 (so a grant expires at the later time), grant ids 1-2, one kill or failed write, any damage | ReportedEndedStaysEnded, ReportedSweepIsFinal, LedgerExplainsStore, ChangedAnswersAreNamed, CorruptStaysCorrupt, ImplementsOverlay |
| permissions_stale | as above, 2 processes, no failures | ReportedEndedStaysEnded is violated |
| identity_scheduler | 3 identities, cap 2, 2 events held | CapHolds, LeastRecentGoesFirst, PurgedStaysPurged |
| identity_session | 2 identities, 2 tabs, 3 audit rows | AuditExplainsBindings, SnapshotIsExact, SavedSessionComesBack; ViewsAreHonest |
| identity_bleed | the same | RestoreNeverBleeds is violated |
| update_client | 3 manifests of 2 versions, 2 epochs, 2 sequence numbers, a seen-set of 2, 4 recordings, one failure | NoReplayWithinWindow, OfferIsRecordedAndNewer, RevocationIsFinal |
| update_seen | the same | CorruptSeenIsPreserved is violated |
| policy_cache | 2 identities, 2 sites, 2 readers, room for 2 of 4 keys, one change per identity | EveryEntryIsQueued, GenerationsAreExact, HitsFollowLayersUnlessOvertaken |
| policy_service | 3 keys, two of which share a slot, 2 policies, 2 threads, a cache of one, a budget of one entry, 3 snapshot attempts; beside it some 20 requests, 2 x 4 x 5 store files, 5 managed policies | ReplicaIsExact, DiffsChain, CacheAgreesWithState; AuthorityHolds, StoredIsHeard, AnswersAreExact |
| shield_host | 2 identities, 2 sites, 2 bundle ids in up to 2 versions, an int whose largest value is 2, a ring of 2, a budget of 2, times 0-3, 3 requests that change something; filters up to 4 characters against texts up to 3 | EmittedIsAccepted, SlotsFollowHistory, RefusedToggleIsInForce, ViewsAgree, ChipTellsProtection; GreedyMissesNothing |
| commands_host | 16 requests, 3 of them in a row, 2 faults, a ceiling of 1 | LockoutHasACause, PromisedStaysBound, DialsStayApart, DialTakesEffect; PaletteRanksWell |
| settings_host | 2 hosts, 6 requests, 3 of them in all, two kills or failed writes, retention of one day and one midnight; schemas of 2 settings in 2 sections, under 6 names | LedgerIsHonest, LedgerIsKept; EverySettingIsFound |

The properties after a semicolon are laws over inputs: what a
pure part of the code answers for a set of requests. They do not depend on the
state, so they are evaluated once, where the run starts.

Why the bounds are enough for the cases of interest. Two grant ids allow one to
end and another to be given out after it, the case of id reuse; two times allow an
expiry and a rollback. Three identities and a cap of two make the cap bite while a
slot of a gone identity is still in the list. Three audit rows hold an open, a move
and a second tab. A seen-set of two with four recordings forgets. Four keys in two
places evict; two sites against a budget of one make a full snapshot fail and a diff
pass. Three attempts make one diff whose base is a diff, and one after a refusal.
Three activations fill both slots and replace one, with a downgrade through another
bundle id on the way; a clock that goes one past the largest int meets the narrowing.
Two faults let a process be killed in the middle of a write and the power fail
after the next. Two hosts and a midnight between count and save are all the overlap
one temporary file allows before the third request reads the result. Symmetry
permutes only model values that no definition chooses between.

Deadlock is checked in the runs over permissions, sessions, updates and policy. It is
not in `identity_scheduler`, where all three domains of the instance can be used up
while nothing is left to compact, which the program's inexhaustible mint does not
allow, nor in `shield_host`, `commands_host` and `settings_host`, where the caller
may have asked all it is going to ask.

Every bound on the length of a behaviour is named and lives in a guard: `GrantIds`,
`MaxFailures`, `MaxEvictions`, `MaxChanges`, `MaxRecords`, `MaxSeq`, `MaxTime`,
`MaxCalls`, `MaxRequests`, `MaxFaults`, `MaxAsks`, `MaxDay`.

### What the violations say

Three runs expect a violation; `PROJECT.json` quotes the lines under `findings`.
The permissions host replaces the file without looking whether it is still the one
it read, so two requests at once can revive a revoked grant. A snapshot skips the rows
of purged identities before it takes the last one, so a tab can come back in the
identity it was moved away from. The update host ignores that the seen file failed
to load.

### Other places where the code and its description part

Met while modelling, modelled as the code has them, and excepted by name in the
properties that they would break:

- `policy/README.md` puts a "Per-identity site binding" above a "Per-site default binding".
  The resolver takes the newest of both kinds together (`resolve.cc:205-210`), so a newer
  site default decides against an older binding of the identity (`AnswersAreExact`).
- The policy service keys its state by names joined with bars (`service.cc:14-16`), which nothing
  keeps out of identities and domains. Two keys can share a slot; the cache then has both, and
  every snapshot misses one, which `snapshot.h` calls the "(identity, site, trust) →
  EffectivePolicy state" (`CacheAgreesWithState`).
- With no bundle the chip is green, in `posture.h` "protecting", and every request is allowed
  (`match.cc:64`; `ChipTellsProtection`).
- `counters.h` says that a kill "can leave a partial .tmp but never a half-written ledger". Two
  hosts share the temporary name: one can publish the file that the other has just truncated, and
  if that one is killed the ledger stays empty and every later request is refused
  (`counters.cc:190`; `LedgerIsKept`).
- `router.h` calls a dangling anchor impossible. The anchor of a key like `n.a.b` in section `n`
  is `n/a.b`, which does not resolve, for a part with a dot is looked up as a full key alone
  (`router.cc:107-109`). By its full key every setting resolves. The anchor of a
  setting whose name is the key of another one of its section, or the name of an earlier
  one, leads to that one (`LinksRoundTrip`).
- `templates.h` says that a listed default that never applies "reddens". The ceremony of two
  templates lists `visual:window.border` (`templates.cc:73`, `86`), which nothing sets
  (`CeremonyIsKept`).
- The scheduler counts slots, not active identities (`hibernate.cc:14`): an archived
  or destroyed identity keeps its slot and can push out an active one below the cap.
- The policy cache stamps an entry when it is put, not when it was resolved
  (`cache.cc:37`); an entry that `Get` drops leaves its slot, and a later entry of the
  key is evicted by the old slot's age (`cache.cc:57`).
- A `disposable` template announces an in-memory partition (`templates.cc:107`) and has a
  row that says so, but whether the provisioned identity is in-memory is up to the request;
  the scenario and page commands record a template and do not apply it; a frozen Create
  makes an in-memory fortress; purging one identity twice reports it unverified.
- A malformed request for a known identity and site overwrites the accumulated policy
  with the deny policy (`service.cc:139`), under a key that has no request class; a
  request's own enterprise member hides the managed policy. Of two entries alike in age and
  id the first in the list decides (`resolve.cc:202`). An ill-typed `created_at` is accepted
  by the store and dropped by the resolver. A version 1 exceptions file whose entries
  already carry `granted_by` is accepted without a look at that member, and the migration,
  which leaves it as it is (`store.cc:338`), may then fail and drop the whole layer.
- The downgrade check of the shield looks at the active bundle alone, so another
  bundle id in between lets an older version in. A version or time beyond int makes the
  host refuse its own document. The filter `|segment|` does not look at its left bar.
- A dial without a site writes an entry that no request matches (`protocol.cc:127`);
  a binding reported as not persisted is in effect until the process ends; a trust file
  that cannot be read counts as empty and is overwritten.
- A query is counted once per setting it finds.
- The bonus for a capital letter in the matcher never counts, since the text is lowered
  first.

### Fairness

None is assumed: all specifications are `Init /\ [][Next]_vars`. The hosts are processes that
someone starts, and nothing in the code promises that someone does. In particular a consumer
of snapshots that fell back to the deny defaults (`snapshot.h`) has nothing but another full
snapshot to recover by, and nothing under `src/` asks for one or sends one again, so that it is
served is no property of this code.

## 4. What is proved

`PermissionsHostProofs` proves, with no bound on identities, domains, capabilities,
sessions, times, ids, processes or failures:

- `TypeCorrect`, and its corollary `TypeOKHolds`: `Spec => []TypeOK`. `TypeOK`
  alone is not inductive, for the id that the loop of `GrantTemp` chooses is a number
  only if there is a free one: `TypeInv` adds that ids are unique and below `next_seq`
  in the store and in every process's copy. `NextFreeIdIsNextSeq` shows from it that
  the loop ends at once.
- `EndedStaysEnded`, `LedgerCompleteness` and `CorruptionIsFinal`: the properties
  `ReportedEndedStaysEnded`, `LedgerExplainsStore` and `CorruptStaysCorrupt`, under
  the hypothesis `OneCaller`: callers take turns, so at most one process is active. The
  hypothesis is the one the run permissions_stale shows to be needed.

The argument is `LedgerInvariant`. A process between its read and its reply holds a
store and rows that nobody else has, so the ledger does not match the store then;
the strengthening says where each process stands: before its store write, the
ledger matches the store on disk and what the rows would make of the ledger matches
the store it is about to write; after the write, the second alone. `RequestExplained`
establishes it for each of the seven operations through `Accounting`, which says of one
outcome that its rows, filed, turn a ledger that matches the old store into one that
matches the new. `Emit` then restores the match, and a death before it sets
`rows_lost`. The first property needs more, since it also holds after rows were lost:
ids that were ever reported lie below `next_seq`, so that no new grant takes one of
them, and the ends a process has yet to report are not live in the store it wrote.

- `SweepsAreFinal`: `ReportedSweepIsFinal`, from `TimeInvariant`. What it adds is where
  a clock can be: no process works with a time behind the recorded mark, no sweep is
  reported for a time the mark has not reached, and no weekly grant is written that ends
  by then.
- `HostImplementsOverlay`: `ImplementsOverlay`, the refinement. The write of the store file
  is the abstract step, the operation it applies the one the process chose when it read;
  `Requested` lists the seven operations, each of which is one of the abstract ones. The
  clock file and the damages map to steps of their own, everything else stutters.
- `ChangesAreAnnounced`: `ChangedAnswersAreNamed`. Per operation, what it leaves alone
  answers as before (deny flag, default and live grants of the pair), so an answer that
  changes belongs to a row.

These three, too, are for callers that take turns.

`IdentityProofs` proves of the scheduler, for any domains, log length and positive cap:

- `MintedApartAlways` and `PurgedForGood`: live and purged identities were minted and
  are apart, and therefore what was purged stays purged (`PurgedStaysPurged`).
- `CapInvariant` and `CapHoldsAlways`: `CapHolds`. The cap alone is not inductive,
  because it counts records and the scheduler counts slots. `CapInv` adds what ties the
  two together: whoever is active and was activated has a slot, and there are at most
  `Cap` slots. `ScheduleKeeps` shows that popping the excess keeps every slot it does
  not evict, `ScheduleFits` that what is left has room for the newcomer;
  `CardinalityOfMembers` goes from slots to identities.
- `InOrderAlways` and `LeastRecentAlways`: `LeastRecentGoesFirst`. The property compares
  the times of the last activation; the code only has a list. `InOrder` says that the slots stand
  in the order of those times and nobody has two; stale slots may be anywhere. The excess is a
  prefix of the list (`WithoutKeepsOrder`), so whoever the cap puts to sleep comes before
  everybody who stays.

and of sessions, for any tabs and partitions, any document and any number of rows:

- `SessionInvariant`: `Trail` and `StoreInv`. The properties speak of the last row of a tab
  or the rows between two compactions; `Trail` speaks of each tab's rows alone: there are some
  exactly if the tab is bound, the last names its identity, and each starts where the one
  before it ended. Compaction keeps the last of each tab and so breaks no link;
  a restore starts from no rows. `AuditExplains`, `SnapshotExact` and `SavedComesBack` are
  `AuditExplainsBindings`, `SnapshotIsExact` and `SavedSessionComesBack`. The second needs
  both halves: the rows of an identity that is gone are skipped before the last row of a tab
  is looked for, and that must not bring an older row forward. It does not where the identity of
  the tab is alive, since its last row then names that identity and is not skipped. The third adds
  that no row of an in-memory identity gets into the document, which would have all of it
  refused, and that identities come and go without changing what the document says.

`ShieldProofs` proves, for any identities, sites, bundles, stray documents and any
number of requests: `SlotInvariant`, that the held apply state is the history of
accepted bundles cut to its last two, as long as the numbers met so far fit an int
(`NumbersFit`); from it `SlotsAreHistory` (`SlotsFollowHistory`) and
`HeldStateIsAccepted` (the first half of `EmittedIsAccepted`). The invariant adds to the
property that accepted versions are positive, that the last activation never ran ahead of
the clock, and that the last two of the history differ in name or version, which is what
makes two pins two.

`EmittedStateIsAccepted` is all of `EmittedIsAccepted`, with the states the host
did not emit: activation keeps what the strict parser asks for, whatever the
rest of such a state holds. `ChipIsHonest` is `ChipTellsProtection`, by cases of the
posture and the decision pipeline, with a bundle and without.

`ScopeInvariant` and `RefusedToggleHolds` are about the exception scopes, for any offers,
clocks and width of an int: `RefusedToggleIsInForce`. The invariant says what a scope set can
be after any requests: every expiry is an int, so that emitting it again narrows nothing, and
a scope whose id was not added since outlived the last sweep. A refused toggle has a
scope under its id; if that one has expired, either the last sweep was before it did or
it was added after that sweep, which are the two exceptions the property names. The theorem
asks of an offered scope that it is a scope with an integer for its expiry (`OffersAssumption`),
which is what the parser of a request's JSON makes of it.

`RingInvariant` and `ViewsAlwaysAgree` are `ViewsAgree`. Reading a ring document is a loop,
here a recursive function of the events read so far. `RingIsNewest` proves what it computes
for every document: the newest events solve the loop's equation (`AppendMovesOn`), so a
function that solves it exists, and the least number of events for which another one
differed would be one after a number for which it does not. `CountsAddUp` gives every
blocked event the pair of its identity and its rank among that identity's blocked ones,
which is a bijection to the pairs that the statuses count; `ViewIsTheNewest` maps the shown
events one to one to those counted.

`GreedyMissesNone` is about the matcher of filters, for every text, segments and anchors:
`MatchSegments` says yes exactly if the segments can be placed in the text one
after the other, and the last one at its end under a right anchor. The loop of `Advance` is run
by some function (`LoopRuns`: again no least step without one). At the first segment
where the greedy search were further than a placement, it was not further one segment
before and would have found the placement's own place or an earlier one
(`GreedyIsEarly`); where it comes to the end, its places are a placement
(`GreedyPlaces`). Under a right anchor the last segment has one place only
(`OneEnd`), unless it ends with a separator; that case and a single segment between two bars
are excluded, as in `GreedyMissesNothing`. That property says more: that the segments
and their placements are what the text of the filter means.

`UpdateClientProofs`, for any manifests, epochs, window and number of checks:

- `ReplayInvariant` and `NoReplay`: `NoReplayWithinWindow`. The property speaks of
  the history, the code of a list of ids; what ties them is that the list, on disk and
  in a process that has loaded it, is the end of the history, and all of it
  until the window is full.
- `OfferInvariant` and `OffersAreNewer`: `OfferIsRecordedAndNewer`. A recorded manifest
  that is due for its reply was decided against the version that is still installed.
  `VersionNeverGoesBack` follows.
- `RevokedInvariant` and `KillSwitchIsFinal`: `RevocationIsFinal`, because the About machine
  stands at refused as soon as a revocation is recorded.

`PolicyProofs`, of the service, for any keys, policies, threads, budget and capacity:

- `DiffRoundTrip`: a diff of two states applied to the first gives the second. From it
  `ChainInvariant`: every blob under way tells the truth about the states emitted under
  its numbers (`BlobsAreTrue`), the base of the next diff is an emitted state, and so
  the consumer's state is one as well. `ReplicaStaysExact` and `ChainIsUnbroken` are
  `ReplicaIsExact` and `DiffsChain`.
- `ResolveInvariant` and `CacheAndStateAgree`: `CacheAgreesWithState`. A resolve is two
  steps under two locks; `HalvesAgree` says that a thread between them, if no other
  resolved its key meanwhile, will write to the state what it wrote to the cache, as
  long as the cache still holds the key. Which keys share a slot is left open: the proof
  uses nothing of `StateKeyOf` but that it is a function of the key.

and of the cache, for any keys, policies, readers, capacity and number of changes:

- `QueueInvariant` and `EntriesAreQueued`: `EveryEntryIsQueued`. Slots may outlive their
  entry, so the queue is not a list of the map; the loop of `Put` pops up to the
  first slot whose entry is still there, which exists since every entry has a slot
  (`LeastNumber`, by well-founded inclusion of intervals).
- `GenerationInvariant` and `GenerationsStayExact`: `GenerationsAreExact`. No stamp is
  ahead of the generations (`VersionsInv`), so an invalidation makes every stamp it
  covers stale, and a stale one never becomes current.
- `LayersInvariant` and `HitsFollowLayers`: `HitsFollowLayersUnlessOvertaken`. The
  invariant says the same of a policy that a reader has resolved and not yet put.

and three laws over inputs, for any requests, store files and managed policies:

- `WhatDeniesIsFinal` and `AuthorityAlways`: `AuthorityHolds`. A member of the request
  survives the merge with the stored layers (`RequestsWin`), and the managed policy does
  where the request has no enterprise member (`ManagedIsHeard`), so what the resolver sees
  of both is known. From there on, stage by stage: the tier is at least the enterprise floor
  (`TierHasFloor`, `StrictestIsOne`) and a higher tier is at least as strict
  (`TiersAreStricter`, `RoutesAreStricter`); what is forced is there in the end and takes
  nothing back (`ForcedIsStricter`, `HintedHolds`); the extension touches neither
  (`HintedTells`); and the overlay alone opens capabilities, as the last stage
  (`OverlayDecides`, `DecidedTells`), which an overlay that does not parse, is marked
  corrupt or denies the identity closes.
- `AcceptedFilesAreHeard` and `StoredIsAlwaysHeard`: `StoredIsHeard`. `LoadedIsValid` is
  what `Load` guarantees, `ValidExceptionFits` that the parser of the request asks no more
  than the store did but the types of three members, `MigratedIsValid` that the member the
  migration adds is the one version 2 asks for.
- `EntriesAlwaysDecide`, `WireAlwaysStrict` and `AnswersAreAlwaysExact`: `AnswersAreExact`.
  Of any finite number of entries one wins (`OneWins`, by the least number of entries for
  which none would), and it is above all others in age and id (`WinnerLeads`), so among entries that
  are told apart by them the same one wins in every order (`DistinctAreToldApart`,
  `OrderIsIdle`). The rung it decides gives the request's tier (`TierFrom`, `RungDecides`); what
  is idle is not looked at (`KeptDecide`), and the answer reads nothing else of the
  entries (`AskedDecides`).
  For the wire, stage by stage again: the tier is one of the ladder (`RungIsATier`), and
  the tiers, what is forced and the overlay leave every member a value it may
  have (`TieredIsLegible`, `HintedIsLegible`, `OverlaidIsLegible`), which are those that
  `FromJson` takes (`FlatIsLegal`).

`SettingsHostProofs`, for any events, requests, retention and number of hosts:
`LedgerStaysHonest` (`LedgerIsHonest`) and `LedgerStaysKept` (`LedgerIsKept`).
`BoundInvariant` is the half for every behaviour: the ledger, the temporary file, what
a process has loaded and what it has left to write count at most what happened.
`ExactInvariant` is the half for the behaviours in which nothing was lost: one process
at a time, and each of its steps holds exactly what happened within the retention.
`MixedInvariant` needs no more than that processes do not overlap at the moment, whatever was
killed or overlapped before: the one that runs opened the temporary file itself, so the file
holds what that process wrote, and this has what the ledger has. `mixed` ends with the last
of the processes that overlapped (`NobodyIsLeft`), since what they left under the temporary name is
truncated by the next.

`CommandsHostProofs`, for any commands, requests, identities, files and faults:

- `StoreInvariant`: every file, whatever a power loss may leave of it, and the
  process itself hold what this host wrote. `CauseInvariant` adds which file was cut
  short or harmed. `OnlyHarmLocksOut` is `LockoutHasACause`: a registry that was
  written is accepted again, because `KeptReg` reads it back as it is, and its menu is
  complete and below the ceiling.
- `PromiseInvariant`, `KnownInvariant` and `PromisesAreKept`: `PromisedStaysBound`. A
  promised binding is in the file, and in the copy that a process is about to put
  in its place, unless that process was asked about its command.
- `DialsTouchTheirOwn` (`DialsStayApart`): rewriting the trust file keeps the order of
  the entries it does not concern, so the entry that counts for another subject stays
  the same (`OthersKeepTheirTrust`). `DialInvariant` and `DialsAreResolved`
  (`DialTakesEffect`): the entry written last is the one the tier ladder of
  `PolicyResolve` finds for every identity without an entry of its own.

`PlacesProofs` has what the others keep needing. The code's filters over a list
(`std::remove_if`, loops that skip) are written as `Keep`, a list by the places it
keeps, and not as `SelectSeq`: the prover knows what a function is and has no facts
about `SelectSeq`. `EveryPlaceIsTaken` (such a list loses and repeats nothing and keeps
the order), `KeptMembers` and `AscendingMembers` are proved once, by
well-founded inclusion of intervals (`LeastNumber`), and used for commands, identities and scopes.

The proofs rest on the named assumptions of the modules, which the runs evaluate: a positive
week, window, cap and capacity, no session id equal to the empty one, times in range,
versions positive; ids of identities apart from the absent one; a roster and an initial
trust file that are sequences of well-formed entries (`HostAssumption` of `CommandsHost`),
initial ledgers that are tables of counts (`LedgersAssumption`), requests that name one of
the identities (`IdentitiesAssumption`), offered scopes with an integer expiry
(`OffersAssumption`), requests and stores whose layers are lists of entries with numbers for
names and times (`RequestsAssumption`, `LayersAssumption`: a member of another type is
marked as wrong), files with a version number, and managed policies that are objects once
their envelope is well formed (`Load` and the envelope check refuse the others), a mark for
ill-typed values that is none of the values (`WrongAssumption`), stray shield documents
whose active bundle is one the caller could have been given (`StraysAssumption`).
`OneCaller` is no assumption of a module but a hypothesis of the theorems that need it.

Model-checked only:

- The other laws over inputs (`ViewsAreHonest`, `GreedyMissesNothing` from the text of a
  filter on, `PaletteRanksWell`, `EverySettingIsFound`). They are about stacks of folds and
  recursive functions (segments of a filter, the places a glob can reach, scores of words),
  and what those compute for every input is an induction over data, which the prover cannot
  be given. `RingIsNewest`, `OneWins` and `GreedyMissesNone` get by without one, as they are
  about a single recursion that the least counterexample refutes; a stack needs that for
  every level, with the level below it unfolded.

## 5. Not modelled, and why

Parsing, canonical JSON and SHA-256 are taken as exact. Names, wording, colours,
counters of hits and misses, and diagnostics change no decision. `AtomicWrite` (tmp,
fsync, rename) of the permissions and update hosts is one step; where the code skips or
misorders fsync (commands) or shares the temporary name (settings), the steps are apart.

- Themes: colour arithmetic, a loader over one document per request, and a state file
  of one theme and one mode, which `apply` and `system-mode` rewrite whole.
- Cosmetic filtering: a selector parser and a blob codec byte by byte, and a ladder of
  degradation over one blob. Their control is a switch over characters; a model of it
  would be a transliteration.
- Permission presentation: stateless text and merges over one store value.
- Update parsing, cohorts and the back-off gate: pure formulas over values that the
  caller keeps. The gate compares monotonic times, which do not survive a reboot.
- Two update verifications at once: the About machine runs one at a time, a second one
  needs a caller outside it. The later writer of the seen file would lose the other's id.
- `Save` of the policy store (tmp and rename without fsync) and the dispatch of
  `policy_host`; diagnostics rows of the service, which are appended without its lock.
- `ResolvePref`, suggestions and navigation refusals of the identity core: no state.
- The UI, interface definitions, fakes, patches, spikes, tests, scripts and vendored
  code have no state of their own that these properties are about.

## 6. Plan

1. Theorems: that the segments of a filter stand for its text, with both written as single
   recursive functions; with `GreedyMissesNone` that is `GreedyMissesNothing`.
2. `UpdateClient`: two verifications at once; a notice at the trusted epoch's own
   sequence number, which `epoch.h` and `epoch.cc` treat differently; the back-off gate.
3. `PolicyStore`: `Save` as steps, with the file primitives of `CommandsHost` in a module
   of their own.
4. The degradation ladder of the cosmetic host and the theme selection, as laws.

A development that is to be re-checked in minutes has room for about a dozen runs and
some forty properties: new ones replace shallower ones.
