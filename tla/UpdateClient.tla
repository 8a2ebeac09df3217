---------------------------- MODULE UpdateClient ----------------------------
(***************************************************************************)
(* The update client: verification of a served manifest                    *)
(* (update/core/verify_policy.cc), the epoch state and its kill switch     *)
(* (epoch.cc), the replay seen-set and its file (seen.cc), and the About   *)
(* state machine (StepAboutState in update/host/update_host.cc), driven    *)
(* the way the host protocol lets a caller drive them: one check at a      *)
(* time, each `verify' a process of its own that loads the seen file,      *)
(* decides, records the manifest and then replies, and can be killed or    *)
(* fail its write on the way.  Revocation notices arrive at any moment, so *)
(* a running verify may hold the epoch of before.                          *)
(*                                                                         *)
(* External: the caller, which keeps the epoch state and the installed     *)
(* version between calls, feeds each outcome to the About machine and      *)
(* installs what is ready.  Abstracted: a manifest is its id, which is the *)
(* digest of the signed response and so determines the version; a signature *)
(* is whether it verifies under the key named; the parse refusals and      *)
(* the channel and app id checks, which change nothing; the seen ids a     *)
(* caller may pass inline.                                                 *)
(***************************************************************************)
EXTENDS Integers, Sequences, SequencesExt

CONSTANTS
    Manifests,      \* manifest ids
    VersionOf,      \* the version each of them offers
    Epochs,         \* epoch ids
    Keys,           \* pinned key ids
    Seqs,           \* epoch sequence numbers
    MaxEntries,     \* SeenSet::kMaxEntries
    MaxRecords,     \* manifests recorded in all (TLC's bound)
    MaxFailures     \* kills and failed writes explored (TLC's bound)

ASSUME UpdateAssumption ==
    /\ VersionOf \in [Manifests -> Nat \ {0}]
    /\ Seqs \subseteq Nat
    /\ MaxEntries \in Nat \ {0}
    /\ MaxRecords \in Nat
    /\ MaxFailures \in Nat

VARIABLES
    seen,           \* update-seen.json: damaged or not, and the ids Load reads
    epoch,          \* EpochState, kept by the caller
    current_version,
    about,          \* the About state
    offered,        \* the manifest being offered, downloaded or installed
    proc,           \* the verify process, if one runs
    \* observers
    recorded,       \* every manifest recorded as accepted, in order
    damaged,        \* the seen file was damaged from outside
    failures

vars == <<seen, epoch, current_version, about, offered, proc, recorded,
          damaged, failures>>

None == "none"
AboutStates == {"idle", "checking", "available", "downloading", "ready",
                "failed", "refused"}
EpochState == [epoch_id: Epochs \cup {None}, key_id: Keys \cup {None},
               seq: Seqs \cup {-1}, revoked: BOOLEAN, manual_path: BOOLEAN]
FreshEpoch == [epoch_id |-> None, key_id |-> None, seq |-> -1,
               revoked |-> FALSE, manual_path |-> FALSE]
Trusting(e, k, s) == [epoch_id |-> e, key_id |-> k, seq |-> s,
                      revoked |-> FALSE, manual_path |-> FALSE]

(* The envelope of a manifest: its epoch block, and whether its signature   *)
(* verifies under the key it names.                                        *)
Envelope == [id: Manifests, epoch_id: Epochs, key_id: Keys, seq: Seqs,
             signed: BOOLEAN]
Notice == [epoch_id: Epochs, key_id: Keys, seq: Seqs]

Idle == [pc |-> "idle"]
Loaded(env, ids) == [pc |-> "loaded", env |-> env, ids |-> ids, epoch |-> epoch]
Replying(id) == [pc |-> "reply", id |-> id]

----------------------------------------------------------------------------
(* The core.                                                               *)

EpochAcceptable(state, env) ==
    /\ ~state.manual_path
    /\ ~state.revoked
    /\ env.seq >= state.seq
    /\ state.epoch_id # None => env.epoch_id = state.epoch_id

(* Mutant: an offer of the installed version is an update.                 *)
AcceptableSameVersion(state, env, version, ids) ==
    /\ EpochAcceptable(state, env)
    /\ state.key_id # None => env.key_id = state.key_id
    /\ env.signed
    /\ VersionOf[env.id] >= version
    /\ env.id \notin ToSet(ids)

(* VerifyUpdateResponse, up to the recording: epoch, key, signature,       *)
(* monotonicity, replay.                                                   *)
Acceptable(state, env, version, ids) ==
    /\ EpochAcceptable(state, env)
    /\ state.key_id # None => env.key_id = state.key_id
    /\ env.signed
    /\ VersionOf[env.id] > version
    /\ env.id \notin ToSet(ids)

(* SeenSet::Insert: a FIFO of at most MaxEntries.                          *)
Trim(ids) ==
    IF Len(ids) > MaxEntries
    THEN SubSeq(ids, Len(ids) - MaxEntries + 1, Len(ids))
    ELSE ids

(* Mutant: the newest manifest is the one trimmed.                         *)
InsertKeepingOldest(ids, id) ==
    IF Len(ids) < MaxEntries THEN Append(ids, id) ELSE ids

Insert(ids, id) == Trim(Append(ids, id))

(* Mutant: a notice for another epoch takes over the state unrevoked.      *)
ApplyRevocationByEpoch(notice, state) ==
    IF state.seq >= 0 /\ notice.seq <= state.seq /\ ~state.revoked THEN state
    ELSE [epoch_id |-> notice.epoch_id, key_id |-> notice.key_id,
          seq |-> notice.seq, manual_path |-> TRUE,
          revoked |-> state.epoch_id \in {None, notice.epoch_id}]

(* ApplyRevocation: a notice not newer than the trusted epoch is stale,    *)
(* unless the client is revoked already, when every notice is taken over.  *)
ApplyRevocation(notice, state) ==
    IF state.seq >= 0 /\ notice.seq <= state.seq /\ ~state.revoked THEN state
    ELSE [epoch_id |-> notice.epoch_id, key_id |-> notice.key_id,
          seq |-> notice.seq, revoked |-> TRUE, manual_path |-> TRUE]

(* StepAboutState.                                                         *)
AboutTable ==
    {<<"idle", "check", "checking">>, <<"failed", "check", "checking">>,
     <<"checking", "offer", "available">>, <<"checking", "noupdate", "idle">>,
     <<"available", "download-start", "downloading">>,
     <<"downloading", "download-done", "ready">>,
     <<"checking", "error", "failed">>, <<"available", "error", "failed">>,
     <<"downloading", "error", "failed">>, <<"ready", "install", "idle">>}

(* The next state, or nothing for an unknown transition.                   *)
StepAboutState(state, event) ==
    IF event = "epoch-revoked" \/ state = "refused" THEN {"refused"}
    ELSE IF event = "reset" THEN {"idle"}
    ELSE {t[3] : t \in {u \in AboutTable : u[1] = state /\ u[2] = event}}

----------------------------------------------------------------------------
Init ==
    /\ seen = [corrupt |-> FALSE, ids |-> <<>>]
    /\ epoch \in {FreshEpoch} \cup {Trusting(e, k, s) : e \in Epochs, k \in Keys, s \in Seqs}
    /\ current_version = 0
    /\ about = "idle"
    /\ offered = None
    /\ proc = Idle
    /\ recorded = <<>>
    /\ damaged = FALSE
    /\ failures = 0

Event(event) == about' \in StepAboutState(about, event)

Check ==
    /\ proc = Idle
    /\ about \in {"idle", "failed"}
    /\ Event("check")
    /\ UNCHANGED <<seen, epoch, current_version, offered, proc, recorded,
                   damaged, failures>>

(* The answer of the server: no update, or an envelope, perhaps one served *)
(* before.                                                                 *)
NoUpdate ==
    /\ proc = Idle
    /\ about = "checking"
    /\ Event("noupdate")
    /\ UNCHANGED <<seen, epoch, current_version, offered, proc, recorded,
                   damaged, failures>>

(* A verify process starts: it holds the caller's epoch and loads the seen *)
(* file.  The host ignores Load's failure, which leaves in the set what    *)
(* came before the damage.                                                 *)
Verify(env) ==
    /\ proc = Idle
    /\ about = "checking"
    /\ proc' = Loaded(env, seen.ids)
    /\ UNCHANGED <<seen, epoch, current_version, about, offered, recorded,
                   damaged, failures>>

(* A typed denial.                                                         *)
Deny ==
    /\ proc.pc = "loaded"
    /\ ~Acceptable(proc.epoch, proc.env, current_version, proc.ids)
    /\ proc' = Idle
    /\ Event("error")
    /\ UNCHANGED <<seen, epoch, current_version, offered, recorded, damaged, failures>>

(* Record before accepting: the seen file is written.                      *)
Record ==
    /\ proc.pc = "loaded"
    /\ Len(recorded) < MaxRecords
    /\ Acceptable(proc.epoch, proc.env, current_version, proc.ids)
    /\ seen' = [corrupt |-> FALSE, ids |-> Insert(proc.ids, proc.env.id)]
    /\ recorded' = Append(recorded, proc.env.id)
    /\ proc' = Replying(proc.env.id)
    /\ UNCHANGED <<epoch, current_version, about, offered, damaged, failures>>

Accept ==
    /\ proc.pc = "reply"
    /\ proc' = Idle
    /\ Event("offer")
    /\ offered' = proc.id
    /\ UNCHANGED <<seen, epoch, current_version, recorded, damaged, failures>>

(* seen-persist-failed, or the process is killed: no verdict reaches the   *)
(* caller but an error.                                                    *)
Fail ==
    /\ proc # Idle
    /\ failures < MaxFailures
    /\ failures' = failures + 1
    /\ proc' = Idle
    /\ Event("error")
    /\ UNCHANGED <<seen, epoch, current_version, offered, recorded, damaged>>

(* The download, and the relaunch into the new version.                    *)
Download(event) ==
    /\ event \in {"download-start", "download-done", "error"}
    /\ about \in {"available", "downloading"}
    /\ Event(event)
    /\ UNCHANGED <<seen, epoch, current_version, offered, proc, recorded,
                   damaged, failures>>

Install ==
    /\ about = "ready"
    /\ Event("install")
    /\ current_version' = VersionOf[offered]
    /\ UNCHANGED <<seen, epoch, offered, proc, recorded, damaged, failures>>

Reset ==
    /\ proc = Idle
    /\ Event("reset")
    /\ UNCHANGED <<seen, epoch, current_version, offered, proc, recorded,
                   damaged, failures>>

(* epoch-apply of a notice whose signature verified; the caller keeps the  *)
(* epoch it returns and tells the About machine of a revocation.           *)
EpochApply(notice) ==
    /\ epoch' = ApplyRevocation(notice, epoch)
    /\ IF epoch'.revoked THEN Event("epoch-revoked") ELSE about' = about
    /\ UNCHANGED <<seen, current_version, offered, proc, recorded, damaged,
                   failures>>

(* A damaged file still yields the ids before the first bad one.           *)
DamageSeen ==
    /\ proc = Idle
    /\ \E n \in 0..Len(seen.ids) :
          seen' = [corrupt |-> TRUE, ids |-> SubSeq(seen.ids, 1, n)]
    /\ damaged' = TRUE
    /\ UNCHANGED <<epoch, current_version, about, offered, proc, recorded, failures>>

Next ==
    \/ Check
    \/ NoUpdate
    \/ \E env \in Envelope : Verify(env)
    \/ Deny
    \/ Record
    \/ Accept
    \/ Fail
    \/ \E event \in {"download-start", "download-done", "error"} : Download(event)
    \/ Install
    \/ Reset
    \/ \E notice \in Notice : EpochApply(notice)
    \/ DamageSeen

Spec == Init /\ [][Next]_vars

----------------------------------------------------------------------------
(* Properties.                                                             *)

(* Replay: within any MaxEntries manifests recorded one after the other no  *)
(* id comes twice, whatever is killed and whatever write fails, as long as  *)
(* nothing damages the seen file.  (Beyond that many the FIFO has forgotten *)
(* the first one, and only the version check is left.)                      *)
NoReplayWithinWindow ==
    ~damaged =>
        \A i, j \in DOMAIN recorded :
            i < j /\ j - i <= MaxEntries => recorded[i] # recorded[j]

(* What the About page offers, downloads or installs was recorded, and is   *)
(* newer than what is installed: the installed version never goes back.     *)
OfferIsRecordedAndNewer ==
    about \in {"available", "downloading", "ready"} =>
        /\ offered \in ToSet(recorded)
        /\ VersionOf[offered] > current_version

(* The kill switch: once a revocation is recorded it stays, the manual path *)
(* stays forced, and nothing is installed any more, not even an update that *)
(* a verify begun before the revocation still accepts.                      *)
RevocationIsFinal ==
    [][epoch.revoked =>
          /\ epoch'.revoked /\ epoch'.manual_path
          /\ current_version' = current_version]_vars

(* seen.h: a corrupt file is preserved, and updates are refused.  The host  *)
(* ignores the failed load and the next accepted manifest overwrites the    *)
(* file, so this does not hold.                                             *)
CorruptSeenIsPreserved == [][seen.corrupt => seen' = seen]_vars

=============================================================================
