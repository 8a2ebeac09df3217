------------------------- MODULE UpdateClientProofs -------------------------
(***************************************************************************)
(* Replay, offers and the kill switch of the update client, for any        *)
(* manifests, versions, epochs, keys and size of the seen-set, and any     *)
(* number of verifications, kills, failed writes and notices.              *)
(*                                                                         *)
(* No replay: the seen file, and what a running verify has loaded of it,   *)
(* is exactly the end of the list of recorded manifests (WindowInv).       *)
(* Offers: a verify runs only while the About machine waits for it, so the *)
(* installed version cannot move between its decision and its reply        *)
(* (OfferInv).  The kill switch: a revoked epoch parks the machine in      *)
(* `refused', which nothing leaves (RevokedInv).                           *)
(***************************************************************************)
EXTENDS UpdateClient, SequenceTheorems, TLAPS

Offering == {"available", "downloading", "ready"}

(* ids are the last of rec, as many as the seen-set holds.                 *)
Window(rec, ids) ==
    /\ Len(ids) = IF Len(rec) <= MaxEntries THEN Len(rec) ELSE MaxEntries
    /\ \A k \in 1..Len(ids) : ids[k] = rec[Len(rec) - Len(ids) + k]

Shapes ==
    /\ recorded \in Seq(Manifests)
    /\ seen.ids \in Seq(Manifests)
    /\ damaged \in BOOLEAN
    /\ \/ proc = Idle
       \/ /\ proc.pc = "loaded"
          /\ proc.env \in Envelope
          /\ proc.ids \in Seq(Manifests)
       \/ proc.pc = "reply" /\ proc.id \in Manifests

WindowInv ==
    ~damaged => /\ Window(recorded, seen.ids)
                /\ proc.pc = "loaded" => Window(recorded, proc.ids)

ReplayInv == Shapes /\ WindowInv /\ NoReplayWithinWindow

(* A verify runs only while the About machine waits for it or is refused,   *)
(* and what it is about to accept is recorded and newer.                    *)
ReplyIsDue ==
    /\ proc.pc # "idle" => about \in {"checking", "refused"}
    /\ proc.pc = "reply" => /\ proc.id \in ToSet(recorded)
                            /\ VersionOf[proc.id] > current_version

OfferInv ==
    /\ about \in AboutStates
    /\ current_version \in Nat
    /\ ReplyIsDue
    /\ OfferIsRecordedAndNewer

RevokedInv == epoch.revoked => epoch.manual_path /\ about = "refused"

-----------------------------------------------------------------------------
(* Replay.                                                                 *)

(* Inserting an id, and trimming, moves the window on by one.              *)
LEMMA InsertMovesWindow ==
    ASSUME NEW rec \in Seq(Manifests), NEW ids \in Seq(Manifests),
           NEW id \in Manifests
    PROVE  /\ Insert(ids, id) \in Seq(Manifests)
           /\ Window(rec, ids) => Window(Append(rec, id), Insert(ids, id))
<1> DEFINE long == Append(ids, id)
           from == Len(long) - MaxEntries + 1
<1>1. /\ long \in Seq(Manifests) /\ Len(long) = Len(ids) + 1
      /\ \A k \in 1..Len(ids) : long[k] = ids[k]
      /\ long[Len(long)] = id
  OBVIOUS
<1>2. /\ Append(rec, id) \in Seq(Manifests) /\ Len(Append(rec, id)) = Len(rec) + 1
      /\ \A k \in 1..Len(rec) : Append(rec, id)[k] = rec[k]
      /\ Append(rec, id)[Len(rec) + 1] = id
  OBVIOUS
<1>3. MaxEntries \in Nat \ {0}
  BY UpdateAssumption
<1>4. CASE Len(long) > MaxEntries
  <2>1. Insert(ids, id) = SubSeq(long, from, Len(long))
    BY <1>4 DEF Insert, Trim
  <2>2. /\ Insert(ids, id) \in Seq(Manifests)
        /\ Len(Insert(ids, id)) = MaxEntries
        /\ \A k \in 1..MaxEntries : Insert(ids, id)[k] = long[from + k - 1]
    <3>1. from \in Nat \ {0} /\ Len(long) \in Nat /\ Len(long) - from + 1 = MaxEntries
      BY <1>1, <1>3, <1>4
    <3>2. \A i \in from..Len(long) : long[i] \in Manifests
      BY <1>1, <3>1
    <3> HIDE DEF long, from
    <3>3. /\ SubSeq(long, from, Len(long)) \in Seq(Manifests)
          /\ Len(SubSeq(long, from, Len(long))) = MaxEntries
          /\ \A k \in 1..MaxEntries : SubSeq(long, from, Len(long))[k] = long[from + k - 1]
      BY <3>1, <3>2, <1>3, SubSeqProperties
    <3> QED BY <3>3, <2>1
  <2>3. ASSUME Window(rec, ids)
        PROVE  Window(Append(rec, id), Insert(ids, id))
    <3>1. Len(ids) = MaxEntries /\ Len(rec) >= MaxEntries
      BY <1>1, <1>3, <1>4, <2>3 DEF Window
    <3>2. ASSUME NEW k \in 1..MaxEntries
          PROVE  Insert(ids, id)[k] = Append(rec, id)[Len(rec) + 1 - MaxEntries + k]
      <4>1. CASE k = MaxEntries
        <5>1. Insert(ids, id)[k] = id
          BY <4>1, <1>1, <1>3, <2>2, <3>1
        <5>2. Len(rec) + 1 - MaxEntries + k = Len(rec) + 1
          BY <4>1, <1>3
        <5> QED BY <5>1, <5>2, <1>2
      <4>2. CASE k < MaxEntries
        <5>0. Len(rec) + 1 - MaxEntries + k \in Nat
          BY <1>3, <3>1
        <5>1. PICK j \in Nat : j = Len(rec) + 1 - MaxEntries + k
          BY <5>0, Zenon
        <5>2. j \in 1..Len(rec) /\ k + 1 \in 1..Len(ids) /\ Len(rec) - Len(ids) + (k + 1) = j
          BY <4>2, <5>1, <1>3, <3>1
        <5>3. Insert(ids, id)[k] = ids[k + 1]
          BY <4>2, <1>1, <1>3, <2>2, <3>1
        <5>4. ids[k + 1] = rec[j]
          BY <5>2, <2>3 DEF Window
        <5>5. Append(rec, id)[j] = rec[j]
          BY <5>2, <1>2
        <5> HIDE DEF long, from
        <5> QED BY <5>1, <5>3, <5>4, <5>5, Zenon
      <4>3. k = MaxEntries \/ k < MaxEntries
        BY <1>3
      <4> QED BY <4>1, <4>2, <4>3, Zenon
    <3>3. Len(Append(rec, id)) = Len(rec) + 1 /\ Len(rec) + 1 > MaxEntries
      BY <3>1, <1>2, <1>3
    <3>4. Len(Append(rec, id)) - Len(Insert(ids, id)) = Len(rec) + 1 - MaxEntries
      BY <3>3, <2>2, <1>3
    <3>5. ASSUME NEW k \in 1..Len(Insert(ids, id))
          PROVE  Insert(ids, id)[k]
                  = Append(rec, id)[Len(Append(rec, id)) - Len(Insert(ids, id)) + k]
      <4>1. k \in 1..MaxEntries
        BY <2>2
      <4>2. Insert(ids, id)[k] = Append(rec, id)[Len(rec) + 1 - MaxEntries + k]
        BY <4>1, <3>2
      <4> QED BY <4>2, <3>4, Zenon
    <3>6. Len(Insert(ids, id)) = IF Len(Append(rec, id)) <= MaxEntries
                                 THEN Len(Append(rec, id)) ELSE MaxEntries
      <4> HIDE DEF long, from
      <4> QED BY <3>1, <3>3, <1>3, <2>2
    <3> QED BY <3>5, <3>6, Zenon DEF Window
  <2> QED BY <2>2, <2>3
<1>5. CASE Len(long) <= MaxEntries
  <2>1. Insert(ids, id) = long
    BY <1>5, <1>1, <1>3 DEF Insert, Trim
  <2>2. ASSUME Window(rec, ids) PROVE Window(Append(rec, id), long)
    <3>1. Len(ids) = Len(rec)
      BY <2>2, <1>1, <1>3, <1>5 DEF Window
    <3>2. \A k \in 1..Len(ids) : ids[k] = rec[k]
      BY <2>2, <3>1 DEF Window
    <3> QED BY <3>1, <3>2, <1>1, <1>2, <1>3, <1>5 DEF Window
  <2> QED BY <2>1, <2>2, <1>1
<1> QED BY <1>1, <1>3, <1>4, <1>5

(* What is not in the window was not among the last MaxEntries.            *)
LEMMA OutsideWindow ==
    ASSUME NEW rec \in Seq(Manifests), NEW ids \in Seq(Manifests),
           Window(rec, ids), NEW id, id \notin ToSet(ids),
           NEW i \in DOMAIN rec, Len(rec) + 1 - i <= MaxEntries
    PROVE  rec[i] # id
<1> DEFINE k == i - Len(rec) + Len(ids)
<1>1. k \in 1..Len(ids)
  <2>1. i \in 1..Len(rec) /\ Len(rec) \in Nat /\ MaxEntries \in Nat
    BY UpdateAssumption
  <2>2. Len(ids) = IF Len(rec) <= MaxEntries THEN Len(rec) ELSE MaxEntries
    BY DEF Window
  <2> QED BY <2>1, <2>2
<1>2. ids[k] = rec[i]
  <2>1. ids[k] = rec[Len(rec) - Len(ids) + k]
    BY <1>1 DEF Window
  <2>2. Len(rec) - Len(ids) + k = i
    BY <1>1
  <2> QED BY <2>1, <2>2
<1>3. ids[k] \in ToSet(ids)
  BY <1>1 DEF ToSet
<1> QED BY <1>2, <1>3

(* A verify that accepts keeps the list free of repetitions within a window. *)
LEMMA AcceptedIsNew ==
    ASSUME NEW rec \in Seq(Manifests), NEW ids \in Seq(Manifests),
           Window(rec, ids), NEW id \in Manifests, id \notin ToSet(ids),
           \A i, j \in DOMAIN rec : i < j /\ j - i <= MaxEntries => rec[i] # rec[j],
           NEW i \in DOMAIN Append(rec, id), NEW j \in DOMAIN Append(rec, id),
           i < j, j - i <= MaxEntries
    PROVE  Append(rec, id)[i] # Append(rec, id)[j]
<1>1. /\ DOMAIN Append(rec, id) = 1..(Len(rec) + 1) /\ DOMAIN rec = 1..Len(rec)
      /\ \A k \in 1..Len(rec) : Append(rec, id)[k] = rec[k]
      /\ Append(rec, id)[Len(rec) + 1] = id
  OBVIOUS
<1>2. i \in DOMAIN rec /\ Append(rec, id)[i] = rec[i]
  BY <1>1
<1>3. CASE j = Len(rec) + 1
  <2>1. rec[i] # id
    BY <1>2, <1>3, OutsideWindow
  <2> QED BY <2>1, <1>1, <1>2, <1>3
<1>4. CASE j # Len(rec) + 1
  <2>1. j \in DOMAIN rec /\ Append(rec, id)[j] = rec[j]
    BY <1>1, <1>4
  <2> QED BY <2>1, <1>2
<1> QED BY <1>3, <1>4

(* The shapes, the window and the absence of replay hold in every           *)
(* reachable state.                                                        *)
THEOREM ReplayInvariant == Spec => []ReplayInv
<1>1. Init => ReplayInv
  <2> SUFFICES ASSUME Init PROVE ReplayInv
    OBVIOUS
  <2>1. /\ recorded = <<>> /\ seen.ids = <<>> /\ proc = Idle /\ proc.pc = "idle"
        /\ damaged = FALSE
    BY DEF Init, Idle
  <2>2. Window(<<>>, <<>>)
    BY UpdateAssumption DEF Window
  <2>3. WindowInv
    BY <2>1, <2>2 DEF WindowInv
  <2>4. Shapes
    <3>1. <<>> \in Seq(Manifests)
      OBVIOUS
    <3> QED BY <2>1, <3>1, Zenon DEF Shapes
  <2>5. DOMAIN recorded = {}
    BY <2>1
  <2> QED BY <2>3, <2>4, <2>5 DEF ReplayInv, NoReplayWithinWindow
<1>2. ReplayInv /\ [Next]_vars => ReplayInv'
  <2> SUFFICES ASSUME ReplayInv, [Next]_vars
               PROVE  ReplayInv'
    OBVIOUS
  <2>0. /\ Shapes /\ WindowInv /\ NoReplayWithinWindow
        /\ recorded \in Seq(Manifests) /\ seen.ids \in Seq(Manifests)
    BY DEF ReplayInv, Shapes
  <2>1. ASSUME UNCHANGED <<seen, recorded, damaged>>,
               \/ proc' = proc
               \/ proc' = Idle
               \/ \E env \in Envelope : proc' = Loaded(env, seen.ids)
        PROVE  ReplayInv'
    <3>1. NoReplayWithinWindow'
      BY <2>0, <2>1 DEF NoReplayWithinWindow
    <3>2. CASE proc' = proc
      <4>1. Shapes' /\ WindowInv'
        BY <2>0, <2>1, <3>2 DEF Shapes, WindowInv
      <4> QED BY <4>1, <3>1 DEF ReplayInv
    <3>3. CASE proc' = Idle
      <4>1. Shapes' /\ WindowInv'
        BY <2>0, <2>1, <3>3 DEF Shapes, WindowInv, Idle
      <4> QED BY <4>1, <3>1 DEF ReplayInv
    <3>4. CASE \E env \in Envelope : proc' = Loaded(env, seen.ids)
      <4>1. PICK env \in Envelope : proc' = Loaded(env, seen.ids)
        BY <3>4
      <4>2. proc'.pc = "loaded" /\ proc'.env = env /\ proc'.ids = seen.ids
        BY <4>1 DEF Loaded
      <4>3. Shapes' /\ WindowInv'
        BY <2>0, <2>1, <4>2 DEF Shapes, WindowInv
      <4> QED BY <4>3, <3>1 DEF ReplayInv
    <3> QED BY <2>1, <3>2, <3>3, <3>4
  <2>2. CASE Record
    <3>1. /\ proc.pc = "loaded" /\ proc.env \in Envelope /\ proc.ids \in Seq(Manifests)
          /\ proc.env.id \in Manifests /\ proc.env.id \notin ToSet(proc.ids)
      BY <2>0, <2>2 DEF Record, Shapes, Idle, Acceptable, Envelope
    <3>2. /\ seen'.ids = Insert(proc.ids, proc.env.id)
          /\ recorded' = Append(recorded, proc.env.id)
          /\ proc' = Replying(proc.env.id)
          /\ damaged' = damaged
      BY <2>2 DEF Record
    <3>3. Shapes'
      BY <2>0, <3>1, <3>2, InsertMovesWindow DEF Shapes, Replying
    <3>4. WindowInv'
      <4>1. ~damaged => Window(recorded', seen'.ids)
        BY <2>0, <3>1, <3>2, InsertMovesWindow DEF WindowInv
      <4> QED BY <4>1, <3>2 DEF WindowInv, Replying
    <3>5. NoReplayWithinWindow'
      <4> SUFFICES ASSUME ~damaged, NEW i \in DOMAIN recorded', NEW j \in DOMAIN recorded',
                          i < j, j - i <= MaxEntries
                   PROVE  recorded'[i] # recorded'[j]
        BY <3>2 DEF NoReplayWithinWindow
      <4>1. /\ Window(recorded, proc.ids)
            /\ \A x, y \in DOMAIN recorded :
                  x < y /\ y - x <= MaxEntries => recorded[x] # recorded[y]
        BY <2>0, <3>1 DEF WindowInv, NoReplayWithinWindow
      <4> QED BY <2>0, <3>1, <3>2, <4>1, AcceptedIsNew
    <3> QED BY <3>3, <3>4, <3>5 DEF ReplayInv
  <2>3. CASE DamageSeen
    <3>1. damaged' = TRUE /\ UNCHANGED <<proc, recorded>> /\ seen'.ids \in Seq(Manifests)
      BY <2>0, <2>3, SubSeqProperties DEF DamageSeen
    <3> QED BY <2>0, <3>1 DEF ReplayInv, Shapes, WindowInv, NoReplayWithinWindow
  <2>4. CASE Next /\ ~Record /\ ~DamageSeen
    BY <2>1, <2>4 DEF Next, Check, NoUpdate, Verify, Deny, Accept, Fail, Download, Install,
                      Reset, EpochApply
  <2>5. CASE UNCHANGED vars
    BY <2>1, <2>5 DEF vars
  <2> QED BY <2>2, <2>3, <2>4, <2>5
<1> QED BY <1>1, <1>2, PTL DEF Spec

(* No manifest is accepted twice within the last MaxEntries accepted ones,  *)
(* whatever is killed and whatever write fails, unless the seen file was    *)
(* damaged: VerifyUpdateResponse records before it accepts.                 *)
THEOREM NoReplay == Spec => []NoReplayWithinWindow
<1>1. ReplayInv => NoReplayWithinWindow
  BY DEF ReplayInv
<1> QED BY <1>1, ReplayInvariant, PTL

-----------------------------------------------------------------------------
(* Offers.                                                                 *)

(* Where each event of StepAboutState leads.                               *)
LEMMA AboutStep ==
    ASSUME NEW state \in AboutStates, NEW event, NEW next \in StepAboutState(state, event)
    PROVE  /\ next \in AboutStates
           /\ state = "refused" \/ event = "epoch-revoked" => next = "refused"
           /\ next \in Offering => state \in Offering \/ event = "offer"
           /\ next = "checking" => event = "check"
           /\ event = "error" => next \in {"failed", "refused"}
           /\ event = "offer" => next \in {"available", "refused"}
           /\ event = "reset" => next \in {"idle", "refused"}
           /\ state = "ready" /\ event = "install" => next = "idle"
  BY DEF StepAboutState, AboutTable, AboutStates, Offering

(* What is recorded stays recorded, and the new id is.                     *)
LEMMA AppendKeeps ==
    ASSUME NEW rec \in Seq(Manifests), NEW id \in Manifests
    PROVE  ToSet(rec) \cup {id} \subseteq ToSet(Append(rec, id))
<1>1. /\ DOMAIN Append(rec, id) = 1..(Len(rec) + 1) /\ DOMAIN rec = 1..Len(rec)
      /\ \A k \in 1..Len(rec) : Append(rec, id)[k] = rec[k]
      /\ Append(rec, id)[Len(rec) + 1] = id
      /\ Len(rec) + 1 \in 1..(Len(rec) + 1)
  OBVIOUS
<1>2. ASSUME NEW x \in ToSet(rec) PROVE x \in ToSet(Append(rec, id))
  BY <1>1 DEF ToSet
<1>3. id \in ToSet(Append(rec, id))
  BY <1>1 DEF ToSet
<1> QED BY <1>2, <1>3

(* The offer invariant holds in every reachable state.                      *)
THEOREM OfferInvariant == Spec => []OfferInv
<1>1. Init => OfferInv
  BY DEF Init, OfferInv, ReplyIsDue, OfferIsRecordedAndNewer, AboutStates, Idle
<1>2. ReplayInv /\ OfferInv /\ [Next]_vars => OfferInv'
  <2> SUFFICES ASSUME ReplayInv, OfferInv, [Next]_vars
               PROVE  OfferInv'
    OBVIOUS
  <2>0. /\ Shapes /\ about \in AboutStates /\ current_version \in Nat
        /\ ReplyIsDue /\ OfferIsRecordedAndNewer
    BY DEF ReplayInv, OfferInv
  <2> USE DEF Offering
  (* A step that leaves what is recorded, offered and installed alone, and  *)
  (* starts no offer.                                                       *)
  <2>1. ASSUME UNCHANGED <<recorded, offered, current_version>>,
               about' \in AboutStates,
               about' \in Offering => about \in Offering,
               proc'.pc # "reply" \/ proc' = proc,
               proc'.pc # "idle" => about' \in {"checking", "refused"}
        PROVE  OfferInv'
    BY <2>0, <2>1 DEF OfferInv, ReplyIsDue, OfferIsRecordedAndNewer
  <2>2. CASE Check
    BY <2>0, <2>1, <2>2, AboutStep DEF Check, Event, Idle
  <2>3. CASE NoUpdate
    BY <2>0, <2>1, <2>3, AboutStep DEF NoUpdate, Event, Idle
  <2>4. ASSUME NEW env \in Envelope, Verify(env) PROVE OfferInv'
    BY <2>0, <2>1, <2>4 DEF Verify, Loaded
  <2>5. CASE Deny
    BY <2>0, <2>1, <2>5, AboutStep DEF Deny, Event, Idle
  <2>6. CASE Record
    <3>1. /\ proc.env.id \in Manifests /\ recorded \in Seq(Manifests)
          /\ VersionOf[proc.env.id] > current_version /\ proc.pc = "loaded"
      BY <2>0, <2>6 DEF Record, Shapes, Idle, Envelope, Acceptable
    <3>2. ToSet(recorded) \cup {proc.env.id} \subseteq ToSet(recorded')
      BY <2>6, <3>1, AppendKeeps DEF Record
    <3>3. /\ proc'.pc = "reply" /\ proc'.id = proc.env.id
          /\ UNCHANGED <<current_version, about, offered>>
      BY <2>6 DEF Record, Replying
    <3> QED BY <2>0, <3>1, <3>2, <3>3 DEF OfferInv, ReplyIsDue, OfferIsRecordedAndNewer
  <2>7. CASE Accept
    <3>1. /\ proc.pc = "reply" /\ proc'.pc = "idle" /\ offered' = proc.id
          /\ UNCHANGED <<current_version, recorded>>
          /\ about' \in AboutStates /\ about' \in {"available", "refused"}
      BY <2>0, <2>7, AboutStep DEF Accept, Event, Idle
    <3> QED BY <2>0, <3>1 DEF OfferInv, ReplyIsDue, OfferIsRecordedAndNewer
  <2>8. CASE Fail
    BY <2>0, <2>1, <2>8, AboutStep DEF Fail, Event, Idle
  <2>9. ASSUME NEW event \in {"download-start", "download-done", "error"}, Download(event)
        PROVE  OfferInv'
    <3>1. proc.pc = "idle" /\ proc' = proc
      BY <2>0, <2>9 DEF Download, ReplyIsDue
    <3> QED BY <2>0, <2>1, <2>9, <3>1, AboutStep DEF Download, Event
  <2>10. CASE Install
    <3>1. /\ about = "ready" /\ about' = "idle" /\ proc' = proc /\ recorded' = recorded
          /\ current_version' = VersionOf[offered] /\ proc.pc = "idle"
      BY <2>0, <2>10, AboutStep DEF Install, Event, ReplyIsDue
    <3>2. VersionOf[offered] \in Nat
      <4>1. offered \in ToSet(recorded) /\ recorded \in Seq(Manifests)
        BY <2>0, <3>1 DEF OfferIsRecordedAndNewer, Shapes
      <4> QED BY <4>1, UpdateAssumption DEF ToSet
    <3> QED BY <3>1, <3>2 DEF OfferInv, ReplyIsDue, OfferIsRecordedAndNewer, AboutStates
  <2>11. CASE Reset
    BY <2>0, <2>1, <2>11, AboutStep DEF Reset, Event, Idle
  <2>12. ASSUME NEW notice \in Notice, EpochApply(notice) PROVE OfferInv'
    <3>1. about' = about \/ about' \in StepAboutState(about, "epoch-revoked")
      BY <2>12 DEF EpochApply, Event
    <3>2. about' \in AboutStates /\ (about' = about \/ about' = "refused")
      BY <2>0, <3>1, AboutStep
    <3>3. UNCHANGED <<recorded, offered, current_version, proc>>
      BY <2>12 DEF EpochApply
    <3> QED BY <2>0, <2>1, <3>2, <3>3 DEF ReplyIsDue
  <2>13. CASE DamageSeen
    BY <2>0, <2>1, <2>13 DEF DamageSeen, ReplyIsDue
  <2>14. CASE UNCHANGED vars
    BY <2>0, <2>1, <2>14 DEF vars, ReplyIsDue
  <2> QED BY <2>2, <2>3, <2>4, <2>5, <2>6, <2>7, <2>8, <2>9, <2>10, <2>11, <2>12,
             <2>13, <2>14 DEF Next
<1> QED BY <1>1, <1>2, ReplayInvariant, PTL DEF Spec

(* What the About page offers was recorded and is newer than what is        *)
(* installed, although versions are installed and notices arrive while a    *)
(* verify runs: the offer of VerifyUpdateResponse is fresh when shown.      *)
THEOREM OffersAreNewer == Spec => []OfferIsRecordedAndNewer
<1>1. OfferInv => OfferIsRecordedAndNewer
  BY DEF OfferInv
<1> QED BY <1>1, OfferInvariant, PTL

(* The installed version never goes back (VerifyUpdateResponse's monotone   *)
(* check, carried to the relaunch).                                         *)
THEOREM VersionNeverGoesBack == Spec => [][current_version' >= current_version]_vars
<1>1. ReplayInv /\ OfferInv /\ Next => current_version' >= current_version
  <2> SUFFICES ASSUME ReplayInv, OfferInv, Next
               PROVE  current_version' >= current_version
    OBVIOUS
  <2>1. CASE Install
    <3>1. VersionOf[offered] > current_version /\ offered \in ToSet(recorded)
      BY <2>1 DEF Install, OfferInv, OfferIsRecordedAndNewer
    <3>2. VersionOf[offered] \in Nat
      BY <3>1, UpdateAssumption DEF ToSet, ReplayInv, Shapes
    <3> QED BY <2>1, <3>1, <3>2 DEF Install, OfferInv
  <2>2. CASE ~Install
    <3>1. current_version' = current_version
      BY <2>2 DEF Next, Check, NoUpdate, Verify, Deny, Record, Accept, Fail, Download,
                  Reset, EpochApply, DamageSeen
    <3> QED BY <3>1 DEF OfferInv
  <2> QED BY <2>1, <2>2
<1> QED BY <1>1, OfferInvariant, ReplayInvariant, PTL DEF Spec

-----------------------------------------------------------------------------
(* The kill switch.                                                        *)

(* A revoked epoch forces the manual path and parks the About machine.      *)
THEOREM RevokedInvariant == Spec => []RevokedInv
<1>1. Init => RevokedInv
  BY DEF Init, RevokedInv, FreshEpoch, Trusting
<1>2. OfferInv /\ RevokedInv /\ [Next]_vars => RevokedInv'
  <2> SUFFICES ASSUME OfferInv, RevokedInv, [Next]_vars
               PROVE  RevokedInv'
    OBVIOUS
  <2>0. about \in AboutStates
    BY DEF OfferInv
  <2>1. ASSUME NEW notice \in Notice, EpochApply(notice) PROVE RevokedInv'
    <3>1. epoch'.revoked => epoch'.manual_path
      BY <2>1 DEF EpochApply, ApplyRevocation, RevokedInv
    <3>2. epoch'.revoked => about' = "refused"
      BY <2>0, <2>1, AboutStep DEF EpochApply, Event
    <3> QED BY <3>1, <3>2 DEF RevokedInv
  <2>2. ASSUME epoch' = epoch, about' = about \/ \E event : Event(event)
        PROVE  RevokedInv'
    BY <2>0, <2>2, AboutStep DEF RevokedInv, Event
  <2>3. CASE UNCHANGED vars
    BY <2>2, <2>3 DEF vars
  <2>4. CASE Next /\ ~\E notice \in Notice : EpochApply(notice)
    BY <2>2, <2>4 DEF Next, Check, NoUpdate, Verify, Deny, Record, Accept, Fail, Download,
                      Install, Reset, DamageSeen
  <2> QED BY <2>1, <2>3, <2>4
<1> QED BY <1>1, <1>2, OfferInvariant, PTL DEF Spec

(* The kill switch is final: the revocation and the manual path stay, and   *)
(* nothing is installed any more, whatever a running verify still accepts   *)
(* and whatever notice comes (ApplyRevocation, StepAboutState).             *)
THEOREM KillSwitchIsFinal == Spec => RevocationIsFinal
<1> DEFINE Final == epoch.revoked =>
                      /\ epoch'.revoked /\ epoch'.manual_path
                      /\ current_version' = current_version
<1>1. RevokedInv /\ [Next]_vars => [Final]_vars
  <2> SUFFICES ASSUME RevokedInv, Next, epoch.revoked
               PROVE  /\ epoch'.revoked /\ epoch'.manual_path
                      /\ current_version' = current_version
    OBVIOUS
  <2>1. epoch.manual_path /\ about = "refused"
    BY DEF RevokedInv
  <2>2. ~Install
    BY <2>1 DEF Install
  <2>3. CASE \E notice \in Notice : EpochApply(notice)
    BY <2>3 DEF EpochApply, ApplyRevocation
  <2>4. CASE ~\E notice \in Notice : EpochApply(notice)
    BY <2>1, <2>2, <2>4 DEF Next, Check, NoUpdate, Verify, Deny, Record, Accept, Fail,
                            Download, Reset, DamageSeen
  <2> QED BY <2>3, <2>4
<1> QED BY <1>1, RevokedInvariant, PTL DEF Spec, RevocationIsFinal
=============================================================================
