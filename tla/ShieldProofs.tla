---------------------------- MODULE ShieldProofs ----------------------------
(***************************************************************************)
(* The bundle slots of the shield for every set of bundles, every int      *)
(* width and every number of requests: what apply emits is the history of  *)
(* activations, and the host accepts it back.                              *)
(*                                                                         *)
(* The invariant that does it, SlotInv, adds two facts to                  *)
(* SlotsFollowHistory: two activations in a row are never of the same      *)
(* bundle and version (apply.cc refuses the re-offer), and the time of the *)
(* last one is not in the future.                                          *)
(*                                                                         *)
(* The exception scopes for every offer and clock: ScopeInv says that what *)
(* the caller holds has an int for its expiry and, unless it was added     *)
(* since, outlived the last sweep.  A toggle refused as already on is then *)
(* in force.                                                               *)
(*                                                                         *)
(* The matcher of filters for every text and every segments: searching     *)
(* each segment at its earliest place finds a placement if there is one.   *)
(***************************************************************************)
EXTENDS ShieldHost, PlacesProofs

Accepted == {b \in Bundles : b.parse = "ok"}
SlotOf(b) == Slot(b.name, b.digest, b.version)

History ==
    /\ Len(installed) = 0 => apply = NoState
    /\ Len(installed) >= 1 => apply.active = SlotOf(installed[Len(installed)])
    /\ Len(installed) = 1 => apply.lkg = EmptySlot /\ apply.pins = <<SlotOf(installed[1])>>
    /\ Len(installed) >= 2 =>
          /\ apply.lkg = SlotOf(installed[Len(installed) - 1])
          /\ apply.pins = <<SlotOf(installed[Len(installed) - 1]),
                            SlotOf(installed[Len(installed)])>>

NoRepeat ==
    Len(installed) >= 2 =>
        LET old == installed[Len(installed) - 1]
            new == installed[Len(installed)]
        IN  ~(old.name = new.name /\ old.version = new.version)

Types == now \in Nat /\ installed \in Seq(Accepted)
SlotInv == Types /\ (NumbersFit => /\ History
                                   /\ NoRepeat
                                   /\ apply.last_apply_mono \in -1..now)

-----------------------------------------------------------------------------
(* Narrowing leaves what fits in an int as it is.                          *)
LEMMA NarrowFits ==
    ASSUME NEW n \in -(IntMax + 1)..IntMax PROVE Narrow(n) = n
BY ShieldAssumption DEF Narrow

(* ... and with it a slot whose version fits.                              *)
LEMMA SlotStays ==
    ASSUME NEW id, NEW digest, NEW v \in Nat, v <= IntMax
    PROVE  SlotToJson(Slot(id, digest, v)) = Slot(id, digest, v)
<1>1. Narrow(v) = v
  BY NarrowFits, ShieldAssumption
<1>2. Slot(id, digest, v).present /\ Slot(id, digest, v).version = v
  BY DEF Slot
<1>3. Slot(id, digest, v) \in [present : {TRUE}, bundle_id : {id}, digest : {digest}, version : Nat]
  BY DEF Slot
<1>4. [Slot(id, digest, v) EXCEPT !.version = v] = Slot(id, digest, v)
  BY <1>2, <1>3
<1> QED BY <1>1, <1>2, <1>4 DEF SlotToJson

(* An empty slot is emitted as an empty slot.                               *)
LEMMA EmptyStays == SlotToJson(EmptySlot) = EmptySlot
BY DEF SlotToJson, EmptySlot

(* Every action but Apply leaves the activations alone, and time never     *)
(* goes back.                                                              *)
LEMMA OthersLeaveSlots ==
    ASSUME Types, Next, \A b \in Bundles : ~Apply(b)
    PROVE  UNCHANGED <<apply, installed>> /\ now' \in Nat /\ now' >= now
<1>1. ASSUME NEW s \in Offers, ExceptionAdd(s)
      PROVE  UNCHANGED <<apply, installed, now>>
  BY <1>1 DEF ExceptionAdd, ScopeRequest
<1>2. ASSUME NEW id, ExceptionRemove(id)
      PROVE  UNCHANGED <<apply, installed, now>>
  BY <1>2 DEF ExceptionRemove, ScopeRequest
<1>3. ASSUME ExceptionSweep PROVE UNCHANGED <<apply, installed, now>>
  BY <1>3 DEF ExceptionSweep, ScopeRequest
<1>4. ASSUME NEW site, NEW on, NEW expiry, SiteToggle(site, on, expiry)
      PROVE  UNCHANGED <<apply, installed, now>>
  BY <1>4 DEF SiteToggle, ScopeRequest
<1>5. ASSUME NEW ctx, NEW action, NEW size, EventEmit(ctx, action, size)
      PROVE  UNCHANGED <<apply, installed, now>>
  BY <1>5 DEF EventEmit
<1>6. ASSUME Tick PROVE UNCHANGED <<apply, installed>> /\ now' = now + 1
  BY <1>6 DEF Tick
<1> QED BY <1>1, <1>2, <1>3, <1>4, <1>5, <1>6 DEF Next, Types

(* An activation appends to the history.                                   *)
LEMMA ApplyKeepsSlots ==
    ASSUME SlotInv, NEW b \in Bundles, Apply(b) PROVE SlotInv'
<1> USE DEF SlotInv, Types
<1>0. now' = now
  BY DEF Apply
<1>1. CASE reply'.status # "ok"
  <2>1. UNCHANGED <<apply, installed, now>>
    BY <1>1, <1>0 DEF Apply
  <2> QED BY <2>1 DEF NumbersFit, History, NoRepeat
<1>2. CASE reply'.status = "ok"
  <2> DEFINE new == SlotOf(b)
             n == Len(installed)
             lkg == IF apply.active.present THEN apply.active ELSE apply.lkg
  <2>1. /\ b.parse = "ok" /\ ApplyRefusal(b, apply, now) = "ok"
        /\ apply' = ApplyStateToJson(ApplyBundle(b, apply, now))
        /\ installed' = Append(installed, b)
    BY <1>2 DEF Apply, ApplyReply, BundleReply, Malformed, Reject, Ok
  <2>2. b \in Accepted /\ b.version \in Nat \ {0}
    BY <2>1, BundlesAssumption DEF Accepted
  <2>3. /\ installed' \in Seq(Accepted) /\ Len(installed') = n + 1
        /\ installed'[n + 1] = b
        /\ \A i \in 1..n : installed'[i] = installed[i]
    BY <2>1, <2>2
  <2>4. SUFFICES ASSUME NumbersFit'
                 PROVE  History' /\ NoRepeat' /\ apply'.last_apply_mono \in -1..now'
    BY <2>3, <1>0
  <2>5. NumbersFit /\ b.version <= IntMax /\ now <= IntMax
    BY <2>3, <2>4, <1>0 DEF NumbersFit
  <2>6. \A i \in 1..n : /\ installed[i] \in Accepted
                        /\ installed[i].version \in Nat
                        /\ installed[i].version <= IntMax
    BY <2>5, BundlesAssumption DEF NumbersFit, Accepted
  <2>7. SlotToJson(new) = new
    BY <2>2, <2>5, SlotStays DEF SlotOf
  <2>8. apply' = [active |-> SlotToJson(new), lkg |-> SlotToJson(lkg),
                  pins |-> IF lkg.present THEN <<SlotToJson(lkg), SlotToJson(new)>>
                           ELSE <<SlotToJson(new)>>,
                  last_apply_mono |-> Narrow(now)]
    <3>1. CASE lkg.present
      BY <2>1, <3>1 DEF ApplyStateToJson, ApplyBundle, SlotOf
    <3>2. CASE ~lkg.present
      BY <2>1, <3>2 DEF ApplyStateToJson, ApplyBundle, SlotOf
    <3> QED BY <3>1, <3>2
  <2>9. apply'.last_apply_mono \in -1..now'
    BY <2>8, <2>5, <1>0, NarrowFits, ShieldAssumption
  <2>10. CASE n = 0
    <3>1. apply = NoState
      BY <2>5, <2>10 DEF History
    <3>2. lkg = EmptySlot /\ ~lkg.present
      BY <3>1 DEF NoState, EmptySlot
    <3>3. apply'.active = new /\ apply'.lkg = EmptySlot /\ apply'.pins = <<new>>
      BY <2>7, <2>8, <3>2, EmptyStays
    <3> QED BY <3>3, <2>3, <2>9, <2>10 DEF History, NoRepeat
  <2>11. CASE n >= 1
    <3> DEFINE old == installed[n]
    <3>1. apply.active = SlotOf(old) /\ apply.active.present /\ lkg = SlotOf(old)
      BY <2>5, <2>11 DEF History, SlotOf, Slot
    <3>2. SlotToJson(lkg) = SlotOf(old)
      BY <3>1, <2>6, <2>11, SlotStays DEF SlotOf
    <3>3. /\ apply'.active = new /\ apply'.lkg = SlotOf(old)
          /\ apply'.pins = <<SlotOf(old), new>>
      BY <2>7, <2>8, <3>1, <3>2
    <3>4. ~(b.name = old.name /\ b.version = old.version)
      BY <2>1, <2>2, <2>6, <2>11, <3>1 DEF ApplyRefusal, SlotOf, Slot
    <3>5. installed'[n] = old
      BY <2>3, <2>11
    <3> QED BY <3>3, <3>4, <3>5, <2>3, <2>9, <2>11 DEF History, NoRepeat
  <2> QED BY <2>10, <2>11
<1> QED BY <1>1, <1>2

(* Reached states are related by SlotInv.                                  *)
THEOREM SlotInvariant == Spec => []SlotInv
<1>1. Init => SlotInv
  BY DEF Init, SlotInv, Types, History, NoRepeat, NoState
<1>2. SlotInv /\ [Next]_vars => SlotInv'
  <2> SUFFICES ASSUME SlotInv, [Next]_vars PROVE SlotInv'
    OBVIOUS
  <2>1. CASE UNCHANGED vars
    BY <2>1 DEF SlotInv, Types, NumbersFit, History, NoRepeat, vars
  <2>2. ASSUME NEW b \in Bundles, Apply(b) PROVE SlotInv'
    BY <2>2, ApplyKeepsSlots
  <2>3. CASE Next /\ \A b \in Bundles : ~Apply(b)
    <3>1. UNCHANGED <<apply, installed>> /\ now' \in Nat /\ now' >= now
      BY <2>3, OthersLeaveSlots DEF SlotInv
    <3>2. NumbersFit' => NumbersFit
      BY <3>1, ShieldAssumption DEF NumbersFit, SlotInv, Types
    <3>3. History => History'
      BY <3>1 DEF History
    <3>4. NoRepeat => NoRepeat'
      BY <3>1 DEF NoRepeat
    <3> QED BY <3>1, <3>2, <3>3, <3>4 DEF SlotInv, Types
  <2> QED BY <2>1, <2>2, <2>3
<1> QED BY <1>1, <1>2, PTL DEF Spec

-----------------------------------------------------------------------------
(* The slots are the history of the activations (apply.cc), as long as no  *)
(* number outgrows int.                                                    *)
THEOREM SlotsAreHistory == Spec => []SlotsFollowHistory
<1>1. SlotInv => SlotsFollowHistory
  BY DEF SlotInv, History, SlotsFollowHistory, SlotOf
<1> QED BY <1>1, SlotInvariant, PTL

(* The state that apply returned is accepted with the next request.        *)
THEOREM HeldStateIsAccepted == Spec => [](NumbersFit => Accepts(apply))
<1>1. ASSUME SlotInv, NumbersFit PROVE Accepts(apply)
  <2> DEFINE n == Len(installed)
  <2>1. History /\ NoRepeat /\ apply.last_apply_mono \in -1..now /\ Types
    BY <1>1 DEF SlotInv
  <2>2. \A i \in 1..n : installed[i].version \in Nat \ {0}
    BY <2>1, BundlesAssumption DEF Types, Accepted
  <2>3. CASE n = 0
    BY <2>1, <2>3 DEF History, NoState, Accepts, ParseApplyState, ParseSlot,
         CheckInvariants, SameBundle, EmptySlot
  <2>4. n \in Nat
    BY <2>1 DEF Types
  <2>5. \A m \in 1..n : /\ SlotOf(installed[m]).present
                        /\ SlotOf(installed[m]).version \in Nat \ {0}
                        /\ SameBundle(SlotOf(installed[m]), SlotOf(installed[m]))
    BY <2>2 DEF SlotOf, Slot, SameBundle
  <2>6. ~EmptySlot.present
    BY DEF EmptySlot
  <2>7. apply.last_apply_mono >= -1
    BY <2>1 DEF Types
  <2>8. CASE n = 1
    <3> DEFINE a == SlotOf(installed[1])
    <3>1. apply.active = a /\ apply.lkg = EmptySlot /\ apply.pins = <<a>>
      BY <2>1, <2>8 DEF History
    <3>2. ParseApplyState(apply)
      BY <3>1, <2>5, <2>6, <2>7, <2>8 DEF ParseApplyState, ParseSlot
    <3>3. CheckInvariants(apply) = "ok"
      BY <3>1, <2>5, <2>6, <2>8 DEF CheckInvariants, SameBundle
    <3> QED BY <3>2, <3>3 DEF Accepts
  <2>9. CASE n >= 2
    <3> DEFINE a == SlotOf(installed[n - 1])
               b == SlotOf(installed[n])
    <3>1. apply.active = b /\ apply.lkg = a /\ apply.pins = <<a, b>>
      BY <2>1, <2>9, <2>4 DEF History
    <3>2. a.version >= 1 /\ b.version >= 1 /\ a.present /\ SameBundle(b, b)
      BY <2>5, <2>4, <2>9
    <3>3. ~SameBundle(a, b)
      BY <2>1, <2>9 DEF NoRepeat, SameBundle, SlotOf, Slot
    <3>4. ParseApplyState(apply)
      BY <3>1, <3>2, <2>7 DEF ParseApplyState, ParseSlot
    <3>5. CheckInvariants(apply) = "ok"
      BY <3>1, <3>2, <3>3 DEF CheckInvariants
    <3> QED BY <3>4, <3>5 DEF Accepts
  <2> QED BY <2>3, <2>4, <2>8, <2>9
<1> QED BY <1>1, SlotInvariant, PTL
(* A state the host did not emit, but accepted, leads to one it accepts.   *)
LEMMA StrayIsAccepted ==
    ASSUME now \in Nat, now <= IntMax, NEW b \in Bundles, NEW st \in Strays,
           ApplyReply(b, st).status = "ok", b.version <= IntMax, st.active.present
    PROVE  Accepts(ApplyReply(b, st).body)
<1> DEFINE new == SlotOf(b)
           old == st.active
           out == ApplyReply(b, st).body
<1>1. /\ b.parse = "ok" /\ ParseApplyState(st) /\ ApplyRefusal(b, st, now) = "ok"
      /\ out = ApplyStateToJson(ApplyBundle(b, st, now))
  BY DEF ApplyReply, BundleReply, Malformed, Reject, Ok
<1>2. b.version \in Nat \ {0}
  BY <1>1, BundlesAssumption
<1> DEFINE id == old.bundle_id
           digest == old.digest
           v == old.version
<1>3. v \in 0..IntMax /\ old = Slot(id, digest, v)
  BY StraysAssumption
<1>4. v \in Nat /\ v <= IntMax /\ old = Slot(id, digest, v)
  BY <1>3, ShieldAssumption
<1>5. SlotToJson(old) = old /\ SlotToJson(new) = new
  BY <1>2, <1>4, SlotStays DEF SlotOf
<1>6. old.version = v /\ old.bundle_id = id
  BY <1>4 DEF Slot
<1>7. v >= 1
  BY <1>1, <1>6 DEF ParseApplyState, ParseSlot
<1>8. out = [active |-> SlotToJson(new), lkg |-> SlotToJson(old),
             pins |-> <<SlotToJson(old), SlotToJson(new)>>, last_apply_mono |-> Narrow(now)]
  BY <1>1 DEF ApplyStateToJson, ApplyBundle, SlotOf
<1>9. Narrow(now) = now
  BY NarrowFits, ShieldAssumption
<1>10. new.present /\ new.version = b.version /\ new.bundle_id = b.name /\ old.present
  BY DEF SlotOf, Slot
<1>11. ~(b.name = id /\ b.version = v)
  BY <1>1, <1>2, <1>6, <1>10 DEF ApplyRefusal
<1> HIDE DEF new, old, out
<1>12. /\ out.active = new /\ out.lkg = old /\ out.pins = <<old, new>>
       /\ out.last_apply_mono = now
  BY <1>5, <1>8, <1>9
<1>13. ParseApplyState(out)
  BY <1>2, <1>6, <1>7, <1>10, <1>12 DEF ParseApplyState, ParseSlot
<1>14. ~SameBundle(old, new) /\ SameBundle(new, new)
  BY <1>6, <1>10, <1>11 DEF SameBundle
<1>15. CheckInvariants(out) = "ok"
  BY <1>12, <1>14 DEF CheckInvariants
<1> QED BY <1>13, <1>15 DEF Accepts, out

(* The host accepts back what it emits, from the states it emitted and     *)
(* from the others, as long as no number outgrows int.                     *)
THEOREM EmittedStateIsAccepted == Spec => []EmittedIsAccepted
<1>1. SlotInv /\ (NumbersFit => Accepts(apply)) => EmittedIsAccepted
  BY StrayIsAccepted DEF SlotInv, Types, EmittedIsAccepted
<1> QED BY <1>1, SlotInvariant, HeldStateIsAccepted, PTL

-----------------------------------------------------------------------------
(* The chip.                                                               *)

(* What each posture means, one line for each place of DecidePosture.      *)
LEMMA PostureTells ==
    ASSUME NEW in \in PostureInputs
    PROVE  /\ DecidePosture(in).reason \in PageStates
           /\ DecidePosture(in).chip = "green" <=> in = NormalInputs
           /\ DecidePosture(in).chip = "red" <=> ~in.route_bound
           /\ DecidePosture(in).mode = "fail-closed" <=> ~in.route_bound
           /\ DecidePosture(in).mode = "normal" <=> in = NormalInputs
           /\ DecidePosture(in).mode \in {"fail-closed", "fail-open", "normal"}
           /\ DecidePosture(in).chip \in {"red", "amber", "green"}
<1> DEFINE off == [NormalInputs EXCEPT !.kill_switch_on = TRUE]
<1>1. in = NormalInputs <=> /\ in.route_bound /\ in.engine_alive
                            /\ ~in.engine_poisoned /\ ~in.kill_switch_on
  BY DEF PostureInputs, NormalInputs
<1>2. in = off <=> /\ in.route_bound /\ in.engine_alive
                   /\ ~in.engine_poisoned /\ in.kill_switch_on
  <2>1. off = [route_bound |-> TRUE, engine_alive |-> TRUE,
               engine_poisoned |-> FALSE, kill_switch_on |-> TRUE]
    <3>1. /\ DOMAIN off = {"route_bound", "engine_alive", "engine_poisoned", "kill_switch_on"}
          /\ off.route_bound = TRUE /\ off.engine_alive = TRUE
          /\ off.engine_poisoned = FALSE /\ off.kill_switch_on = TRUE
      BY DEF NormalInputs
    <3>2. off \in PostureInputs
      BY DEF NormalInputs, PostureInputs
    <3> HIDE DEF off
    <3> QED BY <3>1, <3>2 DEF PostureInputs
  <2> HIDE DEF off
  <2> QED BY <2>1 DEF PostureInputs
<1> HIDE DEF off
<1>3. CASE ~in.route_bound
  <2>1. DecidePosture(in) = Posture("fail-closed", "red", "route-loss")
    BY <1>1, <1>2, <1>3 DEF DecidePosture, off
  <2> QED BY <1>1, <1>3, <2>1 DEF Posture, PageStates
<1>4. CASE in.route_bound /\ ~in.engine_alive
  <2>1. DecidePosture(in) = Posture("fail-open", "amber", "engine-dead")
    BY <1>1, <1>2, <1>4 DEF DecidePosture, off
  <2> QED BY <1>1, <1>4, <2>1 DEF Posture, PageStates
<1>5. CASE in.route_bound /\ in.engine_alive /\ in.engine_poisoned
  <2>1. DecidePosture(in) = Posture("fail-open", "amber", "engine-poisoned")
    BY <1>1, <1>2, <1>5 DEF DecidePosture, off
  <2> QED BY <1>1, <1>5, <2>1 DEF Posture, PageStates
<1>6. CASE in = off
  <2>1. DecidePosture(in) = Posture("fail-open", "amber", "kill-switch")
    BY <1>1, <1>2, <1>6 DEF DecidePosture, off
  <2> QED BY <1>1, <1>2, <1>6, <2>1 DEF Posture, PageStates
<1>7. CASE in = NormalInputs
  <2>1. DecidePosture(in) = Posture("normal", "green", "normal")
    BY <1>1, <1>2, <1>7 DEF DecidePosture, off
  <2> QED BY <1>1, <1>7, <2>1 DEF Posture, PageStates
<1> QED BY <1>1, <1>2, <1>3, <1>4, <1>5, <1>6, <1>7 DEF PostureInputs

(* The decision is what the chip tells.                                    *)
LEMMA DecisionTells ==
    ASSUME NEW in \in PostureInputs, NEW ctx, NEW hit, NEW have_bundle \in BOOLEAN, NEW set, NEW time
    PROVE  TellsTruth(DecidePosture(in).chip,
                      DecideMatch(ctx, have_bundle, hit, set, time, in).action, in,
                      have_bundle, hit, \E i \in DOMAIN set : Covers(set[i], ctx, hit, time))
<1> DEFINE p == DecidePosture(in)
           excepted == \E i \in DOMAIN set : Covers(set[i], ctx, hit, time)
           v == DecideMatch(ctx, have_bundle, hit, set, time, in)
           act == v.action
<1>1. /\ p.mode = "fail-closed" <=> ~in.route_bound
      /\ p.mode = "normal" <=> in = NormalInputs
      /\ p.mode \in {"fail-closed", "fail-open", "normal"}
      /\ p.chip = "red" <=> ~in.route_bound
      /\ p.chip = "green" <=> in = NormalInputs
      /\ p.chip = "amber" => p.mode = "fail-open"
      /\ p.chip \in {"red", "amber", "green"}
  BY PostureTells
<1>2. \A a, w, h : Verdict(a, w, h).action = a
  BY DEF Verdict
<1> HIDE DEF p, excepted
<1>3. p.mode = "fail-closed" => v = Verdict("block", WhyFromPosture(p), NoHit)
  BY DEF DecideMatch, p
<1>4. p.mode = "fail-open" => v = Verdict("allow", WhyFromPosture(p), NoHit)
  BY DEF DecideMatch, p
<1>5. /\ p.mode = "normal" /\ ~have_bundle => v = Verdict("allow", "no-bundle", NoHit)
      /\ p.mode = "normal" /\ have_bundle /\ hit = NoHit => v = Verdict("allow", "no-match", NoHit)
  BY DEF DecideMatch, p
<1>6. p.mode = "normal" /\ have_bundle /\ hit # NoHit =>
         v = IF hit.action # "allow" /\ excepted
             THEN Verdict("allow", "exception-scope", hit)
             ELSE Verdict(hit.action, WhyFromRule(hit.action), hit)
  BY DEF DecideMatch, p, excepted
<1> HIDE DEF v
<1>7. /\ p.mode = "fail-closed" => act = "block"
      /\ p.mode = "fail-open" => act = "allow"
      /\ p.mode = "normal" /\ (~have_bundle \/ hit = NoHit) => act = "allow"
  BY <1>2, <1>3, <1>4, <1>5
<1>8. p.mode = "normal" /\ have_bundle /\ hit # NoHit =>
         act = IF excepted THEN "allow" ELSE hit.action
  BY <1>2, <1>6
<1> HIDE DEF act
<1>9. TellsTruth(p.chip, act, in, have_bundle, hit, excepted)
  BY <1>1, <1>7, <1>8 DEF TellsTruth
<1> QED BY <1>9 DEF p, act, v, excepted

(* The chip tells what is done, for any scopes, hits, contexts and apply   *)
(* state, with a bundle and without one.                                   *)
THEOREM ChipIsHonest == Spec => []ChipTellsProtection
<1>1. ChipTellsProtection
  <2>1. ASSUME NEW in \in Postures, NEW e \in Enterprise, DebugPage("dev", in, e).status = "ok"
        PROVE  LET shown == DebugPage("dev", in, e)
               IN  /\ shown.body.posture.reason \in PageStates
                   /\ shown.body.posture.chip = "green" => in = NormalInputs /\ ~e.force_disabled
    <3> DEFINE in2 == [in EXCEPT !.kill_switch_on = @ \/ e.force_disabled]
    <3>0. in \in PostureInputs
      BY PosturesAssumption
    <3>1. DebugPage("dev", in, e).body.posture = DecidePosture(in2)
      BY <2>1 DEF DebugPage, Malformed, Ok
    <3>2. e.force_disabled \in BOOLEAN
      BY DEF Enterprise
    <3>3. in2 \in PostureInputs
      BY <3>0, <3>2 DEF PostureInputs
    <3>4. in2 = NormalInputs => in = NormalInputs /\ ~e.force_disabled
      BY <3>0, <3>2 DEF PostureInputs, NormalInputs
    <3> HIDE DEF in2
    <3> QED BY <3>1, <3>3, <3>4, PostureTells
  <2>2. ASSUME NEW in \in Postures, NEW ctx \in Contexts, NEW hit \in Hits,
               NEW have_bundle \in BOOLEAN, Match(ctx, hit, have_bundle, in).status = "ok"
        PROVE  LET m == Match(ctx, hit, have_bundle, in)
                   excepted == \E i \in DOMAIN scopes : Covers(scopes[i], ctx, hit, now)
               IN  TellsTruth(m.body.posture.chip, m.body.verdict.action, in, have_bundle, hit, excepted)
    <3> DEFINE m == Match(ctx, hit, have_bundle, in)
    <3>1. /\ m.body.posture = DecidePosture(in)
          /\ m.body.verdict = DecideMatch(ctx, have_bundle, hit, scopes, now, in)
      BY <2>2 DEF Match, Malformed, Ok
    <3>2. in \in PostureInputs
      BY PosturesAssumption
    <3> HIDE DEF m
    <3> QED BY <3>1, <3>2, DecisionTells DEF m
  <2> QED BY <2>1, <2>2 DEF ChipTellsProtection
<1> QED BY <1>1, PTL

-----------------------------------------------------------------------------
(* Exception scopes.                                                       *)

(* A held scope that a sweep has seen is one that was not expired then:    *)
(* what a request adds is fresh until the next sweep, and what the host    *)
(* emits has an expiry that another narrowing leaves alone.                *)
Survives(s, when, ids) == s.expiry_mono >= 0 /\ s.scope_id \notin ids => s.expiry_mono > when

HeldScope(s) ==
    /\ s = Scope(s.scope_id, s.limits, s.expiry_mono)
    /\ s.expiry_mono \in -(IntMax + 1)..IntMax

ScopeInv ==
    /\ now \in Nat
    /\ swept \in -1..now
    /\ IsSeq(scopes)
    /\ \A i \in DOMAIN scopes : HeldScope(scopes[i]) /\ Survives(scopes[i], swept, fresh)

(* Whatever is asked for, what is emitted is an int.                       *)
LEMMA NarrowIsInt ==
    ASSUME NEW n \in Int
    PROVE  Narrow(n) \in -(IntMax + 1)..IntMax
<1>1. CASE n \in -(IntMax + 1)..IntMax
  BY <1>1, NarrowFits
<1>2. CASE n \notin -(IntMax + 1)..IntMax
  <2> DEFINE w == 2 * (IntMax + 1)
             r == (n + IntMax + 1) % w
  <2>1. w \in Nat \ {0} /\ n + IntMax + 1 \in Int /\ IntMax \in Nat
    BY ShieldAssumption
  <2>2. r \in 0..(w - 1)
    <3> HIDE DEF w
    <3> QED BY <2>1
  <2>3. Narrow(n) = r - (IntMax + 1)
    BY <1>2 DEF Narrow
  <2> HIDE DEF r
  <2>4. r \in Int /\ 0 <= r /\ r <= 2 * (IntMax + 1) - 1
    BY <2>1, <2>2
  <2> QED BY <2>1, <2>3, <2>4
<1> QED BY <1>1, <1>2

EmitScope(s) == [s EXCEPT !.expiry_mono = Narrow(@)]

(* Emitting a scope changes its expiry at most, and a held one not at all. *)
LEMMA EmittedScope ==
    ASSUME NEW id, NEW limits, NEW expiry \in Int
    PROVE  LET s == Scope(id, limits, expiry)
           IN  /\ HeldScope(EmitScope(s)) /\ EmitScope(s).scope_id = id
               /\ expiry \in -(IntMax + 1)..IntMax => EmitScope(s) = s
<1> DEFINE s == Scope(id, limits, expiry)
           out == EmitScope(s)
<1>1. out = Scope(id, limits, Narrow(expiry))
  BY DEF Scope, EmitScope
<1>2. /\ Scope(id, limits, Narrow(expiry)).scope_id = id
      /\ Scope(id, limits, Narrow(expiry)).limits = limits
      /\ Scope(id, limits, Narrow(expiry)).expiry_mono = Narrow(expiry)
  BY DEF Scope
<1>3. HeldScope(Scope(id, limits, Narrow(expiry)))
  BY <1>2, NarrowIsInt DEF HeldScope
<1>4. expiry \in -(IntMax + 1)..IntMax => Scope(id, limits, Narrow(expiry)) = s
  BY NarrowFits
<1> HIDE DEF out
<1>5. HeldScope(out) /\ out.scope_id = id
  BY <1>1, <1>2, <1>3
<1>6. expiry \in -(IntMax + 1)..IntMax => out = s
  BY <1>1, <1>4
<1> QED BY <1>5, <1>6 DEF out

(* So what is held is emitted as it is.                                    *)
LEMMA HeldStays ==
    ASSUME NEW s, HeldScope(s)
    PROVE  EmitScope(s) = s
<1> DEFINE id == s.scope_id
           limits == s.limits
           expiry == s.expiry_mono
<1>1. s = Scope(id, limits, expiry) /\ expiry \in -(IntMax + 1)..IntMax
  BY DEF HeldScope
<1> HIDE DEF id, limits, expiry
<1>2. expiry \in Int
  BY <1>1, ShieldAssumption
<1>3. EmitScope(Scope(id, limits, expiry)) = Scope(id, limits, expiry)
  BY <1>1, <1>2, EmittedScope
<1> QED BY <1>1, <1>3

(* Emitting held scopes leaves them as they are.                           *)
LEMMA HeldIsEmitted ==
    ASSUME NEW set, IsSeq(set), \A i \in DOMAIN set : HeldScope(set[i])
    PROVE  /\ IsSeq(ScopeSetToJson(set)) /\ DOMAIN ScopeSetToJson(set) = DOMAIN set
           /\ \A i \in DOMAIN set : ScopeSetToJson(set)[i] = set[i]
<1> DEFINE out == ScopeSetToJson(set)
<1>1. Len(set) \in Nat /\ DOMAIN set = 1..Len(set)
  BY SeqShape
<1>2. \A i \in DOMAIN set : EmitScope(set[i]) = set[i]
  BY HeldStays
<1>3. out = [i \in DOMAIN set |-> EmitScope(set[i])]
  BY DEF ScopeSetToJson, EmitScope
<1> HIDE DEF out
<1>4. DOMAIN out = 1..Len(set) /\ \A i \in DOMAIN set : out[i] = set[i]
  BY <1>1, <1>2, <1>3
<1>5. out = [i \in 1..Len(set) |-> out[i]]
  BY <1>1, <1>3
<1>6. IsSeq(out)
  BY <1>1, <1>4, <1>5, FunctionIsSeq
<1> QED BY <1>1, <1>4, <1>6 DEF out

(* What leaves the set takes nothing else with it.                         *)
LEMMA WithoutScopes ==
    ASSUME ScopeInv, NEW ids
    PROVE  LET out == ScopeSetToJson(Without(scopes, ids))
           IN  /\ IsSeq(out)
               /\ \A k \in DOMAIN out : \E i \in DOMAIN scopes :
                     out[k] = scopes[i] /\ scopes[i].scope_id \notin ids
<1> DEFINE at == {i \in DOMAIN scopes : scopes[i].scope_id \notin ids}
           kept == Without(scopes, ids)
<1>1. at \in SUBSET DOMAIN scopes /\ kept = Keep(scopes, at)
  BY DEF Without
<1>2. \A i \in at : scopes[i].scope_id \notin ids
  OBVIOUS
<1> HIDE DEF at, kept
<1>3. /\ IsSeq(kept)
      /\ \A k \in DOMAIN kept : Nth(k, at) \in at /\ kept[k] = scopes[Nth(k, at)]
  BY <1>1, KeptMembers DEF ScopeInv
<1>4. \A k \in DOMAIN kept : HeldScope(kept[k])
  BY <1>1, <1>3 DEF ScopeInv
<1>5. /\ IsSeq(ScopeSetToJson(kept)) /\ DOMAIN ScopeSetToJson(kept) = DOMAIN kept
      /\ \A k \in DOMAIN kept : ScopeSetToJson(kept)[k] = kept[k]
  BY <1>3, <1>4, HeldIsEmitted
<1> QED BY <1>1, <1>2, <1>3, <1>5 DEF kept

(* What joins the set is emitted after the others, as an int.              *)
LEMMA AddedScope ==
    ASSUME ScopeInv, NEW id, NEW limits, NEW expiry \in Int
    PROVE  LET out == ScopeSetToJson(Append(scopes, Scope(id, limits, expiry)))
           IN  /\ IsSeq(out) /\ DOMAIN out = 1..(Len(scopes) + 1)
               /\ DOMAIN scopes = 1..Len(scopes) /\ Len(scopes) \in Nat
               /\ \A i \in DOMAIN scopes : out[i] = scopes[i]
               /\ HeldScope(out[Len(scopes) + 1])
               /\ out[Len(scopes) + 1].scope_id = id
<1> DEFINE s == Scope(id, limits, expiry)
           longer == Append(scopes, s)
           n == Len(scopes)
           out == ScopeSetToJson(longer)
<1>1. /\ n \in Nat /\ DOMAIN scopes = 1..n /\ DOMAIN longer = 1..(n + 1)
      /\ \A i \in 1..n : longer[i] = scopes[i]
      /\ longer[n + 1] = s
  BY SeqShape DEF ScopeInv
<1> HIDE DEF longer, n
<1>2. out = [i \in 1..(n + 1) |-> EmitScope(longer[i])]
  BY <1>1 DEF ScopeSetToJson, EmitScope
<1>3. HeldScope(EmitScope(s)) /\ EmitScope(s).scope_id = id
  BY EmittedScope
<1>4. \A i \in 1..n : EmitScope(longer[i]) = scopes[i]
  BY <1>1, HeldStays DEF ScopeInv
<1> HIDE DEF s, out
<1>5. /\ DOMAIN out = 1..(n + 1)
      /\ \A i \in 1..n : out[i] = scopes[i]
      /\ out[n + 1] = EmitScope(s)
  BY <1>1, <1>2, <1>4
<1>6. IsSeq(out)
  <2>1. out = [i \in 1..(n + 1) |-> out[i]]
    BY <1>2
  <2>2. n + 1 \in Nat
    BY <1>1
  <2> QED BY <1>5, <2>1, <2>2, FunctionIsSeq
<1> QED BY <1>1, <1>3, <1>5, <1>6 DEF out, longer, s, n

(* A request that adds a scope under an id nobody has.                     *)
LEMMA AddKeepsScopes ==
    ASSUME ScopeInv, NEW id, NEW limits, NEW expiry \in Int, id \notin ScopeIds(scopes),
           scopes' = ScopeSetToJson(Append(scopes, Scope(id, limits, expiry))),
           now' = now, NoSweep
    PROVE  ScopeInv'
<1> DEFINE n == Len(scopes)
<1>1. /\ IsSeq(scopes') /\ DOMAIN scopes' = 1..(n + 1)
      /\ DOMAIN scopes = 1..n /\ n \in Nat
      /\ \A i \in DOMAIN scopes : scopes'[i] = scopes[i]
      /\ HeldScope(scopes'[n + 1]) /\ scopes'[n + 1].scope_id = id
  BY AddedScope
<1>2. /\ fresh' = (fresh \cup (ScopeIds(scopes') \ ScopeIds(scopes))) \cap ScopeIds(scopes')
      /\ swept' = swept
  BY DEF NoSweep
<1>3. \A i \in DOMAIN scopes' : scopes'[i].scope_id \in ScopeIds(scopes')
  BY DEF ScopeIds
<1>4. id \in fresh'
  <2>1. n + 1 \in DOMAIN scopes'
    BY <1>1
  <2> QED BY <1>1, <1>2, <1>3, <2>1
<1>5. ASSUME NEW i \in DOMAIN scopes'
      PROVE  HeldScope(scopes'[i]) /\ Survives(scopes'[i], swept', fresh')
  <2>1. CASE i = n + 1
    BY <1>1, <1>4, <2>1 DEF Survives
  <2>2. CASE i # n + 1
    <3>1. i \in DOMAIN scopes /\ scopes'[i] = scopes[i]
      BY <1>1, <2>2
    <3>2. scopes[i].scope_id \in fresh => scopes[i].scope_id \in fresh'
      BY <1>2, <1>3, <3>1
    <3> QED BY <1>2, <3>1, <3>2 DEF ScopeInv, Survives
  <2> QED BY <2>1, <2>2
<1> QED BY <1>1, <1>2, <1>5 DEF ScopeInv

(* A request that takes scopes away.                                       *)
LEMMA RemoveKeepsScopes ==
    ASSUME ScopeInv, NEW ids, scopes' = ScopeSetToJson(Without(scopes, ids)),
           now' = now, NoSweep
    PROVE  ScopeInv'
<1>1. /\ IsSeq(scopes')
      /\ \A k \in DOMAIN scopes' : \E i \in DOMAIN scopes : scopes'[k] = scopes[i]
  BY WithoutScopes
<1>2. /\ fresh' = (fresh \cup (ScopeIds(scopes') \ ScopeIds(scopes))) \cap ScopeIds(scopes')
      /\ swept' = swept
  BY DEF NoSweep
<1>3. \A k \in DOMAIN scopes' : scopes'[k].scope_id \in ScopeIds(scopes')
  BY DEF ScopeIds
<1>4. \A k \in DOMAIN scopes' : scopes'[k].scope_id \in fresh => scopes'[k].scope_id \in fresh'
  BY <1>2, <1>3
<1>5. \A k \in DOMAIN scopes' : HeldScope(scopes'[k]) /\ Survives(scopes'[k], swept', fresh')
  BY <1>1, <1>2, <1>4 DEF ScopeInv, Survives
<1> QED BY <1>1, <1>2, <1>5 DEF ScopeInv

(* A request that leaves the set alone.                                    *)
LEMMA SameScopes ==
    ASSUME ScopeInv, scopes' = scopes, now' = now, NoSweep \/ UNCHANGED <<swept, fresh>>
    PROVE  ScopeInv'
<1>1. \A i \in DOMAIN scopes : scopes[i].scope_id \in ScopeIds(scopes)
  BY DEF ScopeIds
<1>2. /\ swept' = swept
      /\ \A i \in DOMAIN scopes : scopes[i].scope_id \in fresh => scopes[i].scope_id \in fresh'
  BY <1>1 DEF NoSweep
<1> QED BY <1>2 DEF ScopeInv, Survives

(* What a request for the scopes may do to them.                           *)
LEMMA ScopeReplies ==
    ASSUME NEW method, NEW r, ScopeRequest(method, r)
    PROVE  /\ now' = now
           /\ \/ scopes' = scopes /\ reply'.status # "ok"
              \/ scopes' = r.body /\ r.status = "ok" /\ reply' = r
BY DEF ScopeRequest, Malformed

(* Every step keeps the invariant: only a sweep looks at the clock, and it *)
(* leaves nothing that had expired by then.                                *)
LEMMA StepKeepsScopes ==
    ASSUME ScopeInv, [Next]_vars
    PROVE  ScopeInv'
<1>1. ASSUME NEW b \in Bundles, Apply(b) PROVE ScopeInv'
  BY <1>1, SameScopes DEF Apply
<1>2. ASSUME NEW s \in Offers, ExceptionAdd(s) PROVE ScopeInv'
  <2> DEFINE out == Emitted("exception-add", Append(scopes, s))
             r == IF s.expiry_mono < -1 THEN Malformed("exception-add")
                  ELSE IF s.scope_id \in ScopeIds(scopes)
                  THEN Reject("exception-add", "duplicate-scope-id")
                  ELSE out
  <2>1. ScopeRequest("exception-add", r) /\ NoSweep
    BY <1>2 DEF ExceptionAdd
  <2>2. r.status = "ok" => s.scope_id \notin ScopeIds(scopes) /\ r = out
    BY DEF Malformed, Reject
  <2>3. out.body = ScopeSetToJson(Append(scopes, s))
    BY DEF Emitted, Ok
  <2>4. s = Scope(s.scope_id, s.limits, s.expiry_mono) /\ s.expiry_mono \in Int
    BY OffersAssumption
  <2> HIDE DEF r, out
  <2>5. now' = now /\ (scopes' = scopes \/ (r.status = "ok" /\ scopes' = r.body))
    BY <2>1, ScopeReplies
  <2>6. CASE scopes' = scopes
    BY <2>1, <2>5, <2>6, SameScopes
  <2>7. CASE r.status = "ok" /\ scopes' = r.body
    <3> DEFINE id == s.scope_id
               limits == s.limits
               expiry == s.expiry_mono
    <3>1. /\ id \notin ScopeIds(scopes) /\ expiry \in Int
          /\ scopes' = ScopeSetToJson(Append(scopes, Scope(id, limits, expiry)))
      BY <2>2, <2>3, <2>4, <2>7
    <3> HIDE DEF id, limits, expiry
    <3> QED BY <2>1, <2>5, <3>1, AddKeepsScopes
  <2> QED BY <2>5, <2>6, <2>7
<1>3. ASSUME NEW id, ExceptionRemove(id) PROVE ScopeInv'
  <2> DEFINE out == Emitted("exception-remove", Without(scopes, {id}))
             r == IF id \in ScopeIds(scopes) THEN out
                  ELSE Reject("exception-remove", "unknown-scope-id")
  <2>1. ScopeRequest("exception-remove", r) /\ NoSweep
    BY <1>3 DEF ExceptionRemove
  <2>2. r.status = "ok" => r = out
    BY DEF Reject
  <2>3. out.body = ScopeSetToJson(Without(scopes, {id}))
    BY DEF Emitted, Ok
  <2> HIDE DEF r, out
  <2>4. now' = now /\ (scopes' = scopes \/ scopes' = ScopeSetToJson(Without(scopes, {id})))
    BY <2>1, <2>2, <2>3, ScopeReplies
  <2> QED BY <2>1, <2>4, SameScopes, RemoveKeepsScopes
<1>4. CASE ExceptionSweep
  <2> DEFINE ids == SweepAsOf(scopes, now).expired
             r == Emitted("exception-sweep", Without(scopes, ids))
  <2>1. /\ ScopeRequest("exception-sweep", r)
        /\ IF reply'.status = "ok" THEN swept' = now /\ fresh' = {} ELSE UNCHANGED <<swept, fresh>>
    BY <1>4 DEF ExceptionSweep
  <2>2. r.body = ScopeSetToJson(Without(scopes, ids)) /\ r.status = "ok"
    BY DEF Emitted, Ok
  <2>3. \A i \in DOMAIN scopes : Expired(scopes[i], now) => scopes[i].scope_id \in ids
    BY DEF SweepAsOf
  <2> HIDE DEF ids, r
  <2>4. /\ now' = now
        /\ \/ scopes' = scopes /\ reply'.status # "ok"
           \/ scopes' = r.body /\ reply' = r
    BY <2>1, ScopeReplies
  <2>5. CASE scopes' = scopes /\ reply'.status # "ok"
    BY <2>1, <2>4, <2>5, SameScopes
  <2>6. CASE scopes' = r.body /\ reply' = r
    <3>1. swept' = now /\ fresh' = {} /\ scopes' = ScopeSetToJson(Without(scopes, ids))
      BY <2>1, <2>2, <2>6
    <3>2. /\ IsSeq(scopes')
          /\ \A k \in DOMAIN scopes' : \E i \in DOMAIN scopes :
                scopes'[k] = scopes[i] /\ scopes[i].scope_id \notin ids
      BY <3>1, WithoutScopes
    <3>3. ASSUME NEW i \in DOMAIN scopes, scopes[i].scope_id \notin ids
          PROVE  HeldScope(scopes[i]) /\ Survives(scopes[i], now, {})
      <4>1. HeldScope(scopes[i]) /\ ~Expired(scopes[i], now)
        BY <2>3, <3>3 DEF ScopeInv
      <4>2. scopes[i].expiry_mono \in Int /\ now \in Int
        BY <4>1 DEF HeldScope, ScopeInv
      <4> QED BY <4>1, <4>2 DEF Expired, Survives
    <3>4. \A k \in DOMAIN scopes' : HeldScope(scopes'[k]) /\ Survives(scopes'[k], swept', fresh')
      BY <3>1, <3>2, <3>3
    <3>5. now' \in Nat /\ swept' \in -1..now'
      BY <2>4, <3>1 DEF ScopeInv
    <3> QED BY <3>2, <3>4, <3>5 DEF ScopeInv
  <2> QED BY <2>4, <2>5, <2>6
<1>5. ASSUME NEW site \in Sites, NEW on \in BOOLEAN, NEW expiry \in -1..MaxTime,
             SiteToggle(site, on, expiry)
      PROVE  ScopeInv'
  <2> DEFINE id == ToggleId(site)
             added == Emitted("site-toggle", Append(scopes, ToggleScope(site, expiry)))
             removed == Emitted("site-toggle", Without(scopes, {id}))
             r == IF on /\ id \in ScopeIds(scopes)
                  THEN [method |-> "site-toggle", status |-> "rejected",
                        detail |-> "toggle-already-on", site |-> site]
                  ELSE IF on THEN added
                  ELSE IF id \in ScopeIds(scopes) THEN removed
                  ELSE Reject("site-toggle", "toggle-already-off")
  <2>1. ScopeRequest("site-toggle", r) /\ NoSweep
    BY <1>5 DEF SiteToggle
  <2>2. r.status = "ok" => \/ r = added /\ id \notin ScopeIds(scopes)
                           \/ r = removed
    BY DEF Reject
  <2> DEFINE limits == [NoLimits EXCEPT !["site"] = site]
  <2>3. /\ added.body = ScopeSetToJson(Append(scopes, Scope(id, limits, expiry)))
        /\ removed.body = ScopeSetToJson(Without(scopes, {id}))
    BY DEF Emitted, Ok, ToggleScope
  <2>4. expiry \in Int
    OBVIOUS
  <2> HIDE DEF r, added, removed, id, limits
  <2>5. /\ now' = now
        /\ \/ scopes' = scopes
           \/ /\ id \notin ScopeIds(scopes)
              /\ scopes' = ScopeSetToJson(Append(scopes, Scope(id, limits, expiry)))
           \/ scopes' = ScopeSetToJson(Without(scopes, {id}))
    BY <2>1, <2>2, <2>3, ScopeReplies
  <2> QED BY <2>1, <2>4, <2>5, SameScopes, AddKeepsScopes, RemoveKeepsScopes
<1>6. ASSUME NEW ctx, NEW action, NEW size, EventEmit(ctx, action, size) PROVE ScopeInv'
  BY <1>6, SameScopes DEF EventEmit
<1>7. CASE Tick
  BY <1>7 DEF Tick, ScopeInv, Survives
<1>8. CASE UNCHANGED vars
  BY <1>8, SameScopes DEF vars
<1> QED BY <1>1, <1>2, <1>3, <1>4, <1>5, <1>6, <1>7, <1>8 DEF Next

(* The scopes a caller may hold, whatever it asks for and however often.   *)
THEOREM ScopeInvariant == Spec => []ScopeInv
<1>1. Init => ScopeInv
  <2> SUFFICES ASSUME Init PROVE ScopeInv
    OBVIOUS
  <2>1. scopes = <<>> /\ swept = -1 /\ now = 0
    BY DEF Init
  <2>2. IsSeq(<<>>)
    BY DEF IsSeq
  <2> QED BY <2>1, <2>2 DEF ScopeInv
<1> QED BY <1>1, StepKeepsScopes, PTL DEF Spec

(* Who was told that a toggle is on holds a scope under its id.            *)
RefusalInv ==
    reply.method = "site-toggle" /\ reply.status = "rejected" =>
        \/ reply.detail = "toggle-already-off"
        \/ ToggleId(reply.site) \in ScopeIds(scopes)

(* Every request but a toggle's is answered in its own name.               *)
LEMMA StepKeepsRefusal ==
    ASSUME RefusalInv, [Next]_vars
    PROVE  RefusalInv'
<1>1. ASSUME NEW b \in Bundles, Apply(b) PROVE RefusalInv'
  <2>1. reply' = ApplyReply(b, apply)
    BY <1>1 DEF Apply
  <2>2. ApplyReply(b, apply).method = "apply"
    BY DEF ApplyReply, BundleReply, Malformed, Reject, Ok
  <2> QED BY <2>1, <2>2 DEF RefusalInv
<1>2. ASSUME NEW method, NEW r, ScopeRequest(method, r), method # "site-toggle",
             r.method = method
      PROVE  RefusalInv'
  <2>1. reply'.method = method
    BY <1>2 DEF ScopeRequest, Malformed
  <2> QED BY <1>2, <2>1 DEF RefusalInv
<1>3. ASSUME NEW s \in Offers, ExceptionAdd(s) PROVE RefusalInv'
  <2> DEFINE r == IF s.expiry_mono < -1 THEN Malformed("exception-add")
                  ELSE IF s.scope_id \in ScopeIds(scopes)
                  THEN Reject("exception-add", "duplicate-scope-id")
                  ELSE Emitted("exception-add", Append(scopes, s))
  <2>1. ScopeRequest("exception-add", r)
    BY <1>3 DEF ExceptionAdd
  <2>2. r.method = "exception-add"
    BY DEF Malformed, Reject, Emitted, Ok
  <2> HIDE DEF r
  <2> QED BY <1>2, <2>1, <2>2
<1>4. ASSUME NEW id, ExceptionRemove(id) PROVE RefusalInv'
  <2> DEFINE r == IF id \in ScopeIds(scopes)
                  THEN Emitted("exception-remove", Without(scopes, {id}))
                  ELSE Reject("exception-remove", "unknown-scope-id")
  <2>1. ScopeRequest("exception-remove", r)
    BY <1>4 DEF ExceptionRemove
  <2>2. r.method = "exception-remove"
    BY DEF Reject, Emitted, Ok
  <2> HIDE DEF r
  <2> QED BY <1>2, <2>1, <2>2
<1>5. CASE ExceptionSweep
  <2> DEFINE r == Emitted("exception-sweep", Without(scopes, SweepAsOf(scopes, now).expired))
  <2>1. ScopeRequest("exception-sweep", r)
    BY <1>5 DEF ExceptionSweep
  <2>2. r.method = "exception-sweep"
    BY DEF Emitted, Ok
  <2> HIDE DEF r
  <2> QED BY <1>2, <2>1, <2>2
<1>6. ASSUME NEW site \in Sites, NEW on \in BOOLEAN, NEW expiry \in -1..MaxTime,
             SiteToggle(site, on, expiry)
      PROVE  RefusalInv'
  <2> DEFINE id == ToggleId(site)
             refused == [method |-> "site-toggle", status |-> "rejected",
                         detail |-> "toggle-already-on", site |-> site]
             added == Emitted("site-toggle", Append(scopes, ToggleScope(site, expiry)))
             removed == Emitted("site-toggle", Without(scopes, {id}))
             r == IF on /\ id \in ScopeIds(scopes) THEN refused
                  ELSE IF on THEN added
                  ELSE IF id \in ScopeIds(scopes) THEN removed
                  ELSE Reject("site-toggle", "toggle-already-off")
  <2>1. ScopeRequest("site-toggle", r)
    BY <1>6 DEF SiteToggle
  <2>2. \/ r = refused /\ id \in ScopeIds(scopes)
        \/ r.status = "ok"
        \/ r.status = "rejected" /\ r.detail = "toggle-already-off"
    BY DEF Reject, Emitted, Ok
  <2> HIDE DEF r
  <2>3. reply' = r \/ reply'.status = "malformed"
    BY <2>1 DEF ScopeRequest, Malformed
  <2>4. reply'.status # "ok" => scopes' = scopes
    BY <2>1 DEF ScopeRequest
  <2>5. CASE reply' = r /\ r = refused /\ id \in ScopeIds(scopes)
    <3>1. reply'.site = site /\ reply'.status # "ok"
      BY <2>5
    <3>2. ScopeIds(scopes') = ScopeIds(scopes)
      BY <2>4, <3>1
    <3> QED BY <2>5, <3>1, <3>2 DEF RefusalInv
  <2> QED BY <2>2, <2>3, <2>5 DEF RefusalInv
<1>7. ASSUME NEW ctx, NEW action, NEW size, EventEmit(ctx, action, size) PROVE RefusalInv'
  BY <1>7 DEF EventEmit, Ok, RefusalInv
<1>8. CASE Tick
  BY <1>8 DEF Tick, NoReply, RefusalInv
<1>9. CASE UNCHANGED vars
  BY <1>9 DEF vars, RefusalInv, ScopeIds
<1> QED BY <1>1, <1>3, <1>4, <1>5, <1>6, <1>7, <1>8, <1>9 DEF Next

(* A toggle refused as already on is in force for every request of its     *)
(* site, unless it has expired since the last sweep or was not a toggle    *)
(* (shield_host.cc: site-toggle), for any sites, scopes and clocks.        *)
THEOREM RefusedToggleHolds == Spec => []RefusedToggleIsInForce
<1>1. ScopeInv /\ RefusalInv => RefusedToggleIsInForce
  <2> SUFFICES ASSUME ScopeInv, NEW i \in DOMAIN scopes, scopes[i].scope_id = ToggleId(reply.site)
               PROVE  LET s == scopes[i]
                      IN  \/ s.limits # ToggleScope(reply.site, 0).limits
                          \/ Expired(s, now) /\ (swept < s.expiry_mono \/ s.scope_id \in fresh)
                          \/ \A ctx \in Contexts, hit \in Hits :
                                ctx.site = reply.site => Covers(s, ctx, hit, now)
    BY DEF RefusalInv, RefusedToggleIsInForce, ScopeIds
  <2> DEFINE s == scopes[i]
             site == reply.site
  <2>1. /\ s.expiry_mono \in Int /\ Survives(s, swept, fresh)
    BY ShieldAssumption DEF ScopeInv, HeldScope
  <2>2. swept \in Int
    BY DEF ScopeInv
  <2>3. ASSUME Expired(s, now) PROVE swept < s.expiry_mono \/ s.scope_id \in fresh
    BY <2>1, <2>2, <2>3 DEF Expired, Survives
  <2>4. ASSUME ~Expired(s, now), s.limits = ToggleScope(site, 0).limits,
               NEW ctx \in Contexts, NEW hit \in Hits, ctx.site = site
        PROVE  Covers(s, ctx, hit, now)
    <3>1. /\ s.limits["site"] = site
          /\ \A f \in ScopeFields \ {"site"} : s.limits[f] = Unset
      BY <2>4 DEF ToggleScope, Scope, NoLimits, ScopeFields
    <3>2. Subject(ctx, hit)["site"] = site
      BY <2>4 DEF Subject
    <3> HIDE DEF s, site
    <3> QED BY <2>4, <3>1, <3>2 DEF Covers
  <2> HIDE DEF s
  <2>5. \/ s.limits # ToggleScope(site, 0).limits
        \/ Expired(s, now) /\ (swept < s.expiry_mono \/ s.scope_id \in fresh)
        \/ \A ctx \in Contexts, hit \in Hits : ctx.site = site => Covers(s, ctx, hit, now)
    BY <2>3, <2>4
  <2> QED BY <2>5 DEF s
<1>2. Spec => []RefusalInv
  <2>1. Init => RefusalInv
    BY DEF Init, NoReply, RefusalInv
  <2> QED BY <2>1, StepKeepsRefusal, PTL DEF Spec
<1> QED BY <1>1, <1>2, ScopeInvariant, PTL

-----------------------------------------------------------------------------
(* The event ring.                                                         *)

(* The newest events of the first n, as many as the ring has room for.     *)
Room(n) == IF n <= RingCapacity THEN n ELSE RingCapacity
Newest(events, n) == [i \in 1..Room(n) |-> events[n - Room(n) + i]]

LEMMA NewestShape ==
    ASSUME NEW events, IsSeq(events), NEW n \in 0..Len(events)
    PROVE  /\ Room(n) \in 0..n /\ Room(n) <= RingCapacity
           /\ IsSeq(Newest(events, n)) /\ Len(Newest(events, n)) = Room(n)
           /\ DOMAIN Newest(events, n) = 1..Room(n)
           /\ \A i \in 1..Room(n) : Newest(events, n)[i] = events[n - Room(n) + i]
<1>1. Len(events) \in Nat /\ DOMAIN events = 1..Len(events) /\ n \in Nat /\ RingCapacity \in Nat
  BY SeqShape, ShieldAssumption
<1>2. Room(n) \in 0..n /\ Room(n) <= RingCapacity
  BY <1>1 DEF Room
<1> DEFINE w == Newest(events, n)
<1>3. /\ DOMAIN w = 1..Room(n) /\ w = [i \in 1..Room(n) |-> w[i]]
      /\ \A i \in 1..Room(n) : w[i] = events[n - Room(n) + i]
  BY DEF Newest
<1> HIDE DEF w
<1>4. IsSeq(w) /\ Len(w) = Room(n)
  BY <1>2, <1>3, FunctionIsSeq
<1> QED BY <1>2, <1>3, <1>4 DEF w

(* Appending the next event makes the newest of one event more.            *)
LEMMA AppendMovesOn ==
    ASSUME NEW events, IsSeq(events), NEW n \in 1..Len(events)
    PROVE  RingAppend(Newest(events, n - 1), events[n]) = Newest(events, n)
<1>1. Len(events) \in Nat /\ n \in Nat /\ n - 1 \in 0..Len(events) /\ n \in 0..Len(events)
  BY SeqShape
<1>2. RingCapacity \in Nat /\ RingCapacity > 0
  BY ShieldAssumption
<1> DEFINE old == Newest(events, n - 1)
           new == Newest(events, n)
           longer == Append(old, events[n])
<1>3. /\ IsSeq(old) /\ Len(old) = Room(n - 1)
      /\ \A i \in 1..Room(n - 1) : old[i] = events[n - 1 - Room(n - 1) + i]
  BY <1>1, NewestShape
<1>4. /\ IsSeq(new) /\ Len(new) = Room(n)
      /\ \A i \in 1..Room(n) : new[i] = events[n - Room(n) + i]
  BY <1>1, NewestShape
<1> HIDE DEF old, new
<1>5. /\ IsSeq(longer) /\ Len(longer) = Room(n - 1) + 1
      /\ \A i \in 1..Room(n - 1) : longer[i] = old[i]
      /\ longer[Room(n - 1) + 1] = events[n]
  BY <1>3, SeqShape
<1> HIDE DEF longer
<1>6. RingAppend(old, events[n]) = IF Len(longer) > RingCapacity THEN Tail(longer) ELSE longer
  BY DEF RingAppend, longer
<1>7. CASE n <= RingCapacity
  <2>1. Room(n - 1) = n - 1 /\ Room(n) = n
    BY <1>1, <1>2, <1>7 DEF Room
  <2>2. \A i \in 1..n : longer[i] = new[i]
    <3> SUFFICES ASSUME NEW i \in 1..n PROVE longer[i] = new[i]
      OBVIOUS
    <3>1. new[i] = events[i]
      BY <1>1, <1>4, <2>1
    <3>2. CASE i = n
      BY <1>1, <1>5, <2>1, <3>1, <3>2
    <3>3. CASE i # n
      BY <1>1, <1>3, <1>5, <2>1, <3>1, <3>3
    <3> QED BY <3>2, <3>3
  <2>3. longer = new
    BY <1>1, <1>4, <1>5, <2>1, <2>2, SameSeq
  <2> QED BY <1>1, <1>2, <1>5, <1>6, <1>7, <2>1, <2>3 DEF old, new
<1>8. CASE ~(n <= RingCapacity)
  <2>1. Room(n - 1) = RingCapacity /\ Room(n) = RingCapacity
    BY <1>1, <1>2, <1>8 DEF Room
  <2>2. Len(longer) = RingCapacity + 1 /\ longer # <<>>
    BY <1>2, <1>5, <2>1
  <2> DEFINE S == ToSet(longer)
             rest == Tail(longer)
  <2>3. longer \in Seq(S)
    BY <1>5 DEF IsSeq
  <2>4. rest \in Seq(S) /\ Len(rest) = RingCapacity /\ \A i \in 1..RingCapacity : rest[i] = longer[i + 1]
    <3> HIDE DEF S
    <3> QED BY <1>2, <2>2, <2>3, HeadTailProperties
  <2>5. IsSeq(rest)
    <3>1. DOMAIN rest = 1..RingCapacity /\ rest = [i \in 1..RingCapacity |-> rest[i]]
      <4> HIDE DEF S, rest
      <4> QED BY <2>4
    <3> HIDE DEF rest
    <3> QED BY <1>2, <3>1, FunctionIsSeq
  <2> HIDE DEF S, rest
  <2>6. \A i \in 1..RingCapacity : rest[i] = new[i]
    <3> SUFFICES ASSUME NEW i \in 1..RingCapacity PROVE rest[i] = new[i]
      OBVIOUS
    <3>1. new[i] = events[n - RingCapacity + i]
      BY <1>4, <2>1
    <3>2. CASE i = RingCapacity
      BY <1>1, <1>2, <1>5, <2>1, <2>4, <3>1, <3>2
    <3>3. CASE i # RingCapacity
      <4>1. i + 1 \in 1..RingCapacity
        BY <1>2, <3>3
      <4>2. old[i + 1] = events[n - 1 - RingCapacity + (i + 1)]
        BY <1>3, <2>1, <4>1
      <4>3. n - 1 - RingCapacity + (i + 1) = n - RingCapacity + i
        BY <1>1, <1>2
      <4>4. rest[i] = longer[i + 1]
        BY <2>4
      <4>5. longer[i + 1] = old[i + 1]
        BY <1>5, <2>1, <4>1
      <4>6. old[i + 1] = events[n - RingCapacity + i]
        BY <4>2, <4>3
      <4> QED BY <3>1, <4>4, <4>5, <4>6
    <3> QED BY <3>2, <3>3
  <2>7. rest = new
    BY <1>4, <2>1, <2>4, <2>5, <2>6, SameSeq
  <2>8. Len(longer) > RingCapacity
    BY <1>2, <2>2
  <2>9. RingAppend(old, events[n]) = rest
    BY <1>6, <2>8 DEF rest
  <2> QED BY <2>7, <2>9 DEF old, new
<1> QED BY <1>7, <1>8

(* Reading a ring document keeps its newest events, however many it has:   *)
(* they solve the equation of the loop, and no other function does.        *)
LEMMA RingIsNewest ==
    ASSUME NEW events, IsSeq(events)
    PROVE  ParseRing(events) = Newest(events, Len(events))
<1> DEFINE L == Len(events)
           Loop(g) == [n \in 0..L |-> IF n = 0 THEN <<>> ELSE RingAppend(g[n - 1], events[n])]
           read == CHOOSE g : g = Loop(g)
           kept == [n \in 0..L |-> Newest(events, n)]
<1>1. L \in Nat
  BY SeqShape
<1>2. ParseRing(events) = read[L]
  BY DEF ParseRing
<1>3. Newest(events, 0) = <<>>
  <2>1. IsSeq(Newest(events, 0)) /\ Len(Newest(events, 0)) = 0
    BY <1>1, NewestShape, ShieldAssumption DEF Room
  <2> HIDE DEF L
  <2> QED BY <2>1 DEF IsSeq
<1>4. kept = Loop(kept)
  <2>1. \A n \in 0..L : kept[n] = Loop(kept)[n]
    <3> SUFFICES ASSUME NEW n \in 0..L PROVE kept[n] = Loop(kept)[n]
      OBVIOUS
    <3>1. CASE n = 0
      BY <1>3, <3>1
    <3>2. CASE n # 0
      <4>1. n \in 1..L /\ n - 1 \in 0..L
        BY <1>1, <3>2
      <4>2. RingAppend(Newest(events, n - 1), events[n]) = Newest(events, n)
        BY <4>1, AppendMovesOn
      <4> QED BY <3>2, <4>1, <4>2
    <3> QED BY <3>1, <3>2
  <2> QED BY <2>1
<1>5. read = Loop(read)
  <2>1. \E g : g = Loop(g)
    BY <1>4
  <2> HIDE DEF Loop
  <2> QED BY <2>1
<1>6. /\ read[0] = <<>>
      /\ \A n \in 1..L : read[n] = RingAppend(read[n - 1], events[n])
  <2> HIDE DEF read
  <2> QED BY <1>1, <1>5
<1> HIDE DEF read, kept
<1>7. \A n \in 0..L : read[n] = Newest(events, n)
  <2> DEFINE bad == {n \in 0..L : read[n] # Newest(events, n)}
  <2>1. SUFFICES ASSUME bad # {} PROVE FALSE
    OBVIOUS
  <2>2. bad \in SUBSET Nat
    BY <1>1
  <2>3. Min(bad) \in bad /\ \A n \in bad : Min(bad) <= n
    <3> HIDE DEF bad
    <3> QED BY <2>1, <2>2, LeastNumber
  <2>4. PICK m \in 0..L : m = Min(bad) /\ read[m] # Newest(events, m)
    BY <2>3
  <2>5. m # 0
    BY <1>3, <1>6, <2>4
  <2>6. m \in 1..L /\ m - 1 \in 0..L /\ m - 1 \notin bad
    <3>1. m \in 1..L /\ m - 1 \in 0..L /\ ~(m <= m - 1)
      BY <1>1, <2>5
    <3> HIDE DEF bad
    <3> QED BY <2>3, <2>4, <3>1
  <2>7. read[m - 1] = Newest(events, m - 1)
    BY <2>6
  <2> HIDE DEF bad, L
  <2>8. RingAppend(Newest(events, m - 1), events[m]) = Newest(events, m)
    BY <2>6, AppendMovesOn DEF L
  <2> QED BY <1>6, <2>4, <2>6, <2>7, <2>8
<1> QED BY <1>1, <1>2, <1>7

(* That is the end of the document.                                        *)
LEMMA RingIsTheEnd ==
    ASSUME NEW events, IsSeq(events)
    PROVE  /\ IsSeq(ParseRing(events))
           /\ ToSet(ParseRing(events)) \subseteq ToSet(events)
           /\ ParseRing(events) =
                SubSeq(events, Max({1, Len(events) - RingCapacity + 1}), Len(events))
<1> DEFINE L == Len(events)
           w == Room(L)
           r == ParseRing(events)
           first == Max({1, L - RingCapacity + 1})
           part == SubSeq(events, first, L)
<1>1. L \in Nat /\ DOMAIN events = 1..L /\ RingCapacity \in Nat /\ RingCapacity > 0
  BY SeqShape, ShieldAssumption
<1>2. /\ w \in 0..L /\ IsSeq(r) /\ Len(r) = w
      /\ DOMAIN r = 1..w /\ \A i \in 1..w : r[i] = events[L - w + i]
  <2>1. r = Newest(events, L) /\ L \in 0..Len(events)
    BY <1>1, RingIsNewest
  <2> HIDE DEF L
  <2> QED BY <2>1, NewestShape
<1>3. first = L - w + 1 /\ first \in Int
  <2>1. 1 \in Int /\ L - RingCapacity + 1 \in Int
    BY <1>1
  <2> DEFINE other == L - RingCapacity + 1
  <2>2. first \in {1, other} /\ first >= 1 /\ first >= other
    <3> HIDE DEF other
    <3>1. Max({1, other}) \in {1, other} /\ Max({1, other}) >= 1 /\ Max({1, other}) >= other
      BY <2>1, MaxOfTwo DEF other
    <3> QED BY <3>1 DEF other
  <2> HIDE DEF first, L
  <2> QED BY <1>1, <2>2 DEF Room
<1> HIDE DEF w, first, L
<1>4. /\ part \in Seq(ToSet(events))
      /\ Len(part) = w
      /\ \A i \in 1..w : part[i] = events[L - w + i]
  <2>1. \A i \in first..L : events[i] \in ToSet(events)
    BY <1>1, <1>2, <1>3 DEF ToSet
  <2>2. /\ part \in Seq(ToSet(events))
        /\ Len(part) = IF first <= L THEN L - first + 1 ELSE 0
        /\ \A i \in 1..(L - first + 1) : part[i] = events[first + i - 1]
    <3> HIDE DEF part
    <3> QED BY <1>1, <1>3, <2>1, SubSeqProperties DEF part
  <2> HIDE DEF part
  <2>3. L - first + 1 = w
    BY <1>1, <1>2, <1>3
  <2>4. Len(part) = w
    BY <1>1, <1>2, <1>3, <2>2
  <2>5. \A i \in 1..w : first + i - 1 = L - w + i
    BY <1>1, <1>2, <1>3
  <2> QED BY <2>2, <2>3, <2>4, <2>5
<1> HIDE DEF r, part
<1>5. IsSeq(part)
  <2>1. DOMAIN part = 1..w /\ part = [i \in 1..w |-> part[i]]
    BY <1>4
  <2> QED BY <1>2, <2>1, FunctionIsSeq
<1>6. r = part
  BY <1>2, <1>4, <1>5, SameSeq
<1>7. ToSet(r) \subseteq ToSet(events)
  <2>1. \A i \in 1..w : L - w + i \in 1..L
    BY <1>1, <1>2
  <2> QED BY <1>1, <1>2, <2>1 DEF ToSet
<1> QED BY <1>2, <1>6, <1>7 DEF r, part, first, L

BlockedOf(r, id) == {i \in DOMAIN r : r[i].identity = id /\ r[i].action = "kBlocked"}
Counts(r) == {{id} \X (1..Cardinality(BlockedOf(r, id))) : id \in Identities}

(* Every blocked event is counted by its identity, and by no other.        *)
LEMMA CountsAddUp ==
    ASSUME NEW r, IsSeq(r), \A i \in DOMAIN r : r[i].identity \in Identities
    PROVE  Len(Blocked(r)) = Cardinality(UNION Counts(r))
<1> DEFINE all == {i \in DOMAIN r : r[i].action = "kBlocked"}
           N(id) == Cardinality(BlockedOf(r, id))
           T == UNION {{id} \X (1..N(id)) : id \in Identities}
           f == [i \in all |-> <<r[i].identity, Place(i, BlockedOf(r, r[i].identity))>>]
<1>1. Len(r) \in Nat /\ DOMAIN r = 1..Len(r)
  BY SeqShape
<1>2. IsFiniteSet(all) /\ Len(Blocked(r)) = Cardinality(all)
  <2>1. all \in SUBSET DOMAIN r
    OBVIOUS
  <2>2. Len(Blocked(r)) = Cardinality(all)
    <3> HIDE DEF all
    <3>1. Len(Keep(r, all)) = Cardinality(all)
      BY <2>1, KeptMembers
    <3> QED BY <3>1 DEF Blocked, all
  <2> HIDE DEF all
  <2> QED BY <1>1, <2>1, <2>2, PlacesGrow
<1>3. \A id : /\ BlockedOf(r, id) \in SUBSET (1..Len(r))
              /\ \A i \in BlockedOf(r, id) : /\ Place(i, BlockedOf(r, id)) \in 1..N(id)
                                             /\ Nth(Place(i, BlockedOf(r, id)), BlockedOf(r, id)) = i
              /\ \A k \in 1..N(id) : /\ Nth(k, BlockedOf(r, id)) \in BlockedOf(r, id)
                                     /\ Place(Nth(k, BlockedOf(r, id)), BlockedOf(r, id)) = k
  <2> SUFFICES ASSUME NEW id
               PROVE  LET at == BlockedOf(r, id)
                      IN  /\ at \in SUBSET (1..Len(r))
                          /\ \A i \in at : /\ Place(i, at) \in 1..Cardinality(at)
                                           /\ Nth(Place(i, at), at) = i
                          /\ \A k \in 1..Cardinality(at) : /\ Nth(k, at) \in at
                                                           /\ Place(Nth(k, at), at) = k
    OBVIOUS
  <2> DEFINE at == BlockedOf(r, id)
  <2>1. at \in SUBSET (1..Len(r))
    BY <1>1 DEF BlockedOf
  <2> HIDE DEF at
  <2>2. \A i \in at : Place(i, at) \in 1..Cardinality(at)
    BY <1>1, <2>1, PlacesGrow
  <2>3. /\ \A k \in 1..Cardinality(at) : Nth(k, at) \in at /\ Place(Nth(k, at), at) = k
        /\ \A i \in at : Nth(Place(i, at), at) = i
    BY <1>1, <2>1, EveryPlaceIsTaken
  <2> QED BY <2>1, <2>2, <2>3 DEF at
<1>4. \A i \in all : r[i].identity \in Identities /\ i \in BlockedOf(r, r[i].identity)
  BY DEF BlockedOf
<1>5. \A t : t \in T <=> \E id \in Identities : \E k \in 1..N(id) : t = <<id, k>>
  <2> HIDE DEF N
  <2> QED OBVIOUS
<1> HIDE DEF N, T
<1>6. f \in [all -> T]
  <2> SUFFICES ASSUME NEW i \in all
               PROVE  <<r[i].identity, Place(i, BlockedOf(r, r[i].identity))>> \in T
    OBVIOUS
  <2> QED BY <1>3, <1>4, <1>5
<1>7. \A i, j \in all : f[i] = f[j] => i = j
  <2> SUFFICES ASSUME NEW i \in all, NEW j \in all, f[i] = f[j]
               PROVE  i = j
    OBVIOUS
  <2>1. /\ r[i].identity = r[j].identity
        /\ Place(i, BlockedOf(r, r[i].identity)) = Place(j, BlockedOf(r, r[j].identity))
    OBVIOUS
  <2>2. Nth(Place(i, BlockedOf(r, r[i].identity)), BlockedOf(r, r[i].identity)) = i
    BY <1>3, <1>4
  <2>3. Nth(Place(j, BlockedOf(r, r[j].identity)), BlockedOf(r, r[j].identity)) = j
    BY <1>3, <1>4
  <2> HIDE DEF f
  <2> QED BY <2>1, <2>2, <2>3
<1>8. \A t \in T : \E i \in all : f[i] = t
  <2> SUFFICES ASSUME NEW t \in T PROVE \E i \in all : f[i] = t
    OBVIOUS
  <2>0. PICK id \in Identities : \E k \in 1..N(id) : t = <<id, k>>
    BY <1>5
  <2>1. PICK k \in 1..N(id) : t = <<id, k>>
    BY <2>0
  <2> DEFINE i == Nth(k, BlockedOf(r, id))
  <2>2. i \in BlockedOf(r, id) /\ Place(i, BlockedOf(r, id)) = k
    BY <1>3
  <2>3. i \in all /\ r[i].identity = id
    BY <2>2 DEF BlockedOf
  <2> HIDE DEF i
  <2>4. f[i] = <<r[i].identity, Place(i, BlockedOf(r, r[i].identity))>>
    BY <2>3
  <2> QED BY <2>1, <2>2, <2>3, <2>4
<1> HIDE DEF f, all
<1>9. ExistsBijection(all, T)
  BY <1>6, <1>7, <1>8 DEF ExistsBijection, Bijection, Injection, Surjection, IsInjective
<1>10. Cardinality(T) = Cardinality(all)
  BY <1>2, <1>9, FS_Bijection
<1> QED BY <1>2, <1>10 DEF T, N, Counts

(* A view is the beginning of the identity's events, read backwards; it is *)
(* not empty if they are not; and it shows no more blocked ones than the   *)
(* status counts (events.cc: RingView).                                    *)
LEMMA ViewIsTheNewest ==
    ASSUME NEW r, IsSeq(r), NEW id, NEW n \in Nat \ {0}
    PROVE  LET events == RingView(r, id, n)
           IN  /\ IsPrefix(events, Reverse(EventsOf(r, id)))
               /\ EventsOf(r, id) # <<>> => events # <<>>
               /\ Len(Blocked(events)) <= Cardinality(BlockedOf(r, id))
<1> DEFINE at == {i \in DOMAIN r : r[i].identity = id}
           own == EventsOf(r, id)
           mine == Reverse(own)
           Size(k) == FoldLeft(LAMBDA m, e : m + e.size, 0, SubSeq(mine, 1, k))
           Fits(k) == k <= n /\ (k <= 1 \/ Size(k) <= ChunkBudget)
           counts == {k \in 0..Len(mine) : \A j \in 1..k : Fits(j)}
           K == Max(counts)
           events == SubSeq(mine, 1, K)
           M == Cardinality(at)
<1>1. RingView(r, id, n) = events
  BY DEF RingView
<1>2. Len(r) \in Nat /\ DOMAIN r = 1..Len(r) /\ at \in SUBSET (1..Len(r)) /\ n \in Nat /\ 1 <= n
  BY SeqShape
<1>3. /\ IsSeq(own) /\ Len(own) = M /\ M \in Nat /\ DOMAIN own = 1..M
      /\ \A k \in 1..M : Nth(k, at) \in at /\ own[k] = r[Nth(k, at)]
  <2>1. own = Keep(r, at) /\ at \in SUBSET DOMAIN r
    BY DEF EventsOf
  <2> HIDE DEF own, at
  <2> QED BY <2>1, KeptMembers
<1>4. \A j, k \in 1..M : j < k => Nth(j, at) < Nth(k, at)
  <2> HIDE DEF at
  <2> QED BY <1>2, EveryPlaceIsTaken
<1>5. /\ IsSeq(mine) /\ Len(mine) = M
      /\ \A k \in 1..M : mine[k] = own[M - k + 1]
  <2>1. /\ DOMAIN mine = 1..M /\ mine = [k \in 1..M |-> mine[k]]
        /\ \A k \in 1..M : mine[k] = own[M - k + 1]
    <3> HIDE DEF own, M
    <3> QED BY <1>3 DEF Reverse
  <2> HIDE DEF mine, M
  <2> QED BY <1>3, <2>1, FunctionIsSeq
<1> HIDE DEF Size, M, own, mine, at
<1>6. K \in 0..M /\ K \in counts /\ \A k \in counts : k <= K
  <2>1. counts \in SUBSET (0..M)
    BY <1>5
  <2>2. 0 \in counts
    BY <1>3, <1>5
  <2> HIDE DEF counts
  <2> QED BY <1>3, <2>1, <2>2, GreatestNumber
<1>7. M >= 1 => K >= 1
  <2>1. ASSUME M >= 1 PROVE 1 \in counts
    BY <1>2, <1>3, <1>5, <2>1
  <2> HIDE DEF counts, K
  <2> QED BY <1>6, <2>1
<1> HIDE DEF counts, K
<1>8. /\ IsSeq(events) /\ Len(events) = K /\ DOMAIN events = 1..K
      /\ \A k \in 1..K : events[k] = mine[k]
  BY <1>3, <1>5, <1>6, FirstMembers
<1>9. IsPrefix(events, mine)
  <2>1. SubSeq(events, 1, K) = events
    <3> HIDE DEF events
    <3> QED BY <1>8, SubSeqFull DEF IsSeq
  <2> HIDE DEF events
  <2>2. events = SubSeq(mine, 1, K)
    BY DEF events
  <2> QED BY <1>3, <1>5, <1>6, <1>8, <2>1, <2>2 DEF IsPrefix
<1> HIDE DEF events
<1>10. own # <<>> => events # <<>>
  <2>1. own # <<>> => M # 0
    BY <1>3 DEF IsSeq
  <2> QED BY <1>3, <1>6, <1>7, <1>8, <2>1
<1>11. Len(Blocked(events)) <= Cardinality(BlockedOf(r, id))
  <2> DEFINE shown == {k \in 1..K : events[k].action = "kBlocked"}
             f == [k \in shown |-> Nth(M - k + 1, at)]
  <2>1. Len(Blocked(events)) = Cardinality(shown)
    <3>1. shown = {k \in DOMAIN events : events[k].action = "kBlocked"}
      BY <1>8
    <3>2. shown \in SUBSET DOMAIN events
      BY <1>8
    <3> HIDE DEF shown
    <3>3. Len(Keep(events, shown)) = Cardinality(shown)
      BY <1>8, <3>2, KeptMembers
    <3> QED BY <3>1, <3>3 DEF Blocked
  <2>2. \A k \in shown : M - k + 1 \in 1..M /\ k \in Int
    BY <1>3, <1>6
  <2>3. \A k \in shown : f[k] \in BlockedOf(r, id)
    <3> SUFFICES ASSUME NEW k \in shown PROVE Nth(M - k + 1, at) \in BlockedOf(r, id)
      OBVIOUS
    <3>1. k \in 1..M /\ k \in 1..K
      BY <1>3, <1>6
    <3>2. events[k] = r[Nth(M - k + 1, at)] /\ Nth(M - k + 1, at) \in at
      BY <1>3, <1>5, <1>8, <2>2, <3>1
    <3> QED BY <3>2 DEF BlockedOf, at
  <2>4. \A j, k \in shown : f[j] = f[k] => j = k
    <3> SUFFICES ASSUME NEW j \in shown, NEW k \in shown, Nth(M - j + 1, at) = Nth(M - k + 1, at)
                 PROVE  j = k
      OBVIOUS
    <3>1. M - j + 1 \in 1..M /\ M - k + 1 \in 1..M /\ j \in Int /\ k \in Int
      BY <2>2
    <3>2. \A x, y \in 1..M : Nth(x, at) = Nth(y, at) => x = y
      <4> SUFFICES ASSUME NEW x \in 1..M, NEW y \in 1..M, x # y
                   PROVE  Nth(x, at) # Nth(y, at)
        OBVIOUS
      <4>0. \A i \in at : i \in Int
        BY <1>2
      <4>1. Nth(x, at) \in Int /\ Nth(y, at) \in Int
        BY <1>3, <4>0
      <4>2. x < y \/ y < x
        OBVIOUS
      <4> QED BY <1>4, <4>1, <4>2
    <3>3. M - j + 1 = M - k + 1
      BY <3>1, <3>2
    <3> QED BY <1>3, <3>1, <3>3
  <2> HIDE DEF shown, f
  <2>5. f \in [shown -> BlockedOf(r, id)] /\ DOMAIN f = shown
    BY <2>3 DEF f
  <2>6. f \in Injection(shown, BlockedOf(r, id))
    BY <2>4, <2>5 DEF Injection, IsInjective
  <2>7. IsFiniteSet(BlockedOf(r, id))
    <3>1. BlockedOf(r, id) \in SUBSET (1..Len(r))
      BY <1>2 DEF BlockedOf
    <3> QED BY <1>2, <3>1, PlacesGrow
  <2> QED BY <2>1, <2>6, <2>7, FS_Injection
<1> QED BY <1>1, <1>9, <1>10, <1>11 DEF mine, own

(* The ring holds events of the identities, whatever was asked.            *)
RingInv == IsSeq(ring) /\ \A e \in ToSet(ring) : e.identity \in Identities

THEOREM RingInvariant == Spec => []RingInv
<1>1. Init => RingInv
  BY DEF Init, RingInv, IsSeq, ToSet
<1>2. RingInv /\ [Next]_vars => RingInv'
  <2> SUFFICES ASSUME RingInv, [Next]_vars PROVE RingInv'
    OBVIOUS
  <2>1. CASE UNCHANGED ring
    BY <2>1 DEF RingInv, IsSeq, ToSet
  <2>2. ASSUME NEW ctx \in Contexts, NEW action \in {"kBlocked", "kAllowed"},
               NEW size \in EventSizes, EventEmit(ctx, action, size)
        PROVE  RingInv'
    <3> DEFINE e == MakeEvent(ctx, Unset, Unset, action, size)
    <3>1. ring' = Append(ring, e) /\ e.identity \in Identities
      BY <2>2, IdentitiesAssumption DEF EventEmit, MakeEvent
    <3> HIDE DEF e
    <3>2. IsSeq(Append(ring, e)) /\ ToSet(Append(ring, e)) = ToSet(ring) \cup {e}
      BY SeqShape DEF RingInv
    <3> QED BY <3>1, <3>2 DEF RingInv, IsSeq
  <2> QED BY <2>1, <2>2 DEF Next, Apply, ExceptionAdd, ExceptionRemove, ExceptionSweep, SiteToggle,
                            ScopeRequest, Tick, vars
<1> QED BY <1>1, <1>2, PTL DEF Spec

(* The three views of the ring tell one story (events.cc, shield_host.cc), *)
(* for any identities, capacity, budget and number of events.              *)
THEOREM ViewsAlwaysAgree == Spec => []ViewsAgree
<1>1. RingInv => ViewsAgree
  <2> SUFFICES ASSUME RingInv PROVE ViewsAgree
    OBVIOUS
  <2> DEFINE r == ParseRing(ring)
             CountOf(id) == Status(id, TRUE, "on").body.blocked_count
             shown == DebugPage("dev", NormalInputs, [force_disabled |-> FALSE, reason |-> FALSE])
  <2>1. /\ IsSeq(r) /\ ToSet(r) \subseteq ToSet(ring)
        /\ r = SubSeq(ring, Max({1, Len(ring) - RingCapacity + 1}), Len(ring))
    BY RingIsTheEnd DEF RingInv
  <2>2. \A i \in DOMAIN r : r[i].identity \in Identities
    <3>1. \A i \in DOMAIN r : r[i] \in ToSet(r)
      BY DEF ToSet
    <3> QED BY <2>1, <3>1 DEF RingInv
  <2> HIDE DEF r
  <2>3. \A id \in Identities : CountOf(id) = Cardinality(BlockedOf(r, id))
    BY IdentitiesAssumption DEF Status, Ok, BlockedCount, BlockedOf, r
  <2>4. shown.status = "ok" => shown.body.chip_count = Len(Blocked(r))
    BY DEF DebugPage, Ok, Malformed, Reject, r
  <2> HIDE DEF CountOf, shown
  <2>5. shown.status = "ok" =>
          shown.body.chip_count = Cardinality(UNION {{id} \X (1..CountOf(id)) : id \in Identities})
    <3> DEFINE counted == {{id} \X (1..CountOf(id)) : id \in Identities}
    <3>1. counted = Counts(r)
      BY <2>3 DEF Counts
    <3>2. Len(Blocked(r)) = Cardinality(UNION Counts(r))
      BY <2>1, <2>2, CountsAddUp
    <3> HIDE DEF counted
    <3>3. shown.status = "ok" => shown.body.chip_count = Cardinality(UNION counted)
      BY <2>4, <3>1, <3>2
    <3> QED BY <3>3 DEF counted
  <2>6. ASSUME NEW id \in Identities, NEW n \in 1..RingCapacity
        PROVE  LET events == RecentEvents(id, n).body
               IN  /\ IsPrefix(events, Reverse(EventsOf(r, id)))
                   /\ EventsOf(r, id) # <<>> => events # <<>>
                   /\ Len(Blocked(events)) <= CountOf(id)
    <3>1. RecentEvents(id, n).body = RingView(r, id, n)
      BY IdentitiesAssumption DEF RecentEvents, Ok, r
    <3>2. n \in Nat \ {0}
      BY ShieldAssumption
    <3> QED BY <2>1, <2>3, <3>1, <3>2, ViewIsTheNewest
  <2> QED BY <2>1, <2>5, <2>6 DEF ViewsAgree, r, CountOf, shown
<1> QED BY <1>1, RingInvariant, PTL

-----------------------------------------------------------------------------
(* The matcher of filters.  Segments are placed in a text if each matches  *)
(* at its place, none begins before the one before it ends, and the first  *)
(* stands at the start under a left anchor.                                *)
Filters == INSTANCE ShieldFilters
Texts(segs) == IsSeq(segs) /\ \A i \in DOMAIN segs : IsSeq(segs[i])
Placed(segs, t, left, at) ==
    /\ at \in [1..Len(segs) -> 0..Len(t)]
    /\ \A i \in 1..Len(segs) : Filters!MatchSegAt(t, segs[i], at[i])
    /\ \A i \in 2..Len(segs) : Filters!EndOf(t, segs[i - 1], at[i - 1]) <= at[i]
    /\ left /\ Len(segs) > 0 => at[1] = 0

(* A loop over 1..L, from a base, by a table of what a step makes of what   *)
(* it finds: some function runs it.                                        *)
Loops(g, L, base, F) == g = [n \in 0..L |-> IF n = 0 THEN base ELSE F[<<g[n - 1], n>>]]
LEMMA LoopRuns ==
    ASSUME NEW L \in Nat, NEW base, NEW F
    PROVE  \E g : Loops(g, L, base, F)
<1> DEFINE Runs(g, m) == g = [n \in 0..m |-> IF n = 0 THEN base ELSE F[<<g[n - 1], n>>]]
           bad == {m \in 0..L : ~\E g : Runs(g, m)}
<1>1. SUFFICES ASSUME bad # {} PROVE FALSE
  <2>1. bad = {} => \E g : Runs(g, L)
    <3> HIDE DEF Runs
    <3> QED OBVIOUS
  <2> QED BY <2>1 DEF Loops
<1>2. bad \in SUBSET Nat
  OBVIOUS
<1>3. Min(bad) \in bad /\ \A m \in bad : Min(bad) <= m
  <2> HIDE DEF bad
  <2> QED BY <1>1, <1>2, LeastNumber
<1>4. PICK m \in 0..L : m = Min(bad) /\ ~\E g : Runs(g, m)
  BY <1>3
<1>5. m # 0
  <2>1. Runs([n \in 0..0 |-> base], 0)
    OBVIOUS
  <2> HIDE DEF Runs
  <2> QED BY <1>4, <2>1
<1>6. m - 1 \in 0..L /\ m \in Nat /\ \E g : Runs(g, m - 1)
  <2>1. m - 1 \in 0..L /\ m \in Nat /\ ~(m <= m - 1)
    BY <1>5
  <2>2. m - 1 \notin bad
    <3> HIDE DEF bad
    <3> QED BY <1>3, <1>4, <2>1
  <2> HIDE DEF Runs
  <2> QED BY <2>1, <2>2
<1>7. PICK g : Runs(g, m - 1)
  BY <1>6
<1> DEFINE h == [n \in 0..m |-> IF n = m THEN F[<<g[m - 1], m>>] ELSE g[n]]
<1>8. ASSUME NEW n \in 0..m
      PROVE  h[n] = IF n = 0 THEN base ELSE F[<<h[n - 1], n>>]
  <2>1. CASE n = m
    <3>1. m - 1 \in 0..m /\ m - 1 # m
      BY <1>5, <1>6
    <3>2. h[m - 1] = g[m - 1] /\ h[n] = F[<<g[m - 1], m>>]
      BY <2>1, <3>1
    <3> HIDE DEF h
    <3> QED BY <1>5, <2>1, <3>2
  <2>2. CASE n # m
    <3>1. n # 0 => n - 1 \in 0..(m - 1) /\ h[n - 1] = g[n - 1]
      BY <1>6, <2>2
    <3>2. n \in 0..(m - 1) /\ h[n] = g[n]
      BY <1>6, <2>2
    <3>3. g[n] = IF n = 0 THEN base ELSE F[<<g[n - 1], n>>]
      BY <1>7, <3>2
    <3> HIDE DEF h
    <3> QED BY <3>1, <3>2, <3>3
  <2> QED BY <2>1, <2>2
<1>9. Runs(h, m)
  <2>1. DOMAIN h = 0..m /\ h = [n \in 0..m |-> h[n]]
    OBVIOUS
  <2> HIDE DEF h
  <2> QED BY <1>8, <2>1
<1> HIDE DEF Runs
<1> QED BY <1>4, <1>9

(* The end of a segment lies in the text, and later for a later place.     *)
LEMMA EndsInText ==
    ASSUME NEW t, Len(t) \in Nat, NEW seg, Len(seg) \in Nat, NEW s \in 0..Len(t)
    PROVE  /\ Filters!EndOf(t, seg, s) \in 0..Len(t) /\ s <= Filters!EndOf(t, seg, s)
           /\ \A r \in 0..Len(t) : s <= r => Filters!EndOf(t, seg, s) <= Filters!EndOf(t, seg, r)
BY DEF Filters!EndOf

(* FindSeg is the end of the earliest match, if there is one.              *)
LEMMA FindsEarliest ==
    ASSUME NEW t, Len(t) \in Nat, NEW seg, Len(seg) \in Nat, NEW from \in 0..Len(t)
    PROVE  LET starts == {s \in from..Len(t) : Filters!MatchSegAt(t, seg, s)}
               found == Filters!FindSeg(t, seg, from)
           IN  /\ starts = {} => found = Filters!NoMatch
               /\ starts # {} => \E s \in starts : /\ \A r \in starts : s <= r
                                                   /\ found = Filters!EndOf(t, seg, s)
                                                   /\ found \in 0..Len(t)
<1> DEFINE starts == {s \in from..Len(t) : Filters!MatchSegAt(t, seg, s)}
           found == Filters!FindSeg(t, seg, from)
           First(s) == \A r \in starts : s <= r
<1>1. starts = {} => found = Filters!NoMatch
  BY DEF Filters!FindSeg
<1>2. ASSUME starts # {}
      PROVE  \E s \in starts : First(s) /\ found = Filters!EndOf(t, seg, s)
  <2>1. found = Filters!EndOf(t, seg, CHOOSE s \in starts : First(s))
    BY <1>2 DEF Filters!FindSeg
  <2>2. starts \in SUBSET Nat
    OBVIOUS
  <2>3. \E s \in starts : First(s)
    <3> HIDE DEF starts
    <3> QED BY <1>2, <2>2, LeastNumber
  <2> HIDE DEF First, starts, found
  <2> QED BY <2>1, <2>3
<1>3. \A s \in starts : Filters!EndOf(t, seg, s) \in 0..Len(t)
  <2>1. \A s \in starts : s \in 0..Len(t)
    OBVIOUS
  <2> HIDE DEF starts
  <2> QED BY <2>1, EndsInText
<1> HIDE DEF starts, found
<1> QED BY <1>1, <1>2, <1>3 DEF starts, found

(* What one segment more makes of a place reached.                         *)
Reaches(segs, t, left, pos, i) ==
    IF pos = Filters!NoMatch THEN Filters!NoMatch
    ELSE IF i = 1 /\ left
    THEN IF Filters!MatchSegAt(t, segs[1], 0) THEN Filters!EndOf(t, segs[1], 0) ELSE Filters!NoMatch
    ELSE Filters!FindSeg(t, segs[i], pos)
Run(g, segs, t, left) ==
    /\ \A n \in 0..Len(segs) : g[n] \in 0..Len(t) \cup {Filters!NoMatch}
    /\ g[0] = 0
    /\ \A n \in 1..Len(segs) : g[n] = Reaches(segs, t, left, g[n - 1], n)

(* That is a place again, or none.                                         *)
LEMMA ReachesAPlace ==
    ASSUME NEW t, Len(t) \in Nat, NEW segs, Texts(segs), NEW left,
           NEW pos \in 0..Len(t) \cup {Filters!NoMatch}, NEW i \in 1..Len(segs)
    PROVE  Reaches(segs, t, left, pos, i) \in 0..Len(t) \cup {Filters!NoMatch}
<1>1. Len(segs) \in Nat /\ DOMAIN segs = 1..Len(segs) /\ 1 \in 1..Len(segs)
  BY SeqShape DEF Texts
<1>2. Len(segs[i]) \in Nat /\ Len(segs[1]) \in Nat
  BY <1>1, SeqShape DEF Texts
<1>3. Filters!EndOf(t, segs[1], 0) \in 0..Len(t)
  <2>1. 0 \in 0..Len(t)
    OBVIOUS
  <2> QED BY <1>2, <2>1, EndsInText
<1>4. CASE pos = Filters!NoMatch
  BY <1>4 DEF Reaches
<1>5. CASE pos \in 0..Len(t)
  <2>1. Filters!FindSeg(t, segs[i], pos) \in 0..Len(t) \cup {Filters!NoMatch}
    BY <1>2, <1>5, FindsEarliest
  <2> QED BY <1>3, <2>1 DEF Reaches
<1> QED BY <1>4, <1>5

(* Advance runs through the segments that way.                             *)
LEMMA AdvanceRuns ==
    ASSUME NEW t, Len(t) \in Nat, NEW segs, Texts(segs), NEW left
    PROVE  \E g : Run(g, segs, t, left) /\ Filters!Advance(segs, t, left) = g[Len(segs)]
<1> DEFINE L == Len(segs)
           P == 0..Len(t) \cup {Filters!NoMatch}
           F == [x \in P \X (1..L) |-> Reaches(segs, t, left, x[1], x[2])]
           Loop(g) == [n \in 0..L |-> IF n = 0 THEN 0 ELSE Reaches(segs, t, left, g[n - 1], n)]
           reached == CHOOSE g : g = Loop(g)
<1>1. L \in Nat
  BY SeqShape DEF Texts
<1>2. Filters!Advance(segs, t, left) = reached[L]
  BY DEF Filters!Advance, Reaches
<1>3. PICK f : f = [n \in 0..L |-> IF n = 0 THEN 0 ELSE F[<<f[n - 1], n>>]]
  <2> HIDE DEF F, L
  <2>1. \E f : Loops(f, L, 0, F)
    BY <1>1, LoopRuns
  <2> QED BY <2>1 DEF Loops
<1>4. \A p \in P, n \in 1..L : F[<<p, n>>] = Reaches(segs, t, left, p, n)
  OBVIOUS
<1>5. \A p \in P, n \in 1..L : Reaches(segs, t, left, p, n) \in P
  BY ReachesAPlace
<1> HIDE DEF F, P
<1>6. 0 \in P
  BY DEF P
<1>7. \A n \in 0..L : f[n] \in P
  <2> DEFINE bad == {n \in 0..L : f[n] \notin P}
  <2>1. SUFFICES ASSUME bad # {} PROVE FALSE
    OBVIOUS
  <2>2. bad \in SUBSET Nat
    BY <1>1
  <2>3. Min(bad) \in bad /\ \A n \in bad : Min(bad) <= n
    <3> HIDE DEF bad
    <3> QED BY <2>1, <2>2, LeastNumber
  <2>4. PICK m \in 0..L : m = Min(bad) /\ f[m] \notin P
    BY <2>3
  <2> HIDE DEF L
  <2>5. m # 0
    BY <1>1, <1>3, <1>6, <2>4
  <2>6. m \in 1..L /\ m - 1 \in 0..L /\ f[m - 1] \in P
    <3>1. m \in 1..L /\ m - 1 \in 0..L /\ ~(m <= m - 1)
      BY <1>1, <2>5
    <3>2. m - 1 \notin bad
      <4> HIDE DEF bad
      <4> QED BY <2>3, <2>4, <3>1
    <3> QED BY <3>1, <3>2
  <2>7. f[m] = F[<<f[m - 1], m>>]
    BY <1>1, <1>3, <2>5
  <2> QED BY <1>4, <1>5, <2>4, <2>6, <2>7
<1>8. f = Loop(f)
  <2> HIDE DEF L
  <2>1. \A n \in 0..L : n # 0 => n - 1 \in 0..L /\ n \in 1..L
    BY <1>1
  <2>2. \A n \in 0..L : f[n] = Loop(f)[n]
    BY <1>3, <1>4, <1>7, <2>1
  <2>3. DOMAIN f = 0..L /\ f = [n \in 0..L |-> f[n]]
    BY <1>3
  <2> QED BY <2>2, <2>3
<1>9. reached = Loop(reached)
  <2> HIDE DEF Loop
  <2> QED BY <1>8
<1> HIDE DEF reached
<1>10. \A n \in 0..L : reached[n] = IF n = 0 THEN 0 ELSE Reaches(segs, t, left, reached[n - 1], n)
  <2> HIDE DEF L
  <2> QED BY <1>9
<1>11. \A n \in 0..L : reached[n] \in P
  <2> DEFINE bad == {n \in 0..L : reached[n] \notin P}
  <2>1. SUFFICES ASSUME bad # {} PROVE FALSE
    OBVIOUS
  <2>2. bad \in SUBSET Nat
    BY <1>1
  <2>3. Min(bad) \in bad /\ \A n \in bad : Min(bad) <= n
    <3> HIDE DEF bad
    <3> QED BY <2>1, <2>2, LeastNumber
  <2>4. PICK m \in 0..L : m = Min(bad) /\ reached[m] \notin P
    BY <2>3
  <2> HIDE DEF L
  <2>5. m # 0
    BY <1>6, <1>10, <2>4
  <2>6. m \in 1..L /\ m - 1 \in 0..L /\ reached[m - 1] \in P
    <3>1. m \in 1..L /\ m - 1 \in 0..L /\ ~(m <= m - 1)
      BY <1>1, <2>5
    <3>2. m - 1 \notin bad
      <4> HIDE DEF bad
      <4> QED BY <2>3, <2>4, <3>1
    <3> QED BY <3>1, <3>2
  <2> QED BY <1>5, <1>10, <2>4, <2>5, <2>6
<1>12. reached[0] = 0 /\ \A n \in 1..L : reached[n] = Reaches(segs, t, left, reached[n - 1], n)
  <2> HIDE DEF L
  <2> QED BY <1>1, <1>10
<1>13. Run(reached, segs, t, left)
  BY <1>11, <1>12 DEF Run, P
<1> QED BY <1>2, <1>13

-----------------------------------------------------------------------------
(* The greedy search never passes a placement by: wherever the segments    *)
(* could be placed, it has not got further than they do.                   *)
LEMMA GreedyIsEarly ==
    ASSUME NEW t, Len(t) \in Nat, NEW segs, Texts(segs), NEW left,
           NEW g, Run(g, segs, t, left), NEW at, Placed(segs, t, left, at)
    PROVE  \A n \in 0..Len(segs) :
              /\ g[n] \in 0..Len(t)
              /\ n # 0 => g[n] <= Filters!EndOf(t, segs[n], at[n])
<1> DEFINE L == Len(segs)
           End(n) == Filters!EndOf(t, segs[n], at[n])
           Good(n) == g[n] \in 0..Len(t) /\ (n # 0 => g[n] <= End(n))
           bad == {n \in 0..L : ~Good(n)}
<1>1. L \in Nat /\ DOMAIN segs = 1..L /\ \A i \in 1..L : Len(segs[i]) \in Nat
  BY SeqShape DEF Texts
<1>2. SUFFICES ASSUME bad # {} PROVE FALSE
  OBVIOUS
<1>3. bad \in SUBSET Nat
  OBVIOUS
<1>4. Min(bad) \in bad /\ \A n \in bad : Min(bad) <= n
  <2> HIDE DEF bad
  <2> QED BY <1>2, <1>3, LeastNumber
<1>5. PICK m \in 0..L : m = Min(bad) /\ ~Good(m)
  BY <1>4
<1>6. m # 0
  BY <1>5 DEF Run
<1>7. m \in 1..L /\ m - 1 \in 0..L /\ Good(m - 1)
  <2>1. m \in 1..L /\ m - 1 \in 0..L /\ ~(m <= m - 1)
    BY <1>1, <1>6
  <2>2. m - 1 \notin bad
    <3> HIDE DEF bad
    <3> QED BY <1>4, <1>5, <2>1
  <2> HIDE DEF Good
  <2> QED BY <2>1, <2>2
<1>8. /\ g[m] = Reaches(segs, t, left, g[m - 1], m)
      /\ at[m] \in 0..Len(t) /\ Filters!MatchSegAt(t, segs[m], at[m])
  BY <1>1, <1>7 DEF Run, Placed
<1>9. g[m - 1] \in 0..Len(t) /\ g[m - 1] # Filters!NoMatch
  BY <1>7 DEF Filters!NoMatch
<1>10. g[m - 1] <= at[m]
  <2>1. CASE m = 1
    BY <1>8, <2>1 DEF Run
  <2>2. CASE m # 1
    <3>1. m \in 2..L /\ m - 1 \in 1..L /\ m - 1 # 0
      BY <1>1, <1>7, <2>2
    <3>2. g[m - 1] <= End(m - 1) /\ End(m - 1) <= at[m]
      BY <1>7, <3>1 DEF Placed
    <3>3. at[m - 1] \in 0..Len(t)
      BY <3>1 DEF Placed
    <3>4. End(m - 1) \in 0..Len(t)
      BY <1>1, <3>1, <3>3, EndsInText
    <3> HIDE DEF End
    <3> QED BY <1>8, <1>9, <3>2, <3>4
  <2> QED BY <2>1, <2>2
<1>11. CASE m = 1 /\ left
  <2>1. at[1] = 0 /\ Len(segs) > 0
    BY <1>1, <1>7, <1>11 DEF Placed
  <2>2. g[m] = End(m)
    BY <1>8, <1>9, <1>11, <2>1 DEF Reaches
  <2>3. End(m) \in 0..Len(t)
    BY <1>1, <1>7, <1>8, EndsInText
  <2> HIDE DEF End
  <2> QED BY <1>5, <2>2, <2>3
<1>12. CASE ~(m = 1 /\ left)
  <2> DEFINE starts == {s \in g[m - 1]..Len(t) : Filters!MatchSegAt(t, segs[m], s)}
  <2>1. at[m] \in starts /\ \A s \in starts : s \in 0..Len(t)
    BY <1>8, <1>9, <1>10
  <2>2. g[m] = Filters!FindSeg(t, segs[m], g[m - 1])
    BY <1>8, <1>9, <1>12 DEF Reaches
  <2>3. starts # {}
    BY <2>1
  <2>4. Len(segs[m]) \in Nat
    BY <1>1, <1>7
  <2> DEFINE found == Filters!FindSeg(t, segs[m], g[m - 1])
  <2>5. PICK s \in starts : /\ \A r \in starts : s <= r
                            /\ found = Filters!EndOf(t, segs[m], s)
                            /\ found \in 0..Len(t)
    <3>1. starts # {} => \E s \in starts : /\ \A r \in starts : s <= r
                                           /\ found = Filters!EndOf(t, segs[m], s)
                                           /\ found \in 0..Len(t)
      BY <1>9, <2>4, FindsEarliest, Zenon
    <3> QED BY <2>3, <3>1
  <2> HIDE DEF found
  <2> HIDE DEF starts
  <2>6. s <= at[m] /\ s \in 0..Len(t)
    BY <2>1, <2>5
  <2>7. g[m] = Filters!EndOf(t, segs[m], s) /\ g[m] \in 0..Len(t)
    BY <2>2, <2>5 DEF found
  <2>8. Filters!EndOf(t, segs[m], s) <= Filters!EndOf(t, segs[m], at[m])
    <3>1. at[m] \in 0..Len(t) /\ \A r \in 0..Len(t) :
              s <= r => Filters!EndOf(t, segs[m], s) <= Filters!EndOf(t, segs[m], r)
      BY <1>8, <2>4, <2>6, EndsInText
    <3> QED BY <2>6, <3>1
  <2>9. g[m] <= End(m)
    BY <2>7, <2>8
  <2> HIDE DEF End
  <2> QED BY <1>5, <2>7, <2>9
<1> QED BY <1>11, <1>12

(* And where it gets to the end, it has placed them.                       *)
LEMMA GreedyPlaces ==
    ASSUME NEW t, Len(t) \in Nat, NEW segs, Texts(segs), NEW left,
           NEW g, Run(g, segs, t, left), g[Len(segs)] # Filters!NoMatch
    PROVE  \E at : /\ Placed(segs, t, left, at)
                   /\ \A n \in 1..Len(segs) : Filters!EndOf(t, segs[n], at[n]) = g[n]
<1> DEFINE L == Len(segs)
           Earliest(n, s) ==
               /\ s \in 0..Len(t) /\ Filters!MatchSegAt(t, segs[n], s)
               /\ g[n - 1] <= s /\ Filters!EndOf(t, segs[n], s) = g[n]
               /\ n = 1 /\ left => s = 0
           at == [n \in 1..L |-> CHOOSE s \in 0..Len(t) : Earliest(n, s)]
<1>1. L \in Nat /\ DOMAIN segs = 1..L /\ \A i \in 1..L : Len(segs[i]) \in Nat
  BY SeqShape DEF Texts
<1>2. \A n \in 0..L : g[n] # Filters!NoMatch
  <2> DEFINE bad == {k \in 0..L : g[L - k] = Filters!NoMatch}
  <2>1. SUFFICES ASSUME bad # {} PROVE FALSE
    <3>1. \A n \in 0..L : L - n \in 0..L /\ L - (L - n) = n
      BY <1>1
    <3> QED BY <3>1
  <2>2. bad \in SUBSET Nat
    BY <1>1
  <2>3. Min(bad) \in bad /\ \A n \in bad : Min(bad) <= n
    <3> HIDE DEF bad
    <3> QED BY <2>1, <2>2, LeastNumber
  <2>4. PICK m \in 0..L : m = Min(bad) /\ g[L - m] = Filters!NoMatch
    BY <2>3
  <2>5. m # 0
    BY <1>1, <2>4
  <2> DEFINE n == L - m
  <2>6. n + 1 \in 1..L /\ n + 1 = L - (m - 1) /\ m - 1 \in 0..L /\ ~(m <= m - 1) /\ (n + 1) - 1 = n
    BY <1>1, <2>5
  <2>7. m - 1 \notin bad
    <3> HIDE DEF bad
    <3> QED BY <2>3, <2>4, <2>6
  <2>8. g[n + 1] # Filters!NoMatch
    BY <2>6, <2>7
  <2>9. g[n + 1] = Reaches(segs, t, left, g[n], n + 1)
    BY <2>6 DEF Run
  <2> QED BY <2>4, <2>8, <2>9 DEF Reaches
<1>3. ASSUME NEW n \in 1..L PROVE \E s \in 0..Len(t) : Earliest(n, s)
  <2>1. n - 1 \in 0..L /\ g[n - 1] \in 0..Len(t) /\ g[n - 1] # Filters!NoMatch
        /\ g[n] # Filters!NoMatch /\ g[n] = Reaches(segs, t, left, g[n - 1], n)
    <3>1. n - 1 \in 0..L /\ n \in 0..L
      BY <1>1
    <3> QED BY <1>2, <3>1 DEF Run
  <2>2. CASE n = 1 /\ left
    <3>1. g[0] = 0 /\ Filters!MatchSegAt(t, segs[1], 0) /\ g[1] = Filters!EndOf(t, segs[1], 0)
      BY <2>1, <2>2 DEF Reaches, Run
    <3> QED BY <2>2, <3>1
  <2>3. CASE ~(n = 1 /\ left)
    <3>1. g[n] = Filters!FindSeg(t, segs[n], g[n - 1])
      BY <2>1, <2>3 DEF Reaches
    <3> DEFINE starts == {s \in g[n - 1]..Len(t) : Filters!MatchSegAt(t, segs[n], s)}
    <3>2. starts # {}
      BY <1>1, <2>1, <3>1, FindsEarliest
    <3>3. PICK s \in starts : g[n] = Filters!EndOf(t, segs[n], s)
      BY <1>1, <2>1, <3>1, <3>2, FindsEarliest
    <3>4. s \in 0..Len(t) /\ g[n - 1] <= s /\ Filters!MatchSegAt(t, segs[n], s)
      BY <2>1
    <3> QED BY <2>3, <3>3, <3>4
  <2> QED BY <2>2, <2>3
<1> HIDE DEF Earliest
<1>4. \A n \in 1..L : at[n] \in 0..Len(t) /\ Earliest(n, at[n])
  BY <1>3
<1>5. DOMAIN at = 1..L /\ at = [n \in 1..L |-> at[n]]
  OBVIOUS
<1> HIDE DEF at
<1>6. at \in [1..L -> 0..Len(t)]
  BY <1>4, <1>5
<1>7. \A n \in 1..L : Filters!MatchSegAt(t, segs[n], at[n]) /\ Filters!EndOf(t, segs[n], at[n]) = g[n]
  BY <1>4 DEF Earliest
<1>8. ASSUME NEW i \in 2..L PROVE Filters!EndOf(t, segs[i - 1], at[i - 1]) <= at[i]
  <2>1. i \in 1..L /\ i - 1 \in 1..L
    BY <1>1
  <2>2. g[i - 1] <= at[i]
    BY <1>4, <2>1 DEF Earliest
  <2> QED BY <1>7, <2>1, <2>2
<1>9. left /\ L > 0 => at[1] = 0
  <2>1. L > 0 => 1 \in 1..L
    BY <1>1
  <2> QED BY <1>4, <2>1 DEF Earliest
<1> QED BY <1>6, <1>7, <1>8, <1>9 DEF Placed

(* So Advance fails only where nothing can be placed, and ends no later    *)
(* than any placement does.                                                *)
LEMMA AdvanceIsEarliest ==
    ASSUME NEW t, Len(t) \in Nat, NEW segs, Texts(segs), NEW left
    PROVE  LET a == Filters!Advance(segs, t, left)
               End(at) == Filters!EndOf(t, segs[Len(segs)], at[Len(segs)])
           IN  /\ Len(segs) = 0 => a = 0
               /\ \A at : Placed(segs, t, left, at) =>
                      a \in 0..Len(t) /\ (Len(segs) # 0 => a <= End(at))
               /\ a # Filters!NoMatch =>
                      \E at : Placed(segs, t, left, at) /\ (Len(segs) # 0 => End(at) = a)
<1> DEFINE L == Len(segs)
           End(at) == Filters!EndOf(t, segs[L], at[L])
<1>1. L \in Nat
  BY SeqShape DEF Texts
<1>2. PICK g : Run(g, segs, t, left) /\ Filters!Advance(segs, t, left) = g[L]
  BY AdvanceRuns
<1>3. L = 0 => g[L] = 0
  BY <1>2 DEF Run
<1>4. ASSUME NEW at, Placed(segs, t, left, at)
      PROVE  g[L] \in 0..Len(t) /\ (L # 0 => g[L] <= End(at))
  <2>1. L \in 0..L
    BY <1>1
  <2> QED BY <1>2, <1>4, <2>1, GreedyIsEarly
<1>5. ASSUME g[L] # Filters!NoMatch
      PROVE  \E at : Placed(segs, t, left, at) /\ (L # 0 => End(at) = g[L])
  <2>1. PICK at : /\ Placed(segs, t, left, at)
                  /\ \A n \in 1..L : Filters!EndOf(t, segs[n], at[n]) = g[n]
    BY <1>2, <1>5, GreedyPlaces
  <2>2. L # 0 => L \in 1..L
    BY <1>1
  <2>3. L # 0 => End(at) = g[L]
    BY <2>1, <2>2
  <2> QED BY <2>1, <2>3
<1> HIDE DEF End, L
<1>6. /\ L = 0 => Filters!Advance(segs, t, left) = 0
      /\ \A at : Placed(segs, t, left, at) =>
             /\ Filters!Advance(segs, t, left) \in 0..Len(t)
             /\ L # 0 => Filters!Advance(segs, t, left) <= End(at)
      /\ Filters!Advance(segs, t, left) # Filters!NoMatch =>
             \E at : /\ Placed(segs, t, left, at)
                     /\ L # 0 => End(at) = Filters!Advance(segs, t, left)
  BY <1>2, <1>3, <1>4, <1>5
<1> QED BY <1>6 DEF End, L

(* All segments but the last are texts, and the same ones.                 *)
LEMMA FrontShape ==
    ASSUME NEW segs, Texts(segs), Len(segs) > 0
    PROVE  LET front == Filters!Front(segs)
           IN  /\ Texts(front) /\ Len(front) = Len(segs) - 1
               /\ \A i \in 1..(Len(segs) - 1) : front[i] = segs[i]
<1> DEFINE L == Len(segs)
           front == SubSeq(segs, 1, L - 1)
<1>1. L \in Nat /\ DOMAIN segs = 1..L
  BY SeqShape DEF Texts
<1>2. front = Filters!Front(segs)
  BY DEF Filters!Front
<1> DEFINE S == {segs[i] : i \in 1..(L - 1)}
<1>3. \A i \in 1..(L - 1) : segs[i] \in S
  OBVIOUS
<1> HIDE DEF S, front, L
<1>4. front \in Seq(S) /\ Len(front) = L - 1 /\ \A i \in 1..(L - 1) : front[i] = segs[i]
  <2>1. 1 \in Int /\ L - 1 \in Int /\ L > 0
    BY <1>1 DEF L
  <2>2. /\ front \in Seq(S)
        /\ Len(front) = IF 1 <= L - 1 THEN (L - 1) - 1 + 1 ELSE 0
        /\ \A i \in 1..((L - 1) - 1 + 1) : front[i] = segs[1 + i - 1]
    BY <1>3, <2>1, SubSeqProperties DEF front
  <2>3. \A i \in 1..(L - 1) : i \in 1..((L - 1) - 1 + 1) /\ 1 + i - 1 = i
    BY <1>1
  <2> QED BY <1>1, <2>1, <2>2, <2>3
<1>5. DOMAIN front = 1..(L - 1)
  BY <1>4
<1>6. IsSeq(front)
  <2>1. ToSet(front) = {front[i] : i \in DOMAIN front}
    BY DEF ToSet
  <2>2. \A i \in 1..Len(front) : front[i] \in ToSet(front)
    BY <1>4, <1>5, <2>1
  <2> QED BY <1>4, <2>2 DEF IsSeq
<1>7. \A i \in DOMAIN front : IsSeq(front[i])
  BY <1>1, <1>4, <1>5 DEF Texts
<1> QED BY <1>2, <1>4, <1>6, <1>7 DEF Texts, L

(* A segment that does not end with a separator has one place where it     *)
(* ends the text.                                                          *)
Plain(seg) == seg = <<>> \/ seg[Len(seg)] # Filters!Sep
Ends(t, seg, s) == /\ s \in 0..Len(t) /\ Filters!MatchSegAt(t, seg, s)
                   /\ Filters!EndOf(t, seg, s) = Len(t)
LEMMA OneEnd ==
    ASSUME NEW t, Len(t) \in Nat, NEW seg, IsSeq(seg), Plain(seg), NEW s, Ends(t, seg, s)
    PROVE  s = Len(t) - Len(seg)
<1>1. Len(seg) \in Nat /\ DOMAIN seg = 1..Len(seg) /\ s \in 0..Len(t)
  BY SeqShape DEF Ends
<1>2. CASE Len(seg) = 0
  BY <1>1, <1>2 DEF Ends, Filters!EndOf
<1>3. CASE Len(seg) # 0
  <2>1. Len(seg) \in DOMAIN seg /\ seg # <<>>
    BY <1>1, <1>3
  <2>2. s + Len(seg) - 1 < Len(t)
    BY <2>1 DEF Ends, Plain, Filters!MatchSegAt
  <2> QED BY <1>1, <2>2 DEF Ends, Filters!EndOf
<1> QED BY <1>2, <1>3

(* A matcher with a right anchor: the last segment at its earliest end of  *)
(* the text, the others greedily before it.                                *)
Closed(segs, t, left, at) ==
    Placed(segs, t, left, at) /\ Ends(t, segs[Len(segs)], at[Len(segs)])
LEMMA GreedyBeforeTheEnd ==
    ASSUME NEW t, Len(t) \in Nat, NEW segs, Texts(segs), Len(segs) > 0, NEW left,
           Plain(segs[Len(segs)]), left => Len(segs) > 1
    PROVE  LET finals == {s \in 0..Len(t) : /\ Filters!MatchSegAt(t, segs[Len(segs)], s)
                                             /\ Filters!EndOf(t, segs[Len(segs)], s) = Len(t)}
               before == Filters!Advance(Filters!Front(segs), t, left)
           IN  (/\ finals # {}
                /\ before # Filters!NoMatch
                /\ before <= (CHOOSE s \in finals : \A r \in finals : s <= r))
               <=> \E at : Closed(segs, t, left, at)
<1> DEFINE L == Len(segs)
           last == segs[L]
           front == Filters!Front(segs)
           finals == {s \in 0..Len(t) : /\ Filters!MatchSegAt(t, last, s)
                                         /\ Filters!EndOf(t, last, s) = Len(t)}
           before == Filters!Advance(front, t, left)
           First(s) == \A r \in finals : s <= r
           final == CHOOSE s \in finals : First(s)
<1>1. L \in Nat /\ L > 0 /\ DOMAIN segs = 1..L /\ L \in 1..L /\ IsSeq(last)
  BY SeqShape DEF Texts
<1>2. /\ Texts(front) /\ Len(front) = L - 1
      /\ \A i \in 1..(L - 1) : front[i] = segs[i]
  BY FrontShape
<1>3. \A s : s \in finals <=> Ends(t, last, s)
  BY DEF Ends
<1> DEFINE End(at) == Filters!EndOf(t, segs[L - 1], at[L - 1])
<1>4. /\ L = 1 => before = 0
      /\ \A at : Placed(front, t, left, at) =>
             before \in 0..Len(t) /\ (L # 1 => before <= End(at))
      /\ before # Filters!NoMatch =>
             \E at : Placed(front, t, left, at) /\ (L # 1 => End(at) = before)
  <2>1. L - 1 = 0 <=> L = 1
    BY <1>1
  <2>2. L # 1 => front[L - 1] = segs[L - 1]
    BY <1>1, <1>2
  <2>3. /\ Len(front) = 0 => before = 0
        /\ \A at : Placed(front, t, left, at) =>
               /\ before \in 0..Len(t)
               /\ Len(front) # 0 => before <= Filters!EndOf(t, front[Len(front)], at[Len(front)])
        /\ before # Filters!NoMatch =>
               \E at : /\ Placed(front, t, left, at)
                       /\ Len(front) # 0 =>
                             Filters!EndOf(t, front[Len(front)], at[Len(front)]) = before
    <3> HIDE DEF front
    <3> QED BY <1>2, AdvanceIsEarliest
  <2> HIDE DEF front, before
  <2> QED BY <1>2, <2>1, <2>2, <2>3
<1>5. /\ \A i \in 1..L : i # L => i \in 1..(L - 1)
      /\ \A i \in 1..(L - 1) : i # L /\ i \in 1..L
      /\ \A i \in 2..L : i # L => i \in 2..(L - 1) /\ i \in 1..(L - 1)
  <2>1. L \in Nat
    BY <1>1
  <2> HIDE DEF L
  <2> QED BY <2>1
<1>6. ASSUME finals # {}, before # Filters!NoMatch, before <= final
      PROVE  \E at : Closed(segs, t, left, at)
  <2>1. final \in finals
    <3>1. finals \in SUBSET Nat
      OBVIOUS
    <3>2. \E s \in finals : First(s)
      <4> HIDE DEF finals
      <4> QED BY <1>6, <3>1, LeastNumber
    <3> HIDE DEF finals, First
    <3> QED BY <3>2
  <2>2. Ends(t, last, final) /\ final \in 0..Len(t)
    <3> HIDE DEF final, finals, last
    <3> QED BY <1>3, <2>1 DEF Ends
  <2>3. PICK at : Placed(front, t, left, at) /\ (L # 1 => End(at) = before)
    BY <1>4, <1>6
  <2> DEFINE whole == [i \in 1..L |-> IF i = L THEN final ELSE at[i]]
  <2> HIDE DEF final, finals, front, before
  <2> HIDE DEF L
  <2>4. whole[L] = final /\ \A i \in 1..(L - 1) : whole[i] = at[i] /\ at[i] \in 0..Len(t)
    <3>1. \A i \in 1..(L - 1) : at[i] \in 0..Len(t)
      BY <1>2, <2>3 DEF Placed
    <3> QED BY <1>1, <1>5, <3>1
  <2>5. whole \in [1..L -> 0..Len(t)]
    <3>1. \A i \in 1..L : whole[i] \in 0..Len(t)
      BY <1>5, <2>2, <2>4
    <3> QED BY <3>1
  <2> HIDE DEF whole
  <2>6. \A i \in 1..L : Filters!MatchSegAt(t, segs[i], whole[i])
    <3>1. \A i \in 1..(L - 1) : Filters!MatchSegAt(t, segs[i], whole[i])
      BY <1>2, <2>3, <2>4 DEF Placed
    <3> QED BY <1>5, <2>2, <2>4, <3>1 DEF Ends, L
  <2>7. ASSUME NEW i \in 2..L PROVE Filters!EndOf(t, segs[i - 1], whole[i - 1]) <= whole[i]
    <3>1. i - 1 \in 1..(L - 1)
      BY <1>1
    <3>2. CASE i = L
      BY <1>1, <1>6, <2>3, <2>4, <3>1, <3>2
    <3>3. CASE i # L
      <4>1. i \in 2..(L - 1) /\ i \in 1..(L - 1)
        BY <1>5, <3>3
      <4> QED BY <1>2, <2>3, <2>4, <3>1, <4>1 DEF Placed
    <3> QED BY <3>2, <3>3
  <2>8. left => whole[1] = 0
    <3>1. left => 1 \in 1..(L - 1) /\ L - 1 > 0
      BY <1>1
    <3> QED BY <1>2, <2>3, <2>4, <3>1 DEF Placed
  <2>9. Closed(segs, t, left, whole)
    <3>1. Placed(segs, t, left, whole)
      <4> HIDE DEF End
      <4> QED BY <2>5, <2>6, <2>7, <2>8 DEF Placed, L
    <3> QED BY <2>2, <2>4, <3>1 DEF Closed, L
  <2> QED BY <2>9
<1>7. ASSUME NEW at, Closed(segs, t, left, at)
      PROVE  finals # {} /\ before # Filters!NoMatch /\ before <= final
  <2>1. at[L] \in finals /\ at[L] \in 0..Len(t) /\ Placed(segs, t, left, at)
    BY <1>3, <1>7 DEF Closed, Ends
  <2>2. final = at[L]
    <3>1. \A s \in finals : s = Len(t) - Len(last)
      <4> HIDE DEF finals
      <4> QED BY <1>1, <1>3, OneEnd
    <3>2. at[L] = Len(t) - Len(last)
      BY <2>1, <3>1
    <3>3. finals = {at[L]}
      <4> HIDE DEF finals, last
      <4> QED BY <2>1, <3>1, <3>2
    <3> HIDE DEF finals
    <3>4. First(at[L])
      BY <2>1, <3>3
    <3> HIDE DEF First
    <3> QED BY <3>3, <3>4
  <2> DEFINE part == [i \in 1..(L - 1) |-> at[i]]
  <2> HIDE DEF final, finals, front, before
  <2>3. \A i \in 1..(L - 1) : i \in 1..L /\ part[i] = at[i] /\ at[i] \in 0..Len(t)
    BY <1>1, <2>1 DEF Placed
  <2>4. part \in [1..(L - 1) -> 0..Len(t)]
    BY <2>3
  <2> HIDE DEF part
  <2>5. \A i \in 1..(L - 1) : Filters!MatchSegAt(t, front[i], part[i])
    BY <1>2, <2>1, <2>3 DEF Placed
  <2>6. ASSUME NEW i \in 2..(L - 1)
        PROVE  Filters!EndOf(t, front[i - 1], part[i - 1]) <= part[i]
    <3>1. i \in 1..(L - 1) /\ i - 1 \in 1..(L - 1) /\ i \in 2..L
      BY <1>1
    <3> QED BY <1>2, <2>1, <2>3, <3>1 DEF Placed
  <2>7. left /\ L - 1 > 0 => part[1] = 0
    <3>1. L - 1 > 0 => 1 \in 1..(L - 1)
      BY <1>1
    <3> QED BY <1>1, <2>1, <2>3, <3>1 DEF Placed
  <2>8. Placed(front, t, left, part)
    BY <1>2, <2>4, <2>5, <2>6, <2>7 DEF Placed
  <2>9. before \in 0..Len(t) /\ (L # 1 => before <= End(part)) /\ (L = 1 => before = 0)
    BY <1>4, <2>8
  <2>10. before <= at[L]
    <3>1. CASE L = 1
      BY <2>1, <2>9, <3>1
    <3>2. CASE L # 1
      <4>1. L \in 2..L /\ L - 1 \in 1..(L - 1)
        BY <1>1, <3>2
      <4>2. End(part) <= at[L] /\ part[L - 1] \in 0..Len(t)
        BY <2>1, <2>3, <4>1 DEF Placed
      <4>3. Len(segs[L - 1]) \in Nat
        BY <1>1, <4>1, SeqShape DEF Texts
      <4>4. End(part) \in 0..Len(t)
        BY <4>2, <4>3, EndsInText
      <4> HIDE DEF End
      <4> QED BY <2>1, <2>9, <3>2, <4>2, <4>4
    <3> QED BY <3>1, <3>2
  <2>11. before # Filters!NoMatch
    BY <2>9 DEF Filters!NoMatch
  <2> QED BY <2>1, <2>2, <2>10, <2>11
<1> HIDE DEF finals, before, final
<1>8. (finals # {} /\ before # Filters!NoMatch /\ before <= final)
      <=> \E at : Closed(segs, t, left, at)
  BY <1>6, <1>7
<1> QED BY <1>8 DEF finals, before, final

(* Placing each segment as early as it goes misses nothing, for every      *)
(* text and every segments: a text matches exactly if the segments can be  *)
(* placed in it, and the last one at its end under a right anchor.  The    *)
(* two kinds of filters that the code reads otherwise are left out: one    *)
(* segment between two bars, and a separator before the final bar.         *)
(* (fake_engine.cc: FindSeg, MatchSegmentsV1.)                             *)
Kept(segments, right) ==
    IF right /\ Len(segments) > 1 /\ Filters!Last(segments) = <<>>
    THEN Filters!Front(segments) ELSE segments
THEOREM GreedyMissesNone ==
    ASSUME NEW t, IsSeq(t), NEW segments, Texts(segments), Len(segments) > 0,
           NEW left \in BOOLEAN, NEW right \in BOOLEAN, NEW segs, segs = Kept(segments, right),
           right => Plain(segs[Len(segs)]) /\ (left => Len(segs) > 1)
    PROVE  Filters!MatchSegments(segments, t, left, right)
           <=> \E at : /\ Placed(segs, t, left, at)
                       /\ right => Filters!EndOf(t, segs[Len(segs)], at[Len(segs)]) = Len(t)
<1>1. Len(t) \in Nat /\ Len(segments) \in Nat
  BY SeqShape DEF Texts
<1>2. Texts(segs) /\ Len(segs) > 0 /\ Len(segs) \in Nat
  <2>1. Texts(segs) /\ Len(segs) > 0
    BY <1>1, FrontShape DEF Kept
  <2> QED BY <2>1, SeqShape DEF Texts
<1>3. CASE ~right
  <2>1. Filters!MatchSegments(segments, t, left, right)
        <=> Filters!Advance(segs, t, left) # Filters!NoMatch
    BY <1>3 DEF Filters!MatchSegments, Kept
  <2>2. Filters!Advance(segs, t, left) # Filters!NoMatch => \E at : Placed(segs, t, left, at)
    BY <1>1, <1>2, AdvanceIsEarliest
  <2>3. ASSUME NEW at, Placed(segs, t, left, at)
        PROVE  Filters!Advance(segs, t, left) # Filters!NoMatch
    <3>1. Filters!Advance(segs, t, left) \in 0..Len(t)
      BY <1>1, <1>2, <2>3, AdvanceIsEarliest
    <3> QED BY <1>1, <3>1 DEF Filters!NoMatch
  <2> QED BY <1>3, <2>1, <2>2, <2>3
<1>4. CASE right
  <2> DEFINE finals == {s \in 0..Len(t) : /\ Filters!MatchSegAt(t, segs[Len(segs)], s)
                                           /\ Filters!EndOf(t, segs[Len(segs)], s) = Len(t)}
             before == Filters!Advance(Filters!Front(segs), t, left)
             Greedy == /\ finals # {}
                       /\ before # Filters!NoMatch
                       /\ before <= (CHOOSE s \in finals : \A r \in finals : s <= r)
  <2>1. Filters!MatchSegments(segments, t, left, right) <=> Greedy
    BY <1>4 DEF Filters!MatchSegments, Filters!Last, Kept
  <2>2. Greedy <=> \E at : Closed(segs, t, left, at)
    BY <1>1, <1>2, <1>4, GreedyBeforeTheEnd
  <2>3. \A at : Placed(segs, t, left, at) => at[Len(segs)] \in 0..Len(t)
    BY <1>2 DEF Placed
  <2>4. \A at : Closed(segs, t, left, at)
                <=> /\ Placed(segs, t, left, at)
                    /\ Filters!EndOf(t, segs[Len(segs)], at[Len(segs)]) = Len(t)
    <3>1. \A at : Placed(segs, t, left, at) =>
              Filters!MatchSegAt(t, segs[Len(segs)], at[Len(segs)])
      BY <1>2 DEF Placed
    <3> QED BY <2>3, <3>1 DEF Closed, Ends
  <2> HIDE DEF Greedy
  <2> QED BY <1>4, <2>1, <2>2, <2>4
<1> QED BY <1>3, <1>4
=============================================================================
