-------------------------- MODULE SettingsHostProofs --------------------------
(***************************************************************************)
(* The ledger of the settings host never counts more than what happened,   *)
(* counts exactly what happened while nothing went wrong, and keeps what   *)
(* it has whatever is killed or fails, while no two processes overlap: for *)
(* any number of processes, any schema, any requests and any retention.    *)
(***************************************************************************)
EXTENDS SettingsHost, FiniteSetTheorems, TLAPS

(* A table counts at most what another counts, on every day it has.        *)
Below(days, all) ==
    IsTable(days) /\ \A d \in DOMAIN days : \A e \in Events : days[d][e] <= Row(all, d)[e]

(* It counts all of it, on every day that is still retained.               *)
Full(days, all, from) == \A d \in DOMAIN all : d >= from => Row(days, d) = all[d]
Exact(days) == Full(days, counted, day - RetentionDays)

(* The members of a process, by what it is about to do.                    *)
HostFits(h, all) ==
    \/ h = Idle
    \/ /\ DOMAIN h = {"pc", "req", "days"} /\ h.pc \in {"count", "open"}
       /\ h.req \in Asks /\ Below(h.days, all)
    \/ /\ DOMAIN h = {"pc", "days", "fd"} /\ h.pc \in {"write", "rename"}
       /\ Below(h.days, all)

(* Everywhere a table of days is kept, it is bounded.                      *)
BoundInv ==
    /\ day \in Int
    /\ IsTable(counted)
    /\ Below(ledger.days, counted) /\ Below(tmp.days, counted)
    /\ DOMAIN hosts = Hosts
    /\ \A p \in Hosts : HostFits(hosts[p], counted)

(* What a process that runs alone has done, by what it is about to do.     *)
Alone(h) ==
    /\ ledger.kind # "corrupt"
    /\ h.pc = "count" => Exact(h.days)
    /\ h.pc = "open" => Exact(h.days)
    /\ h.pc = "write" => h.fd = "tmp" /\ tmp = Corrupt /\ Exact(h.days)
    /\ h.pc = "rename" => h.fd = "tmp" /\ tmp = Doc(h.days) /\ Exact(h.days)

(* As long as nothing went wrong, at most one process runs, it has all the *)
(* counts, and between two of them the ledger has.                         *)
ExactInv ==
    ~lost =>
        /\ \A p, q \in Hosts : hosts[p] # Idle /\ hosts[q] # Idle => p = q
        /\ \A p \in Hosts : hosts[p] # Idle => Alone(hosts[p])
        /\ (\A p \in Hosts : hosts[p] = Idle) => Exact(ledger.days)
        /\ ledger.kind = "corrupt" => counted = <<>>

(* What a process has that none overlaps, by what it is about to do.       *)
Sole(h) ==
    /\ ledger.kind # "corrupt" /\ Retained(h.days, ledger.days)
    /\ h.pc = "write" => h.fd = "tmp" /\ tmp = Corrupt
    /\ h.pc = "rename" => h.fd = "tmp" /\ tmp = Doc(h.days)

(* Unless processes overlap, at most one runs, and it keeps what the       *)
(* ledger has.                                                             *)
MixedInv ==
    ~mixed =>
        /\ \A p, q \in Hosts : hosts[p] # Idle /\ hosts[q] # Idle => p = q
        /\ \A p \in Hosts : hosts[p] # Idle => Sole(hosts[p])

LedgerInv == BoundInv /\ ExactInv /\ MixedInv
-----------------------------------------------------------------------------
(* Tables of days.                                                         *)

(* What a request counts of an event is a number.                          *)
LEMMA TimesIsNat ==
    ASSUME NEW req \in Asks, NEW e
    PROVE  Times(e, Counts(req)) \in Nat
<1> DEFINE at == {i \in DOMAIN Counts(req) : Counts(req)[i] = e}
<1>1. IsFiniteSet(DOMAIN Counts(req))
  BY CountsAssumption
<1>2. IsFiniteSet(at)
  BY <1>1, FS_Subset
<1> QED BY <1>2, FS_CardinalityType DEF Times

(* A day of a table has a number for each event, also when it has none.    *)
LEMMA RowType ==
    ASSUME NEW days, IsTable(days), NEW d
    PROVE  Row(days, d) \in [Events -> Nat]
BY DEF IsTable, Row, NoRow

(* Counting adds to one day, and to no other.                              *)
LEMMA RowOfCount ==
    ASSUME NEW days, IsTable(days), NEW d \in Int, NEW req \in Asks, NEW x
    PROVE  LET ev == Counts(req)
           IN  /\ IsTable(Count(days, d, ev))
               /\ \A e \in Events : Row(Count(days, d, ev), x)[e]
                      = Row(days, x)[e] + IF x = d THEN Times(e, ev) ELSE 0
<1> DEFINE ev == Counts(req)
           new == Count(days, d, ev)
<1>1. \A e \in Events : Times(e, ev) \in Nat
  BY TimesIsNat
<1>2. \A y : Row(days, y) \in [Events -> Nat]
  BY RowType
<1> HIDE DEF ev
<1>3. DOMAIN new = DOMAIN days \cup {d}
  BY DEF Count
<1>4. \A y \in DOMAIN new : new[y] =
          [e \in Events |-> Row(days, y)[e] + IF y = d THEN Times(e, ev) ELSE 0]
  BY DEF Count
<1> HIDE DEF new
<1>5. IsTable(new)
  <2> SUFFICES ASSUME NEW y \in DOMAIN new PROVE y \in Int /\ new[y] \in [Events -> Nat]
    BY DEF IsTable
  <2>1. y \in Int
    BY <1>3 DEF IsTable
  <2>2. \A e \in Events : Row(days, y)[e] + (IF y = d THEN Times(e, ev) ELSE 0) \in Nat
    BY <1>1, <1>2
  <2> QED BY <1>4, <2>1, <2>2
<1>6. ASSUME NEW e \in Events
      PROVE  Row(new, x)[e] = Row(days, x)[e] + IF x = d THEN Times(e, ev) ELSE 0
  <2>1. CASE x \in DOMAIN new
    BY <1>4, <2>1 DEF Row
  <2>2. CASE x \notin DOMAIN new
    <3>1. x # d /\ x \notin DOMAIN days
      BY <1>3, <2>2
    <3>2. Row(new, x)[e] = 0 /\ Row(days, x)[e] = 0
      BY <2>2, <3>1 DEF Row, NoRow
    <3> QED BY <3>1, <3>2
  <2> QED BY <2>1, <2>2
<1> QED BY <1>5, <1>6 DEF new, ev

(* Counting for itself and for all keeps a table below.                    *)
LEMMA CountBelow ==
    ASSUME NEW days, NEW all, Below(days, all), IsTable(all), NEW d \in Int, NEW req \in Asks
    PROVE  /\ Below(Count(days, d, Counts(req)), Count(all, d, Counts(req)))
           /\ Below(days, Count(all, d, Counts(req)))
<1> DEFINE ev == Counts(req)
           new == Count(days, d, ev)
           sum == Count(all, d, ev)
<1>1. IsTable(days)
  BY DEF Below
<1>2. IsTable(new) /\ IsTable(sum)
  BY <1>1, RowOfCount
<1>3. \A x : \A e \in Events :
          /\ Row(new, x)[e] = Row(days, x)[e] + IF x = d THEN Times(e, ev) ELSE 0
          /\ Row(sum, x)[e] = Row(all, x)[e] + IF x = d THEN Times(e, ev) ELSE 0
  BY <1>1, RowOfCount
<1>4. \A e \in Events : Times(e, ev) \in Nat
  BY TimesIsNat
<1>5. \A x : \A e \in Events : Row(days, x)[e] \in Nat /\ Row(all, x)[e] \in Nat
  BY <1>1, RowType
<1>6. \A x : \A e \in Events : Row(days, x)[e] <= Row(all, x)[e]
  <2> TAKE x
  <2> TAKE e \in Events
  <2>1. CASE x \in DOMAIN days
    BY <2>1 DEF Below, Row
  <2>2. CASE x \notin DOMAIN days
    <3>1. Row(days, x)[e] = 0
      BY <2>2 DEF Row, NoRow
    <3> QED BY <1>5, <3>1
  <2> QED BY <2>1, <2>2
<1> HIDE DEF ev, new, sum
<1>7. ASSUME NEW x, NEW e \in Events
      PROVE  Row(new, x)[e] <= Row(sum, x)[e] /\ Row(days, x)[e] <= Row(sum, x)[e]
  BY <1>3, <1>4, <1>5, <1>6
<1>8. Below(new, sum) /\ Below(days, sum)
  BY <1>1, <1>2, <1>7 DEF Below, Row
<1> QED BY <1>8 DEF new, sum, ev

(* Counting for itself and for all keeps a table full.                     *)
LEMMA CountFull ==
    ASSUME NEW days, NEW all, Below(days, all), IsTable(all), NEW d \in Int, NEW req \in Asks,
           NEW from \in Int, Full(days, all, from)
    PROVE  Full(Count(days, d, Counts(req)), Count(all, d, Counts(req)), from)
<1> DEFINE ev == Counts(req)
           new == Count(days, d, ev)
           sum == Count(all, d, ev)
<1>1. IsTable(days)
  BY DEF Below
<1>2. IsTable(new) /\ IsTable(sum)
  BY <1>1, RowOfCount
<1>3. \A x : \A e \in Events :
          /\ Row(new, x)[e] = Row(days, x)[e] + IF x = d THEN Times(e, ev) ELSE 0
          /\ Row(sum, x)[e] = Row(all, x)[e] + IF x = d THEN Times(e, ev) ELSE 0
  BY <1>1, RowOfCount
<1>4. DOMAIN sum = DOMAIN all \cup {d}
  BY DEF Count
<1> HIDE DEF ev, new, sum
<1>5. ASSUME NEW x \in DOMAIN sum, x >= from, NEW e \in Events
      PROVE  Row(days, x)[e] = Row(all, x)[e]
  <2>1. CASE x \in DOMAIN all
    BY <1>5, <2>1 DEF Full, Row
  <2>2. CASE x \notin DOMAIN all
    <3>1. Row(all, x)[e] = 0 /\ Row(days, x)[e] \in Nat
      BY <1>1, <2>2, RowType DEF Row, NoRow
    <3>2. x \in DOMAIN days => Row(days, x)[e] <= 0
      BY <3>1 DEF Below, Row
    <3>3. x \notin DOMAIN days => Row(days, x)[e] = 0
      BY DEF Row, NoRow
    <3> QED BY <3>1, <3>2, <3>3
  <2> QED BY <2>1, <2>2
<1>6. ASSUME NEW x \in DOMAIN sum, x >= from PROVE Row(new, x) = sum[x]
  <2>1. Row(sum, x) = sum[x]
    BY DEF Row
  <2>2. Row(new, x) \in [Events -> Nat] /\ Row(sum, x) \in [Events -> Nat]
    BY <1>2, RowType
  <2>3. \A e \in Events : Row(new, x)[e] = Row(sum, x)[e]
    BY <1>3, <1>5, <1>6
  <2> QED BY <2>1, <2>2, <2>3
<1>7. Full(new, sum, from)
  BY <1>6 DEF Full
<1> QED BY <1>7 DEF new, sum, ev

(* What is dropped was not retained, and nothing is added.                 *)
LEMMA WithinKeeps ==
    ASSUME NEW days, NEW all, Below(days, all), NEW from \in Int
    PROVE  /\ Below(Within(days, from), all)
           /\ Full(days, all, from) => Full(Within(days, from), all, from)
<1> DEFINE new == Within(days, from)
<1>1. DOMAIN new = {x \in DOMAIN days : x >= from} /\ \A x \in DOMAIN new : new[x] = days[x]
  BY DEF Within
<1> HIDE DEF new
<1>2. Below(new, all)
  BY <1>1 DEF Below, IsTable
<1>3. ASSUME Full(days, all, from), NEW d \in DOMAIN all, d >= from
      PROVE  Row(new, d) = all[d]
  BY <1>1, <1>3 DEF Full, Row
<1>4. Full(days, all, from) => Full(new, all, from)
  BY <1>3 DEF Full
<1> QED BY <1>2, <1>4 DEF new

-----------------------------------------------------------------------------
(* What a process has stays below what is counted.                         *)

(* A file that holds no table is below everything.                         *)
LEMMA NothingIsBelow ==
    ASSUME NEW all
    PROVE  Below(NoFile.days, all) /\ Below(Corrupt.days, all) /\ Below(Absent.days, all)
BY DEF Below, IsTable, NoFile, Corrupt, Absent

(* More is counted: what fitted still does.                                *)
LEMMA FitsMore ==
    ASSUME NEW all, NEW more, NEW h, HostFits(h, all),
           \A days : Below(days, all) => Below(days, more)
    PROVE  HostFits(h, more)
BY DEF HostFits

(* A process whose file has moved keeps what it has.                       *)
LEMMA MovedFits ==
    ASSUME NEW all, NEW h, HostFits(h, all), NEW from, NEW to
    PROVE  /\ HostFits(Moved(h, from, to), all)
           /\ (Moved(h, from, to) = Idle) <=> (h = Idle)
<1>1. CASE h.pc \in {"write", "rename"} /\ h.fd = from
  <2> DEFINE new == [h EXCEPT !.fd = to]
  <2>1. Moved(h, from, to) = new
    BY <1>1 DEF Moved
  <2>2. DOMAIN h = {"pc", "days", "fd"} /\ Below(h.days, all)
    BY <1>1 DEF HostFits, Idle
  <2>3. DOMAIN new = {"pc", "days", "fd"} /\ new.pc = h.pc /\ new.days = h.days
    BY <2>2
  <2>4. h # Idle /\ new # Idle
    BY <1>1, <2>3 DEF Idle
  <2> HIDE DEF new
  <2> QED BY <1>1, <2>1, <2>2, <2>3, <2>4 DEF HostFits
<1>2. CASE ~(h.pc \in {"write", "rename"} /\ h.fd = from)
  BY <1>2 DEF Moved
<1> QED BY <1>1, <1>2

(* One process takes a step, the files it leaves are bounded, and nothing  *)
(* is counted.                                                             *)
LEMMA OneFits ==
    ASSUME BoundInv, NEW p \in Hosts, NEW h, HostFits(h, counted), Step(p, h),
           UNCHANGED <<day, counted>>,
           Below(ledger'.days, counted), Below(tmp'.days, counted)
    PROVE  BoundInv'
<1>1. DOMAIN hosts' = Hosts /\ \A q \in Hosts : hosts'[q] = IF q = p THEN h ELSE hosts[q]
  BY DEF BoundInv, Step
<1>2. \A q \in Hosts : HostFits(hosts'[q], counted')
  BY <1>1 DEF BoundInv
<1> QED BY <1>1, <1>2 DEF BoundInv

(* The first invariant: all tables are bounded by what was counted.        *)
THEOREM BoundInvariant == Spec => []BoundInv
<1>1. Init => BoundInv
  <2> SUFFICES ASSUME Init PROVE BoundInv
    OBVIOUS
  <2>1. IsTable(ledger.days)
    BY LedgersAssumption DEF Init, IsLedger
  <2>2. Below(ledger.days, counted)
    <3>1. \A d \in DOMAIN ledger.days : \A e \in Events :
              ledger.days[d][e] \in Nat /\ Row(counted, d)[e] = ledger.days[d][e]
      BY <2>1 DEF Init, IsTable, Row
    <3> QED BY <2>1, <3>1 DEF Below
  <2>3. Below(tmp.days, counted)
    BY NothingIsBelow DEF Init
  <2> QED BY <2>1, <2>2, <2>3, LedgersAssumption DEF Init, BoundInv, HostFits
<1>2. BoundInv /\ [Next]_settingsVars => BoundInv'
  <2> SUFFICES ASSUME BoundInv, [Next]_settingsVars PROVE BoundInv'
    OBVIOUS
  <2>1. ASSUME NEW p \in Hosts, NEW req \in Asks, Ask(p, req) PROVE BoundInv'
    <3>1. CASE UNCHANGED hosts
      BY <2>1, <3>1 DEF Ask, BoundInv
    <3>2. CASE Step(p, [pc |-> "count", req |-> req, days |-> ledger.days])
      <4>1. HostFits([pc |-> "count", req |-> req, days |-> ledger.days], counted)
        BY DEF HostFits, BoundInv
      <4> QED BY <2>1, <3>2, <4>1, OneFits DEF Ask, BoundInv
    <3> QED BY <2>1, <3>1, <3>2 DEF Ask, LoadLedger
  <2>2. ASSUME NEW p \in Hosts, CountEvents(p) PROVE BoundInv'
    <3> DEFINE h == hosts[p]
               ev == Counts(h.req)
    <3>1. /\ DOMAIN h = {"pc", "req", "days"} /\ h.pc = "count" /\ h.req \in Asks
          /\ Below(h.days, counted)
      BY <2>2 DEF CountEvents, BoundInv, HostFits, Idle
    <3>2. CASE ev = <<>>
      <4>1. HostFits([h EXCEPT !.pc = "open"], counted)
        BY <3>1 DEF HostFits
      <4>2. Step(p, [h EXCEPT !.pc = "open"]) /\ UNCHANGED <<counted, day, ledger, tmp>>
        BY <2>2, <3>2 DEF CountEvents
      <4> QED BY <4>1, <4>2, OneFits DEF BoundInv
    <3>3. CASE ev # <<>>
      <4> DEFINE all == Count(counted, day, ev)
                 new == [h EXCEPT !.pc = "open", !.days = Count(@, day, ev)]
      <4>1. Step(p, new) /\ counted' = all /\ UNCHANGED <<day, ledger, tmp>>
        BY <2>2, <3>3 DEF CountEvents
      <4>2. day \in Int /\ IsTable(counted)
        BY DEF BoundInv
      <4>3. IsTable(all) /\ Below(Count(h.days, day, ev), all)
        BY <3>1, <4>2, RowOfCount, CountBelow
      <4>4. \A days : Below(days, counted) => Below(days, all)
        BY <3>1, <4>2, CountBelow
      <4>5. HostFits(new, all)
        <5>1. /\ DOMAIN new = {"pc", "req", "days"} /\ new.pc = "open" /\ new.req = h.req
              /\ new.days = Count(h.days, day, ev)
          BY <3>1
        <5> HIDE DEF new, ev, all, h
        <5> QED BY <3>1, <4>3, <5>1 DEF HostFits
      <4> HIDE DEF all, new, h, ev
      <4>6. DOMAIN hosts' = Hosts /\ \A q \in Hosts : hosts'[q] = IF q = p THEN new ELSE hosts[q]
        BY <4>1 DEF BoundInv, Step
      <4>7. \A q \in Hosts : HostFits(hosts'[q], all)
        BY <4>4, <4>5, <4>6, FitsMore DEF BoundInv
      <4> QED BY <4>1, <4>2, <4>3, <4>4, <4>6, <4>7 DEF BoundInv
    <3> QED BY <3>2, <3>3
  <2>3. ASSUME NEW p \in Hosts, OpenTmp(p) PROVE BoundInv'
    <3> DEFINE new == [pc |-> "write", days |-> Within(hosts[p].days, day - RetentionDays),
                       fd |-> "tmp"]
    <3>1. Below(hosts[p].days, counted) /\ day - RetentionDays \in Int
      BY <2>3, LedgersAssumption DEF OpenTmp, BoundInv, HostFits, Idle
    <3>2. HostFits(new, counted)
      BY <3>1, WithinKeeps DEF HostFits
    <3>3. Step(p, new) /\ tmp' = Corrupt /\ UNCHANGED <<day, counted, ledger>>
      BY <2>3 DEF OpenTmp
    <3> HIDE DEF new
    <3> QED BY <3>2, <3>3, NothingIsBelow, OneFits DEF BoundInv
  <2>4. ASSUME NEW p \in Hosts, WriteTmp(p) PROVE BoundInv'
    <3> DEFINE h == hosts[p]
               new == [h EXCEPT !.pc = "rename"]
    <3>1. DOMAIN h = {"pc", "days", "fd"} /\ h.pc = "write" /\ Below(h.days, counted)
      BY <2>4 DEF WriteTmp, BoundInv, HostFits, Idle
    <3>2. HostFits(new, counted)
      BY <3>1 DEF HostFits
    <3>3. \A file \in Written(tmp, h.days) \cup Written(ledger, h.days) : Below(file.days, counted)
      BY <3>1, NothingIsBelow DEF Written, Doc
    <3>4. Step(p, new) /\ UNCHANGED <<day, counted>>
      BY <2>4 DEF WriteTmp
    <3>5. /\ tmp' = tmp \/ tmp' \in Written(tmp, h.days)
          /\ ledger' = ledger \/ ledger' \in Written(ledger, h.days)
      BY <2>4 DEF WriteTmp
    <3> HIDE DEF h, new
    <3>6. Below(ledger'.days, counted) /\ Below(tmp'.days, counted)
      BY <3>3, <3>5 DEF BoundInv
    <3> QED BY <3>2, <3>4, <3>6, OneFits
  <2>5. ASSUME NEW p \in Hosts, WriteFails(p) PROVE BoundInv'
    <3>1. /\ tmp' = NoFile /\ UNCHANGED <<day, counted, ledger>>
          /\ hosts' = [q \in Hosts |-> IF q = p THEN Idle ELSE Moved(hosts[q], "tmp", "gone")]
      BY <2>5 DEF WriteFails
    <3>2. \A q \in Hosts : HostFits(Moved(hosts[q], "tmp", "gone"), counted)
      BY MovedFits DEF BoundInv
    <3>3. \A q \in Hosts : HostFits(hosts'[q], counted)
      BY <3>1, <3>2 DEF HostFits
    <3> QED BY <3>1, <3>3, NothingIsBelow DEF BoundInv
  <2>6. ASSUME NEW p \in Hosts, Rename(p) PROVE BoundInv'
    <3>1. CASE tmp = NoFile
      <4>1. HostFits(Idle, counted)
        BY DEF HostFits
      <4> QED BY <2>6, <3>1, <4>1, OneFits DEF Rename, BoundInv
    <3>2. CASE tmp # NoFile
      <4>1. /\ ledger' = tmp /\ tmp' = NoFile /\ UNCHANGED <<day, counted>>
            /\ hosts' = [q \in Hosts |-> IF q = p THEN Idle
                             ELSE Moved(Moved(hosts[q], "ledger", "gone"), "tmp", "ledger")]
        BY <2>6, <3>2 DEF Rename
      <4>2. \A q \in Hosts : HostFits(Moved(hosts[q], "ledger", "gone"), counted)
        BY MovedFits DEF BoundInv
      <4>3. \A q \in Hosts :
                HostFits(Moved(Moved(hosts[q], "ledger", "gone"), "tmp", "ledger"), counted)
        BY <4>2, MovedFits
      <4>4. \A q \in Hosts : HostFits(hosts'[q], counted)
        BY <4>1, <4>3 DEF HostFits
      <4> QED BY <4>1, <4>4, NothingIsBelow DEF BoundInv
    <3> QED BY <3>1, <3>2
  <2>7. ASSUME NEW p \in Hosts, Kill(p) PROVE BoundInv'
    <3>1. HostFits(Idle, counted)
      BY DEF HostFits
    <3> QED BY <2>7, <3>1, OneFits DEF Kill, BoundInv
  <2>8. ASSUME Midnight PROVE BoundInv'
    BY <2>8 DEF Midnight, BoundInv
  <2>9. CASE UNCHANGED settingsVars
    BY <2>9 DEF settingsVars, BoundInv
  <2> QED BY <2>1, <2>2, <2>3, <2>4, <2>5, <2>6, <2>7, <2>8, <2>9 DEF Next
<1> QED BY <1>1, <1>2, PTL DEF Spec

-----------------------------------------------------------------------------
(* What counts exactly.                                                    *)

(* Nobody else runs beside a process that runs alone.                      *)
LEMMA OthersAreIdle ==
    ASSUME ExactInv, ~lost, NEW p \in Hosts, hosts[p] # Idle
    PROVE  /\ \A q \in Hosts : q # p => hosts[q] = Idle
           /\ Alone(hosts[p])
BY DEF ExactInv

(* A process that took a step alone, and left everything as it should be.  *)
LEMMA StillAlone ==
    ASSUME NEW p \in Hosts, NEW h, DOMAIN hosts = Hosts, Step(p, h),
           \A q \in Hosts : q # p => hosts[q] = Idle,
           h # Idle, ledger'.kind # "corrupt",
           h.pc \in {"count", "open"} => Full(h.days, counted', day' - RetentionDays),
           h.pc \in {"write", "rename"} =>
                /\ h.fd = "tmp" /\ Full(h.days, counted', day' - RetentionDays)
                /\ tmp' = IF h.pc = "write" THEN Corrupt ELSE Doc(h.days)
    PROVE  ExactInv'
<1>1. hosts'[p] = h /\ \A q \in Hosts : q # p => hosts'[q] = Idle
  BY DEF Step
<1>2. Alone(h)'
  BY DEF Alone, Exact
<1>3. \A q \in Hosts : hosts'[q] # Idle => q = p
  BY <1>1
<1>4. \A q \in Hosts : hosts'[q] # Idle => Alone(hosts[q])'
  BY <1>1, <1>2, <1>3 DEF Alone, Exact
<1> QED BY <1>1, <1>3, <1>4 DEF ExactInv

(* The second invariant: as long as nothing went wrong, the process that   *)
(* runs has all the counts, and between two of them the ledger has.        *)
THEOREM ExactInvariant == Spec => []ExactInv
<1>1. Init => ExactInv
  <2> SUFFICES ASSUME Init PROVE ExactInv
    OBVIOUS
  <2>1. \A d \in DOMAIN counted : Row(ledger.days, d) = counted[d]
    BY DEF Init, Row
  <2>2. \A p \in Hosts : hosts[p] = Idle
    BY DEF Init
  <2>3. ledger.kind = "corrupt" => counted = <<>>
    BY LedgersAssumption DEF Init, IsLedger, Absent, Corrupt, Doc
  <2> QED BY <2>1, <2>2, <2>3 DEF ExactInv, Exact, Full
<1>2. BoundInv /\ ExactInv /\ [Next]_settingsVars => ExactInv'
  <2> SUFFICES ASSUME BoundInv, ExactInv, [Next]_settingsVars, ~lost' PROVE ExactInv'
    BY DEF ExactInv
  <2>0. DOMAIN hosts = Hosts /\ day \in Int /\ IsTable(counted) /\ RetentionDays \in Nat
    BY LedgersAssumption DEF BoundInv
  <2>1. ASSUME NEW p \in Hosts, NEW req \in Asks, Ask(p, req) PROVE ExactInv'
    <3> DEFINE new == [pc |-> "count", req |-> req, days |-> ledger.days]
    <3>1. CASE UNCHANGED <<hosts, lost>>
      BY <2>1, <3>1 DEF Ask, ExactInv, Alone, Exact
    <3>2. CASE /\ LoadContext /\ Step(p, new) /\ lost' = (lost \/ Running # {})
      <4>1. \A q \in Hosts : hosts[q] = Idle
        BY <3>2 DEF Running, BoundInv, HostFits
      <4>2. Exact(ledger.days)
        BY <3>2, <4>1 DEF ExactInv
      <4>3. ledger.kind # "corrupt"
        BY <3>2 DEF LoadContext, LoadLedger
      <4>4. UNCHANGED <<day, ledger, tmp, counted>>
        BY <2>1 DEF Ask
      <4>5. new.pc = "count" /\ new.days = ledger.days /\ new # Idle
        BY DEF Idle
      <4> HIDE DEF new
      <4> QED BY <2>0, <3>2, <4>1, <4>2, <4>3, <4>4, <4>5, StillAlone DEF Exact
    <3> QED BY <2>1, <3>1, <3>2 DEF Ask, LoadLedger
  <2>2. ASSUME NEW p \in Hosts, CountEvents(p) PROVE ExactInv'
    <3> DEFINE h == hosts[p]
               ev == Counts(h.req)
               from == day - RetentionDays
    <3>1. /\ DOMAIN h = {"pc", "req", "days"} /\ h.pc = "count" /\ h.req \in Asks
          /\ Below(h.days, counted) /\ h # Idle
      BY <2>2 DEF CountEvents, BoundInv, HostFits, Idle
    <3>2. ~lost /\ UNCHANGED <<day, ledger, tmp>>
      BY <2>2 DEF CountEvents
    <3>3. /\ \A q \in Hosts : q # p => hosts[q] = Idle
          /\ ledger.kind # "corrupt" /\ Full(h.days, counted, from)
      BY <3>1, <3>2, OthersAreIdle DEF Alone, Exact
    <3>4. CASE ev = <<>>
      <4> DEFINE new == [h EXCEPT !.pc = "open"]
      <4>1. new.pc = "open" /\ new.days = h.days /\ new # Idle
        BY <3>1 DEF Idle
      <4>2. Step(p, new) /\ counted' = counted
        BY <2>2, <3>4 DEF CountEvents
      <4> HIDE DEF new, h
      <4> QED BY <2>0, <3>2, <3>3, <4>1, <4>2, StillAlone
    <3>5. CASE ev # <<>>
      <4> DEFINE new == [h EXCEPT !.pc = "open", !.days = Count(@, day, ev)]
      <4>1. new.pc = "open" /\ new.days = Count(h.days, day, ev) /\ new # Idle
        BY <3>1 DEF Idle
      <4>2. Step(p, new) /\ counted' = Count(counted, day, ev)
        BY <2>2, <3>5 DEF CountEvents
      <4>3. from \in Int
        BY <2>0
      <4> HIDE DEF new, h, from
      <4>4. Full(Count(h.days, day, ev), Count(counted, day, ev), from)
        BY <2>0, <3>1, <3>3, <4>3, CountFull
      <4>5. day' - RetentionDays = from
        BY <3>2 DEF from
      <4> HIDE DEF ev
      <4> QED BY <2>0, <3>2, <3>3, <4>1, <4>2, <4>4, <4>5, StillAlone
    <3> QED BY <3>4, <3>5
  <2>3. ASSUME NEW p \in Hosts, OpenTmp(p) PROVE ExactInv'
    <3> DEFINE from == day - RetentionDays
               new == [pc |-> "write", days |-> Within(hosts[p].days, from), fd |-> "tmp"]
    <3>1. Below(hosts[p].days, counted) /\ from \in Int /\ hosts[p] # Idle /\ ~lost
      BY <2>0, <2>3 DEF OpenTmp, BoundInv, HostFits, Idle
    <3>2. /\ \A q \in Hosts : q # p => hosts[q] = Idle
          /\ ledger.kind # "corrupt" /\ Full(hosts[p].days, counted, from)
      BY <2>3, <3>1, OthersAreIdle DEF OpenTmp, Alone, Exact
    <3>3. Full(Within(hosts[p].days, from), counted, from)
      BY <3>1, <3>2, WithinKeeps
    <3>4. Step(p, new) /\ tmp' = Corrupt /\ UNCHANGED <<day, counted, ledger>>
      BY <2>3 DEF OpenTmp
    <3>5. /\ new.pc = "write" /\ new.days = Within(hosts[p].days, from) /\ new.fd = "tmp"
          /\ new # Idle
      BY DEF Idle
    <3>6. day' - RetentionDays = from
      BY <3>4
    <3> HIDE DEF new, from
    <3> QED BY <2>0, <3>2, <3>3, <3>4, <3>5, <3>6, StillAlone
  <2>4. ASSUME NEW p \in Hosts, WriteTmp(p) PROVE ExactInv'
    <3> DEFINE h == hosts[p]
               new == [h EXCEPT !.pc = "rename"]
               from == day - RetentionDays
    <3>1. DOMAIN h = {"pc", "days", "fd"} /\ h.pc = "write" /\ h # Idle /\ ~lost
      BY <2>4 DEF WriteTmp, BoundInv, HostFits, Idle
    <3>2. /\ \A q \in Hosts : q # p => hosts[q] = Idle
          /\ ledger.kind # "corrupt" /\ Full(h.days, counted, from)
          /\ h.fd = "tmp" /\ tmp = Corrupt
      BY <3>1, OthersAreIdle DEF Alone, Exact
    <3>3. Step(p, new) /\ UNCHANGED <<day, counted, ledger>> /\ tmp' \in Written(tmp, h.days)
      BY <2>4, <3>2 DEF WriteTmp
    <3>4. tmp' = Doc(h.days)
      BY <3>2, <3>3 DEF Written, Corrupt
    <3>5. new.pc = "rename" /\ new.days = h.days /\ new.fd = "tmp" /\ new # Idle
      BY <3>1, <3>2 DEF Idle
    <3>6. day' - RetentionDays = from
      BY <3>3
    <3> HIDE DEF new, from, h
    <3> QED BY <2>0, <3>2, <3>3, <3>4, <3>5, <3>6, StillAlone
  <2>5. ASSUME NEW p \in Hosts, WriteFails(p) PROVE ExactInv'
    BY <2>5 DEF WriteFails, Fault
  <2>6. ASSUME NEW p \in Hosts, Rename(p) PROVE ExactInv'
    <3> DEFINE h == hosts[p]
    <3>1. h.pc = "rename" /\ h # Idle /\ ~lost /\ UNCHANGED <<day, counted>>
      BY <2>6 DEF Rename, Idle
    <3>2. /\ \A q \in Hosts : q # p => hosts[q] = Idle
          /\ Exact(h.days) /\ tmp = Doc(h.days)
      BY <3>1, OthersAreIdle DEF Alone
    <3>3. tmp # NoFile /\ tmp.kind = "doc" /\ tmp.days = h.days
      BY <3>2 DEF Doc, NoFile
    <3>4. /\ ledger' = tmp
          /\ hosts' = [q \in Hosts |-> IF q = p THEN Idle
                           ELSE Moved(Moved(hosts[q], "ledger", "gone"), "tmp", "ledger")]
      BY <2>6, <3>3 DEF Rename
    <3>5. \A a, b : Moved(Idle, a, b) = Idle
      BY DEF Moved, Idle
    <3>6. \A q \in Hosts : hosts'[q] = Idle
      BY <3>2, <3>4, <3>5
    <3> QED BY <3>1, <3>2, <3>3, <3>4, <3>6 DEF ExactInv, Exact
  <2>7. ASSUME NEW p \in Hosts, Kill(p) PROVE ExactInv'
    BY <2>7 DEF Kill, Fault
  <2>8. ASSUME Midnight PROVE ExactInv'
    <3>1. day' = day + 1 /\ UNCHANGED <<ledger, tmp, hosts, counted, lost>>
      BY <2>8 DEF Midnight
    <3>2. \A days : Exact(days) => Full(days, counted', day' - RetentionDays)
      BY <2>0, <3>1 DEF Exact, Full, IsTable
    <3> QED BY <3>1, <3>2 DEF ExactInv, Alone, Exact
  <2>9. CASE UNCHANGED settingsVars
    BY <2>9 DEF settingsVars, ExactInv, Alone, Exact
  <2> QED BY <2>1, <2>2, <2>3, <2>4, <2>5, <2>6, <2>7, <2>8, <2>9 DEF Next
<1> QED BY <1>1, <1>2, BoundInvariant, PTL DEF Spec

(* The ledger never counts more than what happened, whatever the processes *)
(* do to each other's files, and exactly that as long as nothing went      *)
(* wrong.                                                                  *)
THEOREM LedgerStaysHonest == Spec => []LedgerIsHonest
<1>1. BoundInv /\ ExactInv => LedgerIsHonest
  <2> SUFFICES ASSUME BoundInv, ExactInv PROVE LedgerIsHonest
    OBVIOUS
  <2>1. \A d \in DOMAIN ledger.days : \A e \in Events : ledger.days[d][e] <= Row(counted, d)[e]
    BY DEF BoundInv, Below
  <2>2. ASSUME ~lost, Running = {}
        PROVE  Exact(ledger.days) /\ (ledger.kind = "corrupt" => counted = <<>>)
    <3>1. \A p \in Hosts : hosts[p] = Idle
      BY <2>2 DEF Running, BoundInv, HostFits
    <3> QED BY <2>2, <3>1 DEF ExactInv
  <2> QED BY <2>1, <2>2 DEF LedgerIsHonest, Exact, Full
<1> QED BY <1>1, BoundInvariant, ExactInvariant, PTL

-----------------------------------------------------------------------------
(* What is kept.                                                           *)

(* Counting takes nothing away, and neither does the retention.            *)
LEMMA CountRetains ==
    ASSUME day \in Int, NEW days, IsTable(days), NEW old, IsTable(old), Retained(days, old),
           NEW req \in Asks
    PROVE  Retained(Count(days, day, Counts(req)), old)
<1> DEFINE ev == Counts(req)
           new == Count(days, day, ev)
<1>1. \A x : \A e \in Events :
          Row(new, x)[e] = Row(days, x)[e] + IF x = day THEN Times(e, ev) ELSE 0
  BY RowOfCount
<1>2. \A e \in Events : Times(e, ev) \in Nat
  BY TimesIsNat
<1>3. \A x : \A e \in Events : Row(days, x)[e] \in Nat
  BY RowType
<1>4. \A x \in DOMAIN old : \A e \in Events : old[x][e] \in Nat
  BY DEF IsTable
<1> HIDE DEF ev, new
<1>5. Retained(new, old)
  BY <1>1, <1>2, <1>3, <1>4 DEF Retained
<1> QED BY <1>5 DEF new, ev

(* What is dropped was not retained.                                       *)
LEMMA WithinRetains ==
    ASSUME NEW days, NEW old, Retained(days, old)
    PROVE  Retained(Within(days, day - RetentionDays), old)
BY DEF Retained, Within, Row

(* A process that none overlaps took a step, and left the ledger alone.    *)
LEMMA StillSole ==
    ASSUME NEW p \in Hosts, NEW h, DOMAIN hosts = Hosts, Step(p, h),
           \A q \in Hosts : q # p => hosts[q] = Idle,
           h # Idle, ledger.kind # "corrupt", UNCHANGED <<ledger, day>>,
           Retained(h.days, ledger.days),
           h.pc \in {"write", "rename"} =>
                h.fd = "tmp" /\ tmp' = IF h.pc = "write" THEN Corrupt ELSE Doc(h.days)
    PROVE  MixedInv'
<1>1. hosts'[p] = h /\ \A q \in Hosts : q # p => hosts'[q] = Idle
  BY DEF Step
<1>2. Sole(h)'
  BY DEF Sole, Retained
<1>3. \A q \in Hosts : hosts'[q] # Idle => q = p
  BY <1>1
<1>4. \A q \in Hosts : hosts'[q] # Idle => Sole(hosts[q])'
  BY <1>1, <1>2, <1>3 DEF Sole, Retained
<1> QED BY <1>1, <1>3, <1>4 DEF MixedInv

(* Who ends last leaves nobody.                                            *)
LEMMA NobodyIsLeft ==
    ASSUME BoundInv, MixedInv, NEW p \in Hosts, hosts[p] # Idle, Leaves(p), ~mixed'
    PROVE  \A q \in Hosts : q # p => hosts[q] = Idle
<1>1. CASE ~mixed
  BY <1>1 DEF MixedInv
<1>2. CASE mixed
  <2>1. Running = {p}
    BY <1>2 DEF Leaves
  <2> QED BY <2>1 DEF Running, BoundInv, HostFits
<1> QED BY <1>1, <1>2

(* The third invariant: while processes do not overlap, the one that runs  *)
(* has what the ledger has.                                                *)
THEOREM MixedInvariant == Spec => []MixedInv
<1>1. Init => MixedInv
  BY DEF Init, MixedInv
<1>2. BoundInv /\ MixedInv /\ [Next]_settingsVars => MixedInv'
  <2> SUFFICES ASSUME BoundInv, MixedInv, [Next]_settingsVars, ~mixed' PROVE MixedInv'
    BY DEF MixedInv
  <2>0. /\ DOMAIN hosts = Hosts /\ day \in Int /\ RetentionDays \in Nat
        /\ IsTable(ledger.days)
    BY LedgersAssumption DEF BoundInv, Below
  <2>a. ASSUME NEW p \in Hosts, hosts[p] # Idle, ~mixed
        PROVE  /\ \A q \in Hosts : q # p => hosts[q] = Idle
               /\ Sole(hosts[p])
    BY <2>a DEF MixedInv
  <2>1. ASSUME NEW p \in Hosts, NEW req \in Asks, Ask(p, req) PROVE MixedInv'
    <3> DEFINE new == [pc |-> "count", req |-> req, days |-> ledger.days]
    <3>1. CASE UNCHANGED <<hosts, mixed>>
      BY <2>1, <3>1 DEF Ask, MixedInv, Sole, Retained
    <3>2. CASE LoadContext /\ Step(p, new) /\ mixed' = (mixed \/ Running # {})
      <4>1. \A q \in Hosts : hosts[q] = Idle
        BY <3>2 DEF Running, BoundInv, HostFits
      <4>2. ledger.kind # "corrupt"
        BY <3>2 DEF LoadContext, LoadLedger
      <4>3. UNCHANGED <<day, ledger>>
        BY <2>1 DEF Ask
      <4>4. new.pc = "count" /\ new.days = ledger.days /\ new # Idle
        BY DEF Idle
      <4>5. Retained(ledger.days, ledger.days)
        BY <2>0 DEF Retained, IsTable, Row
      <4> HIDE DEF new
      <4> QED BY <2>0, <3>2, <4>1, <4>2, <4>3, <4>4, <4>5, StillSole
    <3> QED BY <2>1, <3>1, <3>2 DEF Ask, LoadLedger
  <2>2. ASSUME NEW p \in Hosts, CountEvents(p) PROVE MixedInv'
    <3> DEFINE h == hosts[p]
               ev == Counts(h.req)
    <3>1. /\ DOMAIN h = {"pc", "req", "days"} /\ h.pc = "count" /\ h.req \in Asks
          /\ IsTable(h.days) /\ h # Idle
      BY <2>2 DEF CountEvents, BoundInv, HostFits, Below, Idle
    <3>2. ~mixed /\ UNCHANGED <<day, ledger>>
      BY <2>2 DEF CountEvents
    <3>3. /\ \A q \in Hosts : q # p => hosts[q] = Idle
          /\ ledger.kind # "corrupt" /\ Retained(h.days, ledger.days)
      BY <2>a, <3>1, <3>2 DEF Sole
    <3>4. CASE ev = <<>>
      <4> DEFINE new == [h EXCEPT !.pc = "open"]
      <4>1. new.pc = "open" /\ new.days = h.days /\ new # Idle
        BY <3>1 DEF Idle
      <4>2. Step(p, new)
        BY <2>2, <3>4 DEF CountEvents
      <4> HIDE DEF new, h
      <4> QED BY <2>0, <3>2, <3>3, <4>1, <4>2, StillSole
    <3>5. CASE ev # <<>>
      <4> DEFINE new == [h EXCEPT !.pc = "open", !.days = Count(@, day, ev)]
      <4>1. new.pc = "open" /\ new.days = Count(h.days, day, ev) /\ new # Idle
        BY <3>1 DEF Idle
      <4>2. Step(p, new)
        BY <2>2, <3>5 DEF CountEvents
      <4> HIDE DEF new, h
      <4>3. Retained(Count(h.days, day, ev), ledger.days)
        BY <2>0, <3>1, <3>3, CountRetains
      <4> HIDE DEF ev
      <4> QED BY <2>0, <3>2, <3>3, <4>1, <4>2, <4>3, StillSole
    <3> QED BY <3>4, <3>5
  <2>3. ASSUME NEW p \in Hosts, OpenTmp(p) PROVE MixedInv'
    <3> DEFINE new == [pc |-> "write", days |-> Within(hosts[p].days, day - RetentionDays),
                       fd |-> "tmp"]
    <3>1. hosts[p] # Idle /\ ~mixed
      BY <2>3 DEF OpenTmp, Idle
    <3>2. /\ \A q \in Hosts : q # p => hosts[q] = Idle
          /\ ledger.kind # "corrupt" /\ Retained(hosts[p].days, ledger.days)
      BY <2>a, <3>1 DEF Sole
    <3>3. Retained(Within(hosts[p].days, day - RetentionDays), ledger.days)
      BY <3>2, WithinRetains
    <3>4. Step(p, new) /\ tmp' = Corrupt /\ UNCHANGED <<day, ledger>>
      BY <2>3 DEF OpenTmp
    <3>5. /\ new.pc = "write" /\ new.fd = "tmp" /\ new # Idle
          /\ new.days = Within(hosts[p].days, day - RetentionDays)
      BY DEF Idle
    <3> HIDE DEF new
    <3> QED BY <2>0, <3>2, <3>3, <3>4, <3>5, StillSole
  <2>4. ASSUME NEW p \in Hosts, WriteTmp(p) PROVE MixedInv'
    <3> DEFINE h == hosts[p]
               new == [h EXCEPT !.pc = "rename"]
    <3>1. DOMAIN h = {"pc", "days", "fd"} /\ h.pc = "write" /\ h # Idle /\ ~mixed
      BY <2>4 DEF WriteTmp, BoundInv, HostFits, Idle
    <3>2. /\ \A q \in Hosts : q # p => hosts[q] = Idle
          /\ ledger.kind # "corrupt" /\ Retained(h.days, ledger.days)
          /\ h.fd = "tmp" /\ tmp = Corrupt
      BY <2>a, <3>1 DEF Sole
    <3>3. Step(p, new) /\ UNCHANGED <<day, ledger>> /\ tmp' \in Written(tmp, h.days)
      BY <2>4, <3>2 DEF WriteTmp
    <3>4. tmp' = Doc(h.days)
      BY <3>2, <3>3 DEF Written, Corrupt
    <3>5. new.pc = "rename" /\ new.days = h.days /\ new.fd = "tmp" /\ new # Idle
      BY <3>1, <3>2 DEF Idle
    <3> HIDE DEF new, h
    <3> QED BY <2>0, <3>2, <3>3, <3>4, <3>5, StillSole
  <2>5. ASSUME NEW p \in Hosts, WriteFails(p) PROVE MixedInv'
    <3>1. hosts[p] # Idle /\ Leaves(p)
      BY <2>5 DEF WriteFails, Idle
    <3>2. \A q \in Hosts : q # p => hosts[q] = Idle
      BY <3>1, NobodyIsLeft
    <3>3. \A q \in Hosts : hosts'[q] = Idle
      BY <2>5, <3>2 DEF WriteFails, Moved, Idle
    <3> QED BY <3>3 DEF MixedInv
  <2>6. ASSUME NEW p \in Hosts, Rename(p) PROVE MixedInv'
    <3>1. hosts[p] # Idle /\ Leaves(p)
      BY <2>6 DEF Rename, Idle
    <3>2. \A q \in Hosts : q # p => hosts[q] = Idle
      BY <3>1, NobodyIsLeft
    <3>3. \A a, b : Moved(Idle, a, b) = Idle
      BY DEF Moved, Idle
    <3>4. CASE tmp = NoFile
      <4>1. Step(p, Idle)
        BY <2>6, <3>4 DEF Rename
      <4>2. \A q \in Hosts : hosts'[q] = Idle
        BY <2>0, <3>2, <4>1 DEF Step
      <4> QED BY <4>2 DEF MixedInv
    <3>5. CASE tmp # NoFile
      <4>1. hosts' = [q \in Hosts |-> IF q = p THEN Idle
                         ELSE Moved(Moved(hosts[q], "ledger", "gone"), "tmp", "ledger")]
        BY <2>6, <3>5 DEF Rename
      <4>2. \A q \in Hosts : hosts'[q] = Idle
        BY <3>2, <3>3, <4>1
      <4> QED BY <4>2 DEF MixedInv
    <3> QED BY <3>4, <3>5
  <2>7. ASSUME NEW p \in Hosts, Kill(p) PROVE MixedInv'
    <3>1. \A q \in Hosts : q # p => hosts[q] = Idle
      BY <2>7, NobodyIsLeft DEF Kill
    <3>2. \A q \in Hosts : hosts'[q] = Idle
      BY <2>0, <2>7, <3>1 DEF Kill, Step
    <3> QED BY <3>2 DEF MixedInv
  <2>8. ASSUME Midnight PROVE MixedInv'
    <3>1. day' = day + 1 /\ UNCHANGED <<ledger, tmp, hosts, mixed>>
      BY <2>8 DEF Midnight
    <3>2. \A days : Retained(days, ledger.days) => Retained(days, ledger.days)'
      BY <2>0, <3>1 DEF Retained, IsTable
    <3> QED BY <3>1, <3>2 DEF MixedInv, Sole
  <2>9. CASE UNCHANGED settingsVars
    BY <2>9 DEF settingsVars, MixedInv, Sole, Retained
  <2> QED BY <2>1, <2>2, <2>3, <2>4, <2>5, <2>6, <2>7, <2>8, <2>9 DEF Next
<1> QED BY <1>1, <1>2, BoundInvariant, PTL DEF Spec

(* Whatever is killed or fails, the ledger keeps the counts it has, or     *)
(* stays as it is when it cannot be read, except under processes that      *)
(* overlap and until the last of them has ended.                           *)
THEOREM LedgerStaysKept == Spec => LedgerIsKept
<1>1. BoundInv /\ MixedInv /\ [Next]_settingsVars => [mixed \/ LedgerKept]_settingsVars
  <2> SUFFICES ASSUME BoundInv, MixedInv, Next, ~mixed PROVE LedgerKept
    BY DEF settingsVars
  <2>1. ASSUME ledger' = ledger PROVE LedgerKept
    <3>1. IsTable(ledger.days)
      BY DEF BoundInv, Below
    <3>2. Retained(ledger.days, ledger.days)
      BY <3>1 DEF Retained, IsTable, Row
    <3> QED BY <2>1, <3>2 DEF LedgerKept
  <2>2. ASSUME NEW p \in Hosts, WriteTmp(p) PROVE ledger' = ledger
    <3>1. Sole(hosts[p])
      BY <2>2 DEF MixedInv, WriteTmp, Idle
    <3> QED BY <2>2, <3>1 DEF WriteTmp, Sole
  <2>3. ASSUME NEW p \in Hosts, Rename(p) PROVE LedgerKept
    <3>1. Sole(hosts[p]) /\ hosts[p].pc = "rename"
      BY <2>3 DEF MixedInv, Rename, Idle
    <3>2. /\ tmp.kind = "doc" /\ tmp.days = hosts[p].days
          /\ ledger.kind # "corrupt" /\ Retained(tmp.days, ledger.days)
      BY <3>1 DEF Sole, Doc
    <3>3. ledger' = tmp
      BY <2>3, <3>2 DEF Rename, NoFile
    <3> QED BY <3>2, <3>3 DEF LedgerKept
  <2>4. (\E p \in Hosts : WriteTmp(p) \/ Rename(p)) \/ ledger' = ledger
    BY DEF Next, Ask, CountEvents, OpenTmp, WriteFails, Kill, Midnight
  <2> QED BY <2>1, <2>2, <2>3, <2>4
<1> QED BY <1>1, BoundInvariant, MixedInvariant, PTL DEF Spec, LedgerIsKept

=============================================================================
