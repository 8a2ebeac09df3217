---------------------------- MODULE SettingsHost ----------------------------
(***************************************************************************)
(* settings_host (src/settings/host): one process per request.  A request  *)
(* that opens a section, searches or sets a value is counted in a ledger   *)
(* file, by day; the ledger is loaded, changed in memory and written to a  *)
(* file of one fixed name, which is renamed over it.  Nothing keeps two    *)
(* processes apart.                                                        *)
(***************************************************************************)
EXTENDS SettingsOps, TLC

CONSTANTS
    Hosts,          \* the processes that may run at once
    Asks,           \* requests: [method, ...]
    Schema, State,  \* the schema file and the policy state file
    Ledgers,        \* what the ledger may be at first
    RetentionDays,
    MaxDay, MaxAsks, MaxFaults

VARIABLES
    day,        \* the UTC date
    ledger,     \* the ledger file
    tmp,        \* the file being written, or none
    hosts,      \* the processes
    counted,    \* day -> event -> how often it was counted, with what was in the ledger at first
    lost,       \* whether a process was ever killed, failed or overlapped another
    mixed,      \* whether two have overlapped since last no process ran
    asks, faults

settingsVars == <<day, ledger, tmp, hosts, counted, lost, mixed, asks, faults>>

(* Events: <<"opened", section>>, <<"queries">>, <<"changed", key>>.       *)
Events == {<<"queries">>} \cup {<<"opened", s.id>> : s \in ToSet(Schema.sections)}
          \cup {<<"changed", k>> : k \in Keys(Schema)}
NoRow == [e \in Events |-> 0]
Row(days, d) == IF d \in DOMAIN days THEN days[d] ELSE NoRow
Times(e, events) == Cardinality({i \in DOMAIN events : events[i] = e})
Count(days, d, events) ==
    [x \in DOMAIN days \cup {d} |->
        [e \in Events |-> Row(days, x)[e] + IF x = d THEN Times(e, events) ELSE 0]]
WithinLess(days, from) == [d \in {x \in DOMAIN days : x > from} |-> days[d]]   \* mutant: one day less
Within(days, from) == [d \in {x \in DOMAIN days : x >= from} |-> days[d]]

Absent == [kind |-> "absent", days |-> <<>>]
Corrupt == [kind |-> "corrupt", days |-> <<>>]      \* also a file cut short, or of another schema
Doc(days) == [kind |-> "doc", days |-> days]
NoFile == [kind |-> "none", days |-> <<>>]
IsTable(days) == \A d \in DOMAIN days : d \in Int /\ days[d] \in [Events -> Nat]
IsLedger(file) == file \in {Absent, Corrupt, Doc(file.days)} /\ IsTable(file.days)
Idle == [pc |-> "idle"]

ASSUME LedgersAssumption == RetentionDays \in Nat /\ \A file \in Ledgers : IsLedger(file)

Init ==
    /\ day = RetentionDays
    /\ ledger \in Ledgers
    /\ tmp = NoFile
    /\ hosts = [p \in Hosts |-> Idle]
    /\ counted = ledger.days
    /\ lost = FALSE /\ mixed = FALSE
    /\ asks = 0 /\ faults = 0

Step(p, h) == hosts' = [hosts EXCEPT ![p] = h]
Running == {p \in Hosts : hosts[p].pc # "idle"}
Leaves(p) == mixed' = (mixed /\ Running # {p})
Fault == faults < MaxFaults /\ faults' = faults + 1 /\ lost' = TRUE

-----------------------------------------------------------------------------
(* What a request counts, and whether it saves: a query once per setting   *)
(* it finds, a section that a link opened, a setting that was accepted.    *)
Counts(req) ==
    CASE req.method = "search" ->
            LET found == MatchQuery(req.query, BuildIndex(Schema))
            IN  [i \in DOMAIN SelectSeq(found, LAMBDA r : r.kind = "setting") |-> <<"queries">>]
      [] req.method = "router-resolve" ->
            LET r == Resolve(Schema, req.anchor)
            IN  IF r.kind \in {"section", "setting"} THEN <<<<"opened", r.section>>>> ELSE <<>>
      [] req.method = "set" ->
            IF SetRefusal(Schema, req.key, req.value) = "ok"
            THEN <<<<"changed", req.key>>>> ELSE <<>>
      [] OTHER -> <<>>
ASSUME CountsAssumption == \A req \in Asks : IsFiniteSet(DOMAIN Counts(req))
Saves(req) == req.method = "search" \/ Counts(req) # <<>>

(* LoadContext: a ledger that cannot be read stops every request.          *)
LoadLedgerAsEmpty(file) == [ok |-> TRUE, days |-> file.days]    \* mutant
LoadLedger(file) == [ok |-> file.kind # "corrupt", days |-> file.days]
LoadContext == LoadSchema(Schema) /\ LoadState(State) /\ LoadLedger(ledger).ok

Ask(p, req) ==
    /\ hosts[p] = Idle
    /\ asks < MaxAsks /\ asks' = asks + 1
    /\ IF ~LoadContext \/ ~Saves(req)
       THEN UNCHANGED <<hosts, lost, mixed>>
       ELSE /\ Step(p, [pc |-> "count", req |-> req, days |-> LoadLedger(ledger).days])
            /\ lost' = (lost \/ Running # {})
            /\ mixed' = (mixed \/ Running # {})
    /\ UNCHANGED <<day, ledger, tmp, counted, faults>>

(* The day is read when the event is counted, and again for the retention. *)
CountEvents(p) ==
    /\ hosts[p].pc = "count"
    /\ LET events == Counts(hosts[p].req)
       IN  IF events = <<>>
           THEN Step(p, [hosts[p] EXCEPT !.pc = "open"]) /\ UNCHANGED counted
           ELSE /\ Step(p, [hosts[p] EXCEPT !.pc = "open", !.days = Count(@, day, events)])
                /\ counted' = Count(counted, day, events)
    /\ UNCHANGED <<day, ledger, tmp, lost, mixed, asks, faults>>

(* mutant: the ledger itself is opened *)
OpenLedger(p) ==
    /\ hosts[p].pc = "open"
    /\ ledger' = Corrupt
    /\ Step(p, [pc |-> "write", days |-> Within(hosts[p].days, day - RetentionDays),
                fd |-> "ledger"])
    /\ UNCHANGED <<day, tmp, counted, lost, mixed, asks, faults>>

(* fopen truncates the file that has the name, which another process may   *)
(* be writing or about to rename.                                          *)
OpenTmp(p) ==
    /\ hosts[p].pc = "open"
    /\ tmp' = Corrupt
    /\ Step(p, [pc |-> "write", days |-> Within(hosts[p].days, day - RetentionDays),
                fd |-> "tmp"])
    /\ UNCHANGED <<day, ledger, counted, lost, mixed, asks, faults>>

(* What a write leaves in a file: its own bytes, or a mix with what        *)
(* another process has put there.                                          *)
Written(old, days) == IF old.kind = "doc" THEN {Doc(days), Corrupt} ELSE {Doc(days)}

WriteTmp(p) ==
    /\ hosts[p].pc = "write"
    /\ Step(p, [hosts[p] EXCEPT !.pc = "rename"])
    /\ CASE hosts[p].fd = "tmp" -> tmp' \in Written(tmp, hosts[p].days) /\ UNCHANGED ledger
         [] hosts[p].fd = "ledger" -> ledger' \in Written(ledger, hosts[p].days) /\ UNCHANGED tmp
         [] OTHER -> UNCHANGED <<tmp, ledger>>
    /\ UNCHANGED <<day, counted, lost, mixed, asks, faults>>

(* Names move under the open files of the others.                          *)
Moved(h, from, to) == IF h.pc \in {"write", "rename"} /\ h.fd = from THEN [h EXCEPT !.fd = to] ELSE h

WriteFails(p) ==
    /\ hosts[p].pc = "write" /\ Fault /\ Leaves(p)
    /\ tmp' = NoFile
    /\ hosts' = [q \in Hosts |-> IF q = p THEN Idle ELSE Moved(hosts[q], "tmp", "gone")]
    /\ UNCHANGED <<day, ledger, counted, asks>>

Rename(p) ==
    /\ hosts[p].pc = "rename" /\ Leaves(p)
    /\ IF tmp = NoFile
       THEN UNCHANGED <<ledger, tmp>> /\ Step(p, Idle)
       ELSE /\ ledger' = tmp
            /\ tmp' = NoFile
            /\ hosts' = [q \in Hosts |->
                    IF q = p THEN Idle
                    ELSE Moved(Moved(hosts[q], "ledger", "gone"), "tmp", "ledger")]
    /\ UNCHANGED <<day, counted, lost, asks, faults>>

Kill(p) ==
    /\ hosts[p] # Idle /\ Fault /\ Leaves(p)
    /\ Step(p, Idle)
    /\ UNCHANGED <<day, ledger, tmp, counted, asks>>

Midnight ==
    /\ day < MaxDay
    /\ day' = day + 1
    /\ UNCHANGED <<ledger, tmp, hosts, counted, lost, mixed, asks, faults>>

Next ==
    \/ \E p \in Hosts : \/ \E req \in Asks : Ask(p, req)
                        \/ CountEvents(p)
                        \/ OpenTmp(p) \/ WriteTmp(p) \/ WriteFails(p)
                        \/ Rename(p)
                        \/ Kill(p)
    \/ Midnight

Spec == Init /\ [][Next]_settingsVars
-----------------------------------------------------------------------------
(* The ledger never counts more than what happened, whatever processes     *)
(* overlap, fail or are killed; and as long as none did, it counts exactly *)
(* what happened, for every day within the retention (counters.cc).        *)
LedgerIsHonest ==
    /\ \A d \in DOMAIN ledger.days : \A e \in Events : ledger.days[d][e] <= Row(counted, d)[e]
    /\ ~lost /\ Running = {} =>
          /\ ledger.kind = "corrupt" => counted = <<>>
          /\ ledger.kind # "corrupt" =>
                \A d \in DOMAIN counted : d >= day - RetentionDays =>
                    Row(ledger.days, d) = counted[d]

(* Whatever process is killed or fails, at whatever step: a ledger that can *)
(* be read still can be, and has every count it had for a day within the    *)
(* retention; one that cannot be read is kept as it is.  Only processes     *)
(* that overlap do otherwise, until the last of them has ended: from then   *)
(* on what they left behind is kept too (counters.h: KILL-SAFE; counters.cc:*)
(* Load, SaveAt; settings_host.cc: LoadContext).                            *)
Retained(days, old) ==
    \A d \in DOMAIN old : d >= day - RetentionDays =>
        \A e \in Events : old[d][e] <= Row(days, d)[e]
LedgerKept ==
    IF ledger.kind = "corrupt" THEN ledger' = ledger
    ELSE ledger'.kind # "corrupt" /\ Retained(ledger'.days, ledger.days)
LedgerIsKept == [][mixed \/ LedgerKept]_settingsVars
=============================================================================
