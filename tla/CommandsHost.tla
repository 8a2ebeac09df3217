---------------------------- MODULE CommandsHost ----------------------------
(***************************************************************************)
(* commands_host (src/commands/host): one process per request over a store *)
(* directory with the registry, the shortcuts and the trust bindings.      *)
(* Requests come one after the other; a process may be killed at any step, *)
(* a write may fail, and a power loss may leave of a file what had reached *)
(* the disk.                                                               *)
(***************************************************************************)
EXTENDS CommandOps, TLC

CONSTANTS
    Roster,         \* the checked-in registry document
    Initial,        \* the trust entries the policy side has written
    Identities,     \* identities: numbers above 0
    Requests,       \* the requests a caller may make
    MaxRequests, MaxFaults

VARIABLES
    disk,       \* file -> contents
    maybe,      \* file -> the contents a power loss may leave
    proc,       \* the running process
    reply,      \* the last reply
    promised,   \* bindings reported as persisted and not touched since
    cut,        \* files whose writing was cut short, since last written whole
    harmed,     \* files a power loss has changed, since last written whole
    requests, faults

vars == <<disk, maybe, proc, reply, promised, cut, harmed, requests, faults>>

Files == {"registry", "shortcuts", "trust"}
Absent == [kind |-> "absent", data |-> <<>>]
Empty == [kind |-> "empty", data |-> <<>>]
Torn == [kind |-> "torn", data |-> <<>>]
Doc(data) == [kind |-> "doc", data |-> data]

Idle == [pc |-> "idle"]
NoReply == [status |-> "none"]
Palette == 0        \* the identity a palette dial writes for: the empty one

ASSUME HostAssumption ==
    /\ Roster \in Seq(ToSet(Roster)) /\ Initial \in Seq(ToSet(Initial))
    /\ \A e \in ToSet(Initial) : DOMAIN e = DOMAIN EntryOf(Unset, Palette, Unset)
    /\ \A req \in Requests :
          req.method \in {"bindings-set", "bindings-clear", "register", "invoke"}
    /\ Unset # Palette

Init ==
    /\ disk = [f \in Files |-> IF f = "trust" THEN Doc(Initial) ELSE Absent]
    /\ maybe = [f \in Files |-> {disk[f]}]
    /\ proc = Idle
    /\ reply = NoReply
    /\ promised = {}
    /\ cut = {} /\ harmed = {}
    /\ requests = 0 /\ faults = 0

-----------------------------------------------------------------------------
(* The file primitives.                                                    *)

Now(f, content, leaves) ==
    /\ disk' = [disk EXCEPT ![f] = content]
    /\ maybe' = [maybe EXCEPT ![f] = @ \cup {content} \cup leaves]

(* The kernel writes a file back.                                          *)
Settle(f) ==
    /\ maybe[f] # {disk[f]}
    /\ maybe' = [maybe EXCEPT ![f] = {disk[f]}]
    /\ UNCHANGED <<disk, proc, reply, promised, cut, harmed, requests, faults>>

(* write-tmp, fsync, rename: the stdio buffer is flushed by fclose, after  *)
(* the fsync, so the rename may reach the disk before the bytes do.        *)
RenameInPlace(f, data) == \E c \in {Doc(data), Torn} : Now(f, c, {Empty, Torn})  \* mutant: no tmp file
RenameInto(f, data) == Now(f, Doc(data), {Empty, Torn})

Fail == faults < MaxFaults /\ faults' = faults + 1
NoFault == UNCHANGED faults

-----------------------------------------------------------------------------
(* A request.  The caller names the method; a binding request takes back   *)
(* the promises about what it is going to touch.                           *)
Touched(req) ==
    {b \in promised : req.method \in {"bindings-set", "bindings-clear"}
                      /\ req.id \in {b.command_id, Unset}}

Start(req) ==
    /\ proc = Idle
    /\ requests < MaxRequests
    /\ requests' = requests + 1
    /\ proc' = [pc |-> "registry", req |-> req]
    /\ promised' = promised \ Touched(req)
    /\ reply' = NoReply
    /\ UNCHANGED <<disk, maybe, cut, harmed, faults>>

Finish(r) == proc' = Idle /\ reply' = r
StoreError == [status |-> "kStoreError", method |-> proc.req.method]

(* LoadContext, first half: the registry, or else the roster, which is     *)
(* written in place.                                                       *)
LoadRegistry ==
    /\ proc.pc = "registry"
    /\ LET content == disk["registry"]
           kept == FromJsonRegistry(content.data)
           roster == FromJsonRegistry(Roster)
       IN  CASE content.kind = "doc" /\ kept.ok ->
                   proc' = [pc |-> "handle", req |-> proc.req, reg |-> kept.reg]
                   /\ UNCHANGED reply
             [] content.kind \in {"absent", "empty"} /\ roster.ok ->
                   proc' = [pc |-> "open", req |-> proc.req, reg |-> roster.reg,
                            then |-> "handle"]
                   /\ UNCHANGED reply
             [] OTHER -> Finish(StoreError)
    /\ UNCHANGED <<disk, maybe, promised, cut, harmed, requests, faults>>

(* WriteAll of the registry: fopen truncates, then fwrite and fclose.  A   *)
(* short fwrite is reported; what fclose cannot write is not.              *)
Persisted == [status |-> "registered", method |-> "register", id |-> proc.req.id]
AfterWrite(written) ==
    IF proc.then = "handle"
    THEN IF written THEN proc' = [pc |-> "handle", req |-> proc.req, reg |-> proc.reg]
                         /\ UNCHANGED reply
         ELSE Finish(StoreError)
    ELSE Finish(IF written THEN Persisted ELSE [status |-> "kIoError", method |-> "register"])

OpenRegistry ==
    /\ proc.pc = "open"
    /\ Now("registry", Empty, {})
    /\ proc' = [proc EXCEPT !.pc = "fill"]
    /\ cut' = cut \cup {"registry"}
    /\ UNCHANGED <<reply, promised, harmed, requests>> /\ NoFault

OpenFails ==
    /\ proc.pc = "open" /\ Fail
    /\ AfterWrite(FALSE)
    /\ UNCHANGED <<disk, maybe, promised, cut, harmed, requests>>

FillRegistry ==
    /\ proc.pc = "fill"
    /\ Now("registry", Doc(ToJsonRegistry(proc.reg)), {Torn})
    /\ AfterWrite(TRUE)
    /\ cut' = cut \ {"registry"} /\ harmed' = harmed \ {"registry"}
    /\ UNCHANGED <<promised, requests>> /\ NoFault

FillFails(reported) ==
    /\ proc.pc = "fill" /\ Fail
    /\ \E c \in {Empty, Torn} : Now("registry", c, {})
    /\ AfterWrite(~reported)
    /\ UNCHANGED <<promised, cut, harmed, requests>>

-----------------------------------------------------------------------------
(* The second half of LoadContext, and the method.  Save(f, data, r) goes  *)
(* on to write; r tells the reply from whether the file was written.       *)
Bindings == disk["shortcuts"].data
Trust == disk["trust"].data
Reg == proc.reg
Outcome(status, req) == [status |-> status, method |-> req.method, req |-> req]

Save(f, data) ==
    /\ proc' = [pc |-> "rename", req |-> proc.req, file |-> f, data |-> data]
    /\ UNCHANGED reply

BindingsSet(req) ==
    IF ~KnownId(Reg, req.id) \/ BindRefusal(Bindings, req.id, req.acc) # "ok"
    THEN Finish(Outcome("not-bound", req))
    ELSE Save("shortcuts", Bind(Bindings, req.id, req.acc))

BindingsClear(req) ==
    IF req.id = Unset THEN Save("shortcuts", <<>>)
    ELSE IF WithoutCommand(Bindings, req.id) = Bindings THEN Finish(Outcome("not-bound", req))
    ELSE Save("shortcuts", WithoutCommand(Bindings, req.id))

Register(req) ==
    LET c == Command(req.desc, req.scope, req.predicate)
    IN  IF /\ ValidateDescriptor(req.desc)
           /\ c.predicate \in Registered
           /\ RegisterRefusal(Reg, c) = "ok"
        THEN /\ proc' = [pc |-> "open", req |-> [id |-> c.id, method |-> "register"],
                         reg |-> Append(Reg, c), then |-> "reply"]
             /\ UNCHANGED reply
        ELSE Finish(Outcome("rejected", req))

Dials == "action.dial.standard" :> "kStandard" @@ "action.dial.shield" :> "kShield"
         @@ "action.dial.fortress" :> "kFortress"

Invoke(req) ==
    LET status == InvokeStatus(Reg, req.id, req.source, req.confirmed)
        handler == Find(Reg, req.id).desc["handler"]
    IN  IF status = "authorized" /\ handler \in DOMAIN Dials
        THEN Save("trust", SetTrust(Trust, req.site, Palette, Dials[handler]))
        ELSE IF status = "authorized" /\ handler = "action.dial.reset"
        THEN Save("trust", WithoutTrust(Trust, req.site, Palette))
        ELSE Finish(Outcome(status, req))

Handle ==
    /\ proc.pc = "handle"
    /\ LET req == proc.req
       IN  IF disk["shortcuts"].kind \in {"empty", "torn"} THEN Finish(StoreError)
           ELSE IF req.method = "bindings-set" THEN BindingsSet(req)
           ELSE IF req.method = "bindings-clear" THEN BindingsClear(req)
           ELSE IF req.flag # "on" THEN Finish(Outcome("rejected", req))
           ELSE IF req.method = "register" THEN Register(req)
           ELSE Invoke(req)
    /\ UNCHANGED <<disk, maybe, promised, cut, harmed, requests, faults>>

(* Save of the shortcuts, AtomicWrite of the trust file.                   *)
Promise(req, data) ==
    IF req.method = "bindings-set" THEN promised \cup {Last(data)} ELSE promised

Rename ==
    /\ proc.pc = "rename"
    /\ RenameInto(proc.file, proc.data)
    /\ proc' = [pc |-> "answer", req |-> proc.req, data |-> proc.data]
    /\ cut' = cut \ {proc.file} /\ harmed' = harmed \ {proc.file}
    /\ UNCHANGED <<reply, promised, requests>> /\ NoFault

SaveFails ==
    /\ proc.pc = "rename" /\ Fail
    /\ Finish(Outcome(IF proc.file = "trust" THEN "rejected" ELSE "not-persisted", proc.req))
    /\ UNCHANGED <<disk, maybe, promised, cut, harmed, requests>>

Answer ==
    /\ proc.pc = "answer"
    /\ promised' = Promise(proc.req, proc.data)
    /\ Finish(Outcome("done", proc.req))
    /\ UNCHANGED <<disk, maybe, cut, harmed, requests, faults>>

-----------------------------------------------------------------------------
Kill ==
    /\ proc # Idle /\ Fail
    /\ proc' = Idle /\ reply' = NoReply
    /\ UNCHANGED <<disk, maybe, promised, cut, harmed, requests>>

PowerLoss ==
    /\ Fail
    /\ \E left \in [Files -> UNION {maybe[f] : f \in Files}] :
          /\ \A f \in Files : left[f] \in maybe[f]
          /\ disk' = left
          /\ maybe' = [f \in Files |-> {left[f]}]
          /\ harmed' = harmed \cup {f \in Files : left[f] # disk[f]}
          /\ promised' = IF left["shortcuts"] = disk["shortcuts"] THEN promised ELSE {}
    /\ proc' = Idle /\ reply' = NoReply
    /\ UNCHANGED <<cut, requests>>

Next ==
    \/ \E req \in Requests : Start(req)
    \/ LoadRegistry
    \/ OpenRegistry \/ OpenFails
    \/ FillRegistry \/ (\E reported \in BOOLEAN : FillFails(reported))
    \/ Handle
    \/ Rename \/ SaveFails
    \/ Answer
    \/ Kill
    \/ PowerLoss
    \/ \E f \in Files : Settle(f)

Spec == Init /\ [][Next]_vars
-----------------------------------------------------------------------------
(* The requests that only ask, over a loaded registry.                     *)
List(flag, reg) == IF flag = "on" THEN reg ELSE <<>>
MenuModel(flag, reg, snap) ==
    LET shown == List(flag, reg)
        items(at) == [k \in 1..Cardinality(at) |->
            [id |-> Keep(shown, at)[k].id,
             available |-> Evaluate(Keep(shown, at)[k].predicate, snap)]]
    IN  [tier1 |-> items(Tier1(shown)), tools |-> items(DOMAIN shown \ Tier1(shown))]
-----------------------------------------------------------------------------
Readable(f) == disk[f].kind \in {"absent", "doc"}
(* A file that cannot be read has a cause, and so has a refused request.   *)
FilesAreReadable ==
    /\ \A f \in Files : Readable(f) \/ f \in cut \cup harmed
    /\ reply.status = "kStoreError" => cut \cup harmed # {} \/ disk["registry"] = Absent

(* A binding reported as persisted is in the file until a request touches  *)
(* its command or a power loss changes the file, whatever is killed, fails *)
(* or is refused in between.  And whatever was bound, rebound and cleared, *)
(* one accelerator runs one command and no reserved one runs any; as long  *)
(* as no fault has set the registry back, a bound command is registered    *)
(* (shortcuts.cc: Bind, Load and Save).                                    *)
PromisedStaysBound ==
    /\ promised \subseteq ToSet(Bindings)
    /\ IsInjective([i \in DOMAIN Bindings |-> Bindings[i].accelerator])
    /\ IsInjective([i \in DOMAIN Bindings |-> Bindings[i].command_id])
    /\ \A b \in ToSet(Bindings) : b.accelerator \notin Reserved
    /\ faults = 0 /\ disk["registry"].kind = "doc" =>
          \A b \in ToSet(Bindings) : \E e \in ToSet(disk["registry"].data) :
              e.desc["id"] = b.command_id

(* The host reads back the registry it wrote, every registration that was  *)
(* accepted included: the roster first, unique ids, and a menu that never  *)
(* shows more always-visible controls than the ceiling, which lists every  *)
(* command once and offers what the palette offers (registry.cc).          *)
Snapshots == [dial_writable : BOOLEAN, capabilities : {{}, {"tor.engine"}},
              active_identity : {Unset, Palette}]
RegistryReadsBack ==
    disk["registry"].kind = "doc" =>
        LET back == FromJsonRegistry(disk["registry"].data)
            reg == back.reg
        IN  /\ back.ok
            /\ IsPrefix(FromJsonRegistry(Roster).reg, reg)
            /\ IsInjective([i \in DOMAIN reg |-> reg[i].id])
            /\ \A snap \in Snapshots :
                  LET menu == MenuModel("on", reg, snap)
                  IN  /\ Len(menu.tier1) <= MaxTier1
                      /\ Len(menu.tier1) + Len(menu.tools) = Len(reg)

(* No killed or failed process locks the host out of the shortcuts or the  *)
(* trust file: only a power loss does, and of the registry a write that    *)
(* was cut short.  A request is refused for the store's sake only then; a  *)
(* registry that can be read is one the host accepts (shortcuts.cc,        *)
(* policy_state.cc: tmp, rename; protocol.cc: WriteAll; registry.cc).      *)
LockoutHasACause == FilesAreReadable /\ RegistryReadsBack

(* The trust file changes only by an authorised dial of this process, and  *)
(* for no other site; nor for another identity of that site, unless an     *)
(* entry for every identity was set aside.  A file that cannot be read     *)
(* counts as empty, and is lost (protocol.cc: MInvoke, policy_state.cc).   *)
Held(site, identity) == CurrentTrust(Trust, site, identity)
Subjects == {<<e.domain, e.identity>> : e \in ToSet(Initial)}
DialsStayApart ==
    [][disk'["trust"] # disk["trust"] /\ NoFault =>
        /\ proc.req.method = "invoke"
        /\ proc.req.source # "page"
        /\ \E e \in ToSet(disk["registry"].data) \cup ToSet(Roster) :
              /\ e.desc["id"] = proc.req.id
              /\ e.desc["danger_class"] = "destructive" => proc.req.confirmed
        /\ \A s \in Subjects :
              \/ Held(s[1], s[2])' = Held(s[1], s[2])
              \/ s[1] = proc.req.site /\ s[2] \in {Palette, Unset}
              \/ s[1] = proc.req.site /\ \E e \in ToSet(Trust) : e.domain = s[1] /\ e.identity = Unset
      ]_vars

(* A dial that is reported as done is what the policy resolver then        *)
(* resolves for the site, for every identity without an entry of its own,  *)
(* whatever older entries the policy side had written (protocol.cc,        *)
(* policy_state.cc; resolve.cc).                                           *)
Policy == INSTANCE PolicyResolve
AsBinding(e) == [e EXCEPT !.identity = IF @ = Unset THEN 0 ELSE @]
AsAsked(site, identity) ==
    [domain |-> site, identity |-> identity, trust |-> "", exceptions |-> <<>>,
     bindings |-> [i \in DOMAIN Trust |-> AsBinding(Trust[i])], enterprise |-> [present |-> FALSE]]
DialTakesEffect ==
    reply.status = "done" =>
    \A e \in ToSet(Roster) :
        LET site == reply.req.site
            known == {s[2] : s \in {t \in Subjects : t[1] = site}} \ {Unset, Palette}
        IN  reply.method = "invoke" /\ e.desc["id"] = reply.req.id
            /\ e.desc["handler"] \in DOMAIN Dials =>
               \A i \in (Identities \cup {Palette}) \ known :
                  Policy!TierOf(AsAsked(site, i)) = Policy!TrustTierIndex(Dials[e.desc["handler"]])
=============================================================================
