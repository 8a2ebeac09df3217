-------------------------- MODULE CommandsHostProofs --------------------------
(***************************************************************************)
(* The commands host: what it may be locked out of, what a reported        *)
(* binding and a reported dial are worth, and whom a dial may touch, for   *)
(* any roster, any trust file, any requests and any number of faults.      *)
(***************************************************************************)
EXTENDS CommandsHost, PlacesProofs

-----------------------------------------------------------------------------
(* The registry.                                                           *)

(* A command reads back as it was written.                                 *)
Stable(c) ==
    /\ ValidateDescriptor(c.desc) /\ c.id = c.desc["id"] /\ c.scope \in KnownScopes
    /\ c = Command(c.desc, c.scope, c.predicate)

(* A registered command keeps its id and scope through the descriptor that *)
(* is written for it (registry.cc: ToJsonRegistry, FromJsonRegistry).      *)
LEMMA CommandsAreStable ==
    ASSUME NEW desc, NEW scope, NEW predicate, ValidateDescriptor(desc)
    PROVE  LET c == Command(desc, scope, predicate) IN Stable(c) /\ c.desc = desc
<1> DEFINE c == Command(desc, scope, predicate)
<1>1. /\ c.desc = desc /\ c.id = desc["id"]
      /\ c.scope = ScopeFromString(IF scope = Unset THEN "global" ELSE scope)
      /\ c.predicate = IF predicate = Unset THEN "always" ELSE predicate
  BY DEF Command
<1> HIDE DEF c
<1>2. c.scope \in KnownScopes
  BY <1>1 DEF ScopeFromString, KnownScopes
<1>3. ScopeFromString(IF c.scope = Unset THEN "global" ELSE c.scope) = c.scope
  BY <1>2, CommandsAssumption DEF ScopeFromString
<1>4. (IF c.predicate = Unset THEN "always" ELSE c.predicate) = c.predicate
  BY <1>1
<1>5. c = [desc |-> c.desc, id |-> c.desc["id"], scope |-> c.scope, predicate |-> c.predicate]
  BY <1>1 DEF c, Command
<1>6. c = Command(c.desc, c.scope, c.predicate)
  BY <1>3, <1>4, <1>5 DEF Command
<1> QED BY <1>1, <1>2, <1>6 DEF c, Stable

(* What a registration asks for.                                           *)
LEMMA NothingRefused ==
    ASSUME NEW reg, NEW c
    PROVE  RegisterRefusal(reg, c) = "ok" <=>
              /\ ValidateDescriptor(c.desc) /\ ~KnownId(reg, c.id)
              /\ ~(c.desc["attention_tier"] = "tier1" /\ Tier1Count(reg) >= MaxTier1)
BY DEF RegisterRefusal

(* How many always-visible controls come before one.                       *)
LEMMA Tier1Before ==
    ASSUME NEW reg, IsSeq(reg)
    PROVE  /\ Tier1(reg) \in SUBSET (1..Len(reg))
           /\ IsFiniteSet(Tier1(reg)) /\ Tier1Count(reg) \in Nat
           /\ \A i \in Tier1(reg) :
                 /\ Place(i, Tier1(reg)) \in 1..Tier1Count(reg)
                 /\ Tier1Count(SubSeq(reg, 1, i - 1)) = Place(i, Tier1(reg)) - 1
<1> DEFINE at == Tier1(reg)
<1>1. Len(reg) \in Nat /\ DOMAIN reg = 1..Len(reg)
  BY SeqShape
<1>2. at \in SUBSET (1..Len(reg))
  BY <1>1 DEF Tier1
<1>3. /\ IsFiniteSet(at) /\ Cardinality(at) \in Nat
      /\ \A i \in at : Place(i, at) \in 1..Cardinality(at)
  <2> HIDE DEF at
  <2> QED BY <1>1, <1>2, PlacesGrow
<1>4. ASSUME NEW i \in at PROVE Tier1Count(SubSeq(reg, 1, i - 1)) = Place(i, at) - 1
  <2> DEFINE part == SubSeq(reg, 1, i - 1)
             upto == {j \in at : j <= i}
  <2>1. i \in 1..Len(reg) /\ i - 1 \in 0..Len(reg)
    BY <1>1, <1>2
  <2>2. DOMAIN part = 1..(i - 1) /\ \A j \in 1..(i - 1) : part[j] = reg[j]
    <3> HIDE DEF at
    <3> QED BY <2>1, FirstMembers
  <2>3. Tier1(part) = upto \ {i}
    <3>1. \A j \in 1..(i - 1) : j \in DOMAIN reg /\ j <= i /\ j # i
      BY <1>1, <2>1
    <3>2. \A j \in DOMAIN reg : j <= i /\ j # i => j \in 1..(i - 1)
      BY <1>1, <2>1
    <3> HIDE DEF part
    <3> QED BY <2>2, <3>1, <3>2 DEF Tier1
  <2>4. IsFiniteSet(upto) /\ i \in upto
    BY <1>3, <2>1, FS_Subset
  <2> HIDE DEF upto
  <2>5. Cardinality(upto \ {i}) = Cardinality(upto) - 1
    BY <2>4, FS_RemoveElement
  <2>6. Cardinality(upto) = Place(i, at)
    BY DEF upto, Place
  <2> QED BY <2>3, <2>5, <2>6 DEF Tier1Count
<1> QED BY <1>2, <1>3, <1>4 DEF Tier1Count

(* What the registry is, whatever was registered.                          *)
GoodReg(reg) ==
    /\ IsSeq(reg)
    /\ \A i \in DOMAIN reg : Stable(reg[i])
    /\ \A i, j \in DOMAIN reg : reg[i].id = reg[j].id => i = j
    /\ Tier1Count(reg) <= MaxTier1

(* A good registry is read back as it was written.                         *)
LEMMA ReadsBack ==
    ASSUME NEW reg, GoodReg(reg)
    PROVE  LET back == FromJsonRegistry(ToJsonRegistry(reg)) IN back.ok /\ back.reg = reg
<1> DEFINE entries == ToJsonRegistry(reg)
           back == FromJsonRegistry(entries)
<1>1. Len(reg) \in Nat /\ DOMAIN reg = 1..Len(reg) /\ reg = [i \in DOMAIN reg |-> reg[i]]
  BY SeqShape DEF GoodReg, IsSeq
<1>2. DOMAIN entries = DOMAIN reg
      /\ \A i \in DOMAIN reg : /\ entries[i].desc = reg[i].desc
                               /\ entries[i].scope = reg[i].scope
                               /\ entries[i].predicate = reg[i].predicate
  BY DEF ToJsonRegistry, Entry
<1> HIDE DEF entries
<1>3. \A i \in DOMAIN reg :
          Command(entries[i].desc, entries[i].scope, entries[i].predicate) = reg[i]
  BY <1>2 DEF GoodReg, Stable
<1>4. back.reg = [i \in DOMAIN entries |->
                     Command(entries[i].desc, entries[i].scope, entries[i].predicate)]
  BY DEF FromJsonRegistry
<1>5. back.reg = reg
  BY <1>1, <1>2, <1>3, <1>4
<1>6. back.ok <=> \A i \in DOMAIN entries :
                    /\ ValidateDescriptor(entries[i].desc)
                    /\ entries[i].scope \in KnownScopes \cup {Unset}
                    /\ RegisterRefusal(SubSeq(back.reg, 1, i - 1), back.reg[i]) = "ok"
  BY DEF FromJsonRegistry
<1> HIDE DEF back
<1>7. ASSUME NEW i \in DOMAIN reg PROVE RegisterRefusal(SubSeq(reg, 1, i - 1), reg[i]) = "ok"
  <2>1. i \in 1..Len(reg) /\ i - 1 \in 0..Len(reg)
    BY <1>1
  <2>2. /\ DOMAIN SubSeq(reg, 1, i - 1) = 1..(i - 1)
        /\ \A j \in 1..(i - 1) : SubSeq(reg, 1, i - 1)[j] = reg[j]
    BY <2>1, FirstMembers DEF GoodReg
  <2>3. \A j \in 1..(i - 1) : j \in DOMAIN reg /\ j # i
    BY <1>1, <2>1
  <2>4. ~KnownId(SubSeq(reg, 1, i - 1), reg[i].id)
    BY <2>2, <2>3 DEF KnownId, GoodReg
  <2>5. reg[i].desc["attention_tier"] = "tier1" => Tier1Count(SubSeq(reg, 1, i - 1)) < MaxTier1
    <3> SUFFICES ASSUME reg[i].desc["attention_tier"] = "tier1"
                 PROVE  Tier1Count(SubSeq(reg, 1, i - 1)) < MaxTier1
      OBVIOUS
    <3>1. i \in Tier1(reg)
      BY DEF Tier1
    <3>2. /\ Place(i, Tier1(reg)) \in 1..Tier1Count(reg) /\ Tier1Count(reg) \in Nat
          /\ Tier1Count(SubSeq(reg, 1, i - 1)) = Place(i, Tier1(reg)) - 1
      BY <3>1, Tier1Before DEF GoodReg
    <3> QED BY <3>2, CommandsAssumption DEF GoodReg
  <2>6. ~(reg[i].desc["attention_tier"] = "tier1"
          /\ Tier1Count(SubSeq(reg, 1, i - 1)) >= MaxTier1)
    <3> SUFFICES ASSUME reg[i].desc["attention_tier"] = "tier1"
                 PROVE  ~(Tier1Count(SubSeq(reg, 1, i - 1)) >= MaxTier1)
      OBVIOUS
    <3>1. i \in Tier1(reg)
      BY DEF Tier1
    <3>2. Tier1Count(SubSeq(reg, 1, i - 1)) \in Int
      BY <3>1, Tier1Before DEF GoodReg
    <3> QED BY <2>5, <3>2, CommandsAssumption
  <2> QED BY <2>4, <2>6, NothingRefused DEF GoodReg, Stable
<1>8. back.ok
  BY <1>2, <1>5, <1>6, <1>7 DEF GoodReg, Stable
<1> QED BY <1>5, <1>8 DEF back, entries

(* A document that is accepted is a good registry of its entries.          *)
LEMMA AcceptedIsGood ==
    ASSUME NEW entries, IsSeq(entries), FromJsonRegistry(entries).ok
    PROVE  LET reg == FromJsonRegistry(entries).reg
           IN  /\ GoodReg(reg) /\ DOMAIN reg = DOMAIN entries
               /\ \A i \in DOMAIN entries : reg[i].desc = entries[i].desc
<1> DEFINE reg == FromJsonRegistry(entries).reg
           n == Len(entries)
<1>1. n \in Nat /\ DOMAIN entries = 1..n
  BY SeqShape
<1>2. reg = [i \in 1..n |-> Command(entries[i].desc, entries[i].scope, entries[i].predicate)]
  BY <1>1 DEF FromJsonRegistry
<1>3. \A i \in 1..n : /\ ValidateDescriptor(entries[i].desc)
                      /\ RegisterRefusal(SubSeq(reg, 1, i - 1), reg[i]) = "ok"
  BY <1>1 DEF FromJsonRegistry
<1> HIDE DEF reg, n
<1>4. DOMAIN reg = 1..n /\ reg = [i \in 1..n |-> reg[i]]
      /\ \A i \in 1..n : reg[i] = Command(entries[i].desc, entries[i].scope, entries[i].predicate)
  BY <1>2
<1>5. IsSeq(reg) /\ Len(reg) = n
  BY <1>1, <1>4, FunctionIsSeq
<1>6. \A i \in 1..n : Stable(reg[i]) /\ reg[i].desc = entries[i].desc
  BY <1>3, <1>4, CommandsAreStable
<1>7. \A i \in 1..n : \A j \in 1..(i - 1) : reg[i].id # reg[j].id
  <2> SUFFICES ASSUME NEW i \in 1..n, NEW j \in 1..(i - 1) PROVE reg[i].id # reg[j].id
    OBVIOUS
  <2>1. i - 1 \in 0..n
    BY <1>1
  <2>2. /\ DOMAIN SubSeq(reg, 1, i - 1) = 1..(i - 1)
        /\ SubSeq(reg, 1, i - 1)[j] = reg[j]
    BY <1>5, <2>1, FirstMembers
  <2>3. ~KnownId(SubSeq(reg, 1, i - 1), reg[i].id)
    BY <1>3, NothingRefused
  <2> QED BY <2>2, <2>3 DEF KnownId
<1>8. ASSUME NEW i \in 1..n, NEW j \in 1..n, reg[i].id = reg[j].id PROVE i = j
  <2> SUFFICES ASSUME i # j PROVE FALSE
    OBVIOUS
  <2>1. i \in 1..(j - 1) \/ j \in 1..(i - 1)
    BY <1>1
  <2> QED BY <1>7, <1>8, <2>1
<1>9. Tier1Count(reg) <= MaxTier1
  <2> DEFINE at == Tier1(reg)
             m == Cardinality(at)
  <2>1. /\ at \in SUBSET (1..n) /\ m \in Nat
        /\ \A i \in at : Tier1Count(SubSeq(reg, 1, i - 1)) = Place(i, at) - 1
    BY <1>5, Tier1Before DEF Tier1Count
  <2>2. \A k \in 1..m : Nth(k, at) \in at /\ Place(Nth(k, at), at) = k
    <3> HIDE DEF at
    <3> QED BY <1>1, <2>1, EveryPlaceIsTaken
  <2>3. \A i \in at : reg[i].desc["attention_tier"] = "tier1"
    BY DEF Tier1
  <2>4. \A i \in at : ~(Tier1Count(SubSeq(reg, 1, i - 1)) >= MaxTier1)
    <3> HIDE DEF at
    <3> QED BY <1>3, <2>1, <2>3, NothingRefused
  <2> HIDE DEF at, m
  <2>5. m # 0 => ~(m - 1 >= MaxTier1)
    <3> SUFFICES ASSUME m # 0 PROVE ~(m - 1 >= MaxTier1)
      OBVIOUS
    <3>1. m \in 1..m
      BY <2>1
    <3> QED BY <2>1, <2>2, <2>4, <3>1
  <2>6. m <= MaxTier1
    BY <2>1, <2>5, CommandsAssumption
  <2> QED BY <2>6 DEF m, at, Tier1Count
<1> QED BY <1>1, <1>4, <1>5, <1>6, <1>8, <1>9 DEF GoodReg, reg

(* A registration that is not refused leaves a good registry.              *)
LEMMA RegisteredIsGood ==
    ASSUME NEW reg, GoodReg(reg), NEW c, Stable(c), RegisterRefusal(reg, c) = "ok"
    PROVE  GoodReg(Append(reg, c))
<1> DEFINE new == Append(reg, c)
           n == Len(reg)
<1>1. /\ n \in Nat /\ DOMAIN reg = 1..n
      /\ IsSeq(new) /\ DOMAIN new = 1..(n + 1)
      /\ \A i \in 1..n : new[i] = reg[i]
      /\ new[n + 1] = c
  BY SeqShape DEF GoodReg
<1>2. /\ ~KnownId(reg, c.id)
      /\ ~(c.desc["attention_tier"] = "tier1" /\ Tier1Count(reg) >= MaxTier1)
  BY NothingRefused
<1> HIDE DEF new, n
<1>3. \A i \in 1..(n + 1) : i \in 1..n \/ i = n + 1
  BY <1>1
<1>4. \A i \in DOMAIN new : Stable(new[i])
  BY <1>1, <1>3 DEF GoodReg
<1>5. \A i, j \in DOMAIN new : new[i].id = new[j].id => i = j
  <2>1. \A i \in 1..n : reg[i].id # c.id
    BY <1>1, <1>2 DEF KnownId
  <2> QED BY <1>1, <1>3, <2>1 DEF GoodReg
<1>6. Tier1Count(new) <= MaxTier1
  <2>1. IsFiniteSet(Tier1(reg)) /\ Tier1Count(reg) \in Nat /\ Tier1Count(reg) <= MaxTier1
    BY Tier1Before DEF GoodReg
  <2>2. n + 1 \notin Tier1(reg)
    BY <1>1 DEF Tier1
  <2>3. CASE c.desc["attention_tier"] = "tier1"
    <3>1. Tier1(new) = Tier1(reg) \cup {n + 1}
      BY <1>1, <1>3, <2>3 DEF Tier1
    <3>2. Tier1Count(new) = Tier1Count(reg) + 1
      BY <2>1, <2>2, <3>1, FS_AddElement DEF Tier1Count
    <3> QED BY <1>2, <2>1, <2>3, <3>2, CommandsAssumption
  <2>4. CASE c.desc["attention_tier"] # "tier1"
    <3>1. Tier1(new) = Tier1(reg)
      BY <1>1, <1>3, <2>4 DEF Tier1
    <3> QED BY <2>1, <3>1 DEF Tier1Count
  <2> QED BY <2>3, <2>4
<1> QED BY <1>1, <1>4, <1>5, <1>6 DEF GoodReg, new

-----------------------------------------------------------------------------
(* The files and the running process.                                      *)

(* A registry of this host: good, and it starts with the roster.           *)
Base == FromJsonRegistry(Roster).reg
Registry(reg) ==
    /\ FromJsonRegistry(Roster).ok
    /\ GoodReg(reg)
    /\ Len(Base) <= Len(reg) /\ \A i \in 1..Len(Base) : reg[i] = Base[i]

(* Bindings: one accelerator per command, one command per accelerator.     *)
BindOK(b) ==
    /\ IsSeq(b)
    /\ \A i, j \in DOMAIN b : b[i].accelerator = b[j].accelerator => i = j
    /\ \A i, j \in DOMAIN b : b[i].command_id = b[j].command_id => i = j
    /\ \A i \in DOMAIN b : b[i].accelerator \notin Reserved

(* Trust entries: those of the policy side, and those of dials.            *)
IsEntry(e) ==
    /\ DOMAIN e = {"domain", "identity", "trust", "created_at"}
    /\ e.identity = Palette \/ <<e.domain, e.identity>> \in Subjects
TrustOK(entries) == IsSeq(entries) /\ \A i \in DOMAIN entries : IsEntry(entries[i])

FileOK(f, c) ==
    /\ c \in {Absent, Empty, Torn, Doc(c.data)}
    /\ f = "registry" /\ c.kind = "doc" =>
          LET back == FromJsonRegistry(c.data)
          IN  back.ok /\ Registry(back.reg) /\ c.data = ToJsonRegistry(back.reg)
    /\ f = "shortcuts" => BindOK(c.data)
    /\ f = "trust" => TrustOK(c.data)

(* The members of the process, by what it is about to do.                  *)
ProcOK(p) ==
    \/ p = Idle
    \/ /\ DOMAIN p = {"pc", "req"} /\ p.pc = "registry"
       /\ p.req \in Requests
    \/ /\ DOMAIN p = {"pc", "req", "reg", "then"} /\ p.pc \in {"open", "fill"}
       /\ Registry(p.reg)
       /\ \/ p.then = "handle" /\ p.req \in Requests /\ p.reg = Base
          \/ p.then = "reply" /\ p.req.method = "register"
    \/ /\ DOMAIN p = {"pc", "req", "reg"} /\ p.pc = "handle"
       /\ p.req \in Requests /\ Registry(p.reg)
    \/ /\ DOMAIN p = {"pc", "req", "file", "data"} /\ p.pc = "rename"
       /\ p.req \in Requests
       /\ \/ p.file = "shortcuts" /\ BindOK(p.data)
             /\ p.req.method \in {"bindings-set", "bindings-clear"}
          \/ p.file = "trust" /\ TrustOK(p.data) /\ p.req.method = "invoke"
    \/ /\ DOMAIN p = {"pc", "req", "data"} /\ p.pc = "answer"
       /\ p.req \in Requests

StoreInv ==
    /\ DOMAIN disk = Files /\ DOMAIN maybe = Files
    /\ \A f \in Files : FileOK(f, disk[f]) /\ \A c \in maybe[f] : FileOK(f, c)
    /\ ProcOK(proc)

(* Why a file cannot be read, and why a request was refused for it.        *)
CauseInv ==
    /\ faults \in Nat
    /\ \A f \in Files : disk[f].kind \in {"absent", "doc"} \/ f \in cut \cup harmed
    /\ proc.pc = "fill" => "registry" \in cut
    /\ proc.pc = "open" => proc.then = "reply" \/ disk["registry"].kind \in {"absent", "empty"}
    /\ proc # Idle => reply = NoReply
    /\ reply.status = "kStoreError" => cut \cup harmed # {} \/ disk["registry"] = Absent

(* What is promised is in the file, and in what will replace the file.     *)
BindingMethods == {"bindings-set", "bindings-clear"}
PromiseInv ==
    /\ promised \subseteq ToSet(disk["shortcuts"].data)
    /\ proc # Idle /\ proc.req.method \in BindingMethods =>
          \A b \in promised : proc.req.id \notin {b.command_id, Unset}
    /\ proc.pc = "rename" /\ proc.file = "shortcuts" =>
          /\ promised \subseteq ToSet(proc.data)
          /\ proc.req.method = "bindings-set" => proc.data # <<>>
    /\ proc.pc = "answer" /\ proc.req.method = "bindings-set" =>
          proc.data = disk["shortcuts"].data /\ proc.data # <<>>

(* Until the first fault, what is bound is registered, in the file or in   *)
(* what is being written.                                                  *)
Ids(reg) == {reg[i].id : i \in DOMAIN reg}
BoundIds(b) == {b[i].command_id : i \in DOMAIN b}
KeptIds(data) == {data[i].desc["id"] : i \in DOMAIN data}
KnownInv ==
    faults = 0 =>
    LET bound == BoundIds(disk["shortcuts"].data)
        kept == KeptIds(disk["registry"].data)
    IN  /\ IF proc.pc = "fill" THEN disk["registry"] = Empty ELSE bound \subseteq kept
        /\ proc.pc \in {"open", "fill"} => bound \subseteq Ids(proc.reg)
        /\ proc.pc = "handle" => kept = Ids(proc.reg)
        /\ proc.pc = "rename" /\ proc.file = "shortcuts" => BoundIds(proc.data) \subseteq kept

(* A dial comes from a command of the registry or of the roster, takes out *)
(* the subject's own entries and no others, and does what it says.         *)
Documents == ToSet(disk["registry"].data) \cup ToSet(Roster)
Known(docs, desc) == \E e \in docs : e.desc = desc
Takes(entries, req) ==
    \A e \in ToSet(Roster) : e.desc["id"] = req.id /\ e.desc["handler"] \in DOMAIN Dials =>
        \E i \in DOMAIN entries :
            /\ Own(entries, req.site, Palette) = {i}
            /\ entries[i] = EntryOf(req.site, Palette, Dials[e.desc["handler"]])
Dialled(docs, trust, data, req) ==
    /\ req.source \in AllowedSources
    /\ \E e \in docs : /\ e.desc["id"] = req.id
                       /\ e.desc["danger_class"] = "destructive" => req.confirmed
    /\ \/ data = WithoutTrust(trust, req.site, Palette)
       \/ \E tier : data = SetTrust(trust, req.site, Palette, tier)
    /\ Takes(data, req)
DialInv ==
    /\ proc.pc = "handle" => \A i \in DOMAIN proc.reg : Known(Documents, proc.reg[i].desc)
    /\ proc.pc = "rename" /\ proc.file = "trust" =>
          Dialled(Documents, disk["trust"].data, proc.data, proc.req)
    /\ proc.pc = "answer" /\ proc.req.method = "invoke" => Takes(disk["trust"].data, proc.req)
    /\ reply.status = "done" /\ reply.method = "invoke" => Takes(disk["trust"].data, reply.req)

-----------------------------------------------------------------------------
(* What the operations make of good contents.                              *)

(* A file that is absent, empty or torn holds nothing that is wrong.       *)
LEMMA NothingIsOK ==
    /\ BindOK(<<>>) /\ TrustOK(<<>>)
    /\ \A f : FileOK(f, Absent) /\ FileOK(f, Empty) /\ FileOK(f, Torn)
<1>1. IsSeq(<<>>) /\ DOMAIN <<>> = {}
  BY DEF IsSeq, ToSet
<1>2. BindOK(<<>>) /\ TrustOK(<<>>)
  BY <1>1 DEF BindOK, TrustOK
<1> QED BY <1>2 DEF FileOK, Absent, Empty, Torn

(* Taking a command's binding out, and nothing else.                       *)
LEMMA WithoutCommandIsOK ==
    ASSUME NEW b, BindOK(b), NEW id
    PROVE  /\ BindOK(WithoutCommand(b, id))
           /\ ToSet(WithoutCommand(b, id)) = {x \in ToSet(b) : x.command_id # id}
<1> DEFINE at == {i \in DOMAIN b : b[i].command_id # id}
           w == Keep(b, at)
<1>1. IsSeq(b) /\ at \in SUBSET DOMAIN b /\ Len(b) \in Nat /\ DOMAIN b = 1..Len(b)
  BY SeqShape DEF BindOK
<1> HIDE DEF at
<1>2. /\ IsSeq(w)
      /\ DOMAIN w = 1..Cardinality(at)
      /\ \A k \in DOMAIN w : Nth(k, at) \in at /\ w[k] = b[Nth(k, at)]
      /\ ToSet(w) = {b[i] : i \in at}
  BY <1>1, KeptMembers
<1>3. \A k \in 1..Cardinality(at) : Place(Nth(k, at), at) = k
  BY <1>1, EveryPlaceIsTaken
<1> HIDE DEF w
<1>4. \A j, k \in DOMAIN w : Nth(j, at) = Nth(k, at) => j = k
  BY <1>2, <1>3
<1>5. BindOK(w)
  BY <1>1, <1>2, <1>4 DEF BindOK
<1>6. ToSet(w) = {x \in ToSet(b) : x.command_id # id}
  BY <1>2 DEF at, ToSet
<1> QED BY <1>5, <1>6 DEF w, at, WithoutCommand

(* A binding that is not refused keeps the bindings one to one.            *)
LEMMA BindIsOK ==
    ASSUME NEW b, BindOK(b), NEW id, NEW acc, BindRefusal(b, id, acc) = "ok"
    PROVE  LET new == Bind(b, id, acc)
           IN  /\ BindOK(new) /\ new # <<>>
               /\ ToSet(new) = {x \in ToSet(b) : x.command_id # id}
                               \cup {Binding(id, Normalize(acc))}
<1> DEFINE w == WithoutCommand(b, id)
           x == Binding(id, Normalize(acc))
           new == Append(w, x)
<1>1. BindOK(w) /\ ToSet(w) = {y \in ToSet(b) : y.command_id # id}
  BY WithoutCommandIsOK
<1>2. x.command_id = id /\ x.accelerator = Normalize(acc)
  BY DEF Binding
<1>3. /\ Normalize(acc) \notin Reserved
      /\ \A i \in DOMAIN b : b[i].accelerator = Normalize(acc) => b[i].command_id = id
  BY DEF BindRefusal
<1> HIDE DEF w, x
<1>4. /\ IsSeq(new) /\ Len(w) \in Nat /\ DOMAIN w = 1..Len(w)
      /\ DOMAIN new = 1..(Len(w) + 1) /\ new[Len(w) + 1] = x
      /\ \A i \in 1..Len(w) : new[i] = w[i]
      /\ ToSet(new) = ToSet(w) \cup {x}
  BY <1>1, SeqShape DEF BindOK
<1> HIDE DEF new
<1>5. \A i \in DOMAIN w : /\ w[i].accelerator # x.accelerator
                          /\ w[i].command_id # x.command_id
                          /\ w[i].accelerator \notin Reserved
  <2> SUFFICES ASSUME NEW i \in DOMAIN w
               PROVE  /\ w[i].accelerator # x.accelerator /\ w[i].command_id # x.command_id
                      /\ w[i].accelerator \notin Reserved
    OBVIOUS
  <2>1. w[i] \in {y \in ToSet(b) : y.command_id # id}
    BY <1>1 DEF ToSet
  <2>2. PICK j \in DOMAIN b : w[i] = b[j]
    BY <2>1 DEF ToSet
  <2> QED BY <1>1, <1>2, <1>3, <2>1, <2>2 DEF BindOK
<1>6. \A i \in 1..(Len(w) + 1) : i \in 1..Len(w) \/ i = Len(w) + 1
  BY <1>4
<1>7. BindOK(new)
  BY <1>1, <1>2, <1>3, <1>4, <1>5, <1>6 DEF BindOK
<1>8. new # <<>>
  BY <1>4
<1> QED BY <1>1, <1>4, <1>7, <1>8 DEF Bind, new, w, x

(* A dial sets aside the entries of the site that are its own or every     *)
(* identity's, and leaves the others in their order.                       *)
LEMMA WithoutTrustIsOK ==
    ASSUME NEW entries, TrustOK(entries), NEW site
    PROVE  LET w == WithoutTrust(entries, site, Palette)
           IN  TrustOK(w) /\ Own(w, site, Palette) = {}
<1> DEFINE at == DOMAIN entries \ Own(entries, site, Palette)
           w == Keep(entries, at)
<1>1. IsSeq(entries) /\ at \in SUBSET DOMAIN entries
  BY DEF TrustOK
<1> HIDE DEF at
<1>2. IsSeq(w) /\ \A k \in DOMAIN w : Nth(k, at) \in at /\ w[k] = entries[Nth(k, at)]
  BY <1>1, KeptMembers
<1> HIDE DEF w
<1>3. TrustOK(w)
  BY <1>1, <1>2 DEF TrustOK
<1>4. Own(w, site, Palette) = {}
  BY <1>2 DEF Own, at
<1> QED BY <1>3, <1>4 DEF WithoutTrust, w, at

(* A dial leaves one entry of its own subject, the one it wrote, at the end. *)
LEMMA SetTrustIsOK ==
    ASSUME NEW entries, TrustOK(entries), NEW site, NEW tier
    PROVE  LET new == SetTrust(entries, site, Palette, tier)
               n == Len(WithoutTrust(entries, site, Palette)) + 1
           IN  /\ TrustOK(new) /\ n \in DOMAIN new
               /\ Own(new, site, Palette) = {n} /\ new[n] = EntryOf(site, Palette, tier)
<1> DEFINE w == WithoutTrust(entries, site, Palette)
           e == EntryOf(site, Palette, tier)
           new == Append(w, e)
<1>1. TrustOK(w) /\ Own(w, site, Palette) = {}
  BY WithoutTrustIsOK
<1>2. IsEntry(e) /\ IsOf(e, site, Palette)
  BY DEF EntryOf, IsEntry, IsOf
<1> HIDE DEF w, e
<1>3. /\ IsSeq(new) /\ Len(w) \in Nat /\ DOMAIN w = 1..Len(w)
      /\ DOMAIN new = 1..(Len(w) + 1) /\ new[Len(w) + 1] = e
      /\ \A i \in 1..Len(w) : new[i] = w[i]
  BY <1>1, SeqShape DEF TrustOK
<1> HIDE DEF new
<1>4. \A i \in 1..(Len(w) + 1) : i \in 1..Len(w) \/ i = Len(w) + 1
  BY <1>3
<1>5. TrustOK(new)
  BY <1>1, <1>2, <1>3, <1>4 DEF TrustOK
<1>6. Len(w) + 1 \in DOMAIN new
  BY <1>3
<1>7. Own(new, site, Palette) = {Len(w) + 1}
  BY <1>1, <1>2, <1>3, <1>4, <1>6 DEF Own
<1> QED BY <1>3, <1>5, <1>6, <1>7 DEF new, w, e, SetTrust

(* A registry of this host is one the host accepts.                        *)
LEMMA RegistryFileIsOK ==
    ASSUME NEW reg, Registry(reg)
    PROVE  FileOK("registry", Doc(ToJsonRegistry(reg)))
<1>1. /\ FromJsonRegistry(ToJsonRegistry(reg)).ok
      /\ FromJsonRegistry(ToJsonRegistry(reg)).reg = reg
  BY ReadsBack DEF Registry
<1>2. Doc(ToJsonRegistry(reg)).data = ToJsonRegistry(reg)
  BY DEF Doc
<1> QED BY <1>1, <1>2 DEF FileOK

(* The roster, when it is accepted, is such a registry; and so is one that *)
(* has been added to.                                                      *)
LEMMA RosterIsRegistry ==
    ASSUME FromJsonRegistry(Roster).ok
    PROVE  Registry(Base)
<1>1. GoodReg(Base)
  BY AcceptedIsGood, HostAssumption DEF Base, IsSeq
<1>2. Len(Base) \in Nat
  BY <1>1, SeqShape DEF GoodReg
<1> QED BY <1>1, <1>2 DEF Registry

(* Register leaves a registry that reads back as it was written.           *)
LEMMA AppendedIsRegistry ==
    ASSUME NEW reg, Registry(reg), NEW c, Stable(c), RegisterRefusal(reg, c) = "ok"
    PROVE  Registry(Append(reg, c))
<1>1. GoodReg(Append(reg, c))
  BY RegisteredIsGood DEF Registry
<1>2. /\ Len(reg) \in Nat /\ Len(Append(reg, c)) = Len(reg) + 1
      /\ \A i \in 1..Len(reg) : Append(reg, c)[i] = reg[i]
  BY SeqShape DEF Registry, GoodReg
<1>3. Len(Base) \in Nat
  BY RosterIsRegistry, SeqShape DEF Registry, GoodReg
<1>4. \A i \in 1..Len(Base) : i \in 1..Len(reg)
  BY <1>2, <1>3 DEF Registry
<1> QED BY <1>1, <1>2, <1>3, <1>4 DEF Registry

-----------------------------------------------------------------------------
(* The first invariant: what the files hold, and what may be left of them, *)
(* is what the host has written.                                           *)

(* A step that writes no file has only its process to answer for.          *)
LEMMA StoreSame ==
    ASSUME StoreInv, UNCHANGED <<disk, maybe>>, ProcOK(proc')
    PROVE  StoreInv'
BY DEF StoreInv

(* A write may leave what it names and no more.                            *)
LEMMA StoreNow ==
    ASSUME StoreInv, NEW f \in Files, NEW content, NEW leaves, Now(f, content, leaves),
           FileOK(f, content), \A c \in leaves : FileOK(f, c), ProcOK(proc')
    PROVE  StoreInv'
<1>1. DOMAIN disk' = Files /\ DOMAIN maybe' = Files
  BY DEF Now, StoreInv
<1>2. \A g \in Files : /\ disk'[g] = IF g = f THEN content ELSE disk[g]
                       /\ maybe'[g] = IF g = f THEN maybe[f] \cup {content} \cup leaves
                                      ELSE maybe[g]
  BY DEF Now, StoreInv
<1>3. \A g \in Files : FileOK(g, disk'[g]) /\ \A c \in maybe'[g] : FileOK(g, c)
  BY <1>2 DEF StoreInv
<1> QED BY <1>1, <1>3 DEF StoreInv

(* After the registry file the process handles its request, or replies.    *)
LEMMA AfterWriteIsOK ==
    ASSUME ProcOK(proc), proc.pc \in {"open", "fill"}, NEW written \in BOOLEAN,
           AfterWrite(written)
    PROVE  ProcOK(proc')
<1>1. /\ Registry(proc.reg)
      /\ \/ proc.then = "handle" /\ proc.req \in Requests /\ proc.reg = Base
         \/ proc.then = "reply" /\ proc.req.method = "register"
  BY DEF ProcOK, Idle
<1>2. CASE proc' = [pc |-> "handle", req |-> proc.req, reg |-> proc.reg] /\ proc.then = "handle"
  BY <1>1, <1>2 DEF ProcOK
<1>3. CASE proc' = Idle
  BY <1>3 DEF ProcOK
<1> QED BY <1>2, <1>3 DEF AfterWrite, Finish

(* What a process sets out to save is a document of the file it is for.    *)
LEMMA SaveIsOK ==
    ASSUME ProcOK(proc), proc.pc = "handle", NEW f, NEW data, Save(f, data),
           \/ /\ f = "shortcuts" /\ BindOK(data)
              /\ proc.req.method \in {"bindings-set", "bindings-clear"}
           \/ f = "trust" /\ TrustOK(data) /\ proc.req.method = "invoke"
    PROVE  ProcOK(proc')
<1>1. proc.req \in Requests
  BY DEF ProcOK, Idle
<1>2. proc' = [pc |-> "rename", req |-> proc.req, file |-> f, data |-> data]
  BY DEF Save
<1> QED BY <1>1, <1>2 DEF ProcOK

(* The method: what it goes on to do is good.                              *)
LEMMA HandleIsOK ==
    ASSUME StoreInv, Handle
    PROVE  ProcOK(proc')
<1>1. /\ proc.req \in Requests /\ Registry(proc.reg) /\ ProcOK(proc) /\ proc.pc = "handle"
  BY DEF StoreInv, ProcOK, Handle, Idle
<1>2. BindOK(Bindings) /\ TrustOK(Trust)
  BY DEF StoreInv, FileOK, Files, Bindings, Trust
<1>3. ASSUME NEW r, Finish(r) PROVE ProcOK(proc')
  BY <1>3 DEF Finish, ProcOK
<1>4. CASE proc.req.method = "bindings-set" /\ BindingsSet(proc.req)
  <2>1. CASE BindRefusal(Bindings, proc.req.id, proc.req.acc) = "ok"
             /\ Save("shortcuts", Bind(Bindings, proc.req.id, proc.req.acc))
    <3>1. BindOK(Bind(Bindings, proc.req.id, proc.req.acc))
      BY <1>2, <2>1, BindIsOK
    <3> QED BY <1>1, <1>4, <2>1, <3>1, SaveIsOK
  <2> QED BY <1>3, <1>4, <2>1 DEF BindingsSet
<1>5. CASE proc.req.method = "bindings-clear" /\ BindingsClear(proc.req)
  <2>1. BindOK(<<>>) /\ BindOK(WithoutCommand(Bindings, proc.req.id))
    BY <1>2, NothingIsOK, WithoutCommandIsOK
  <2>2. \A data : BindOK(data) /\ Save("shortcuts", data) => ProcOK(proc')
    BY <1>1, <1>5, SaveIsOK
  <2> QED BY <1>3, <1>5, <2>1, <2>2 DEF BindingsClear
<1>6. CASE proc.req.method = "register" /\ Register(proc.req)
  <2> DEFINE req == proc.req
             c == Command(req.desc, req.scope, req.predicate)
  <2>1. CASE /\ ValidateDescriptor(req.desc) /\ RegisterRefusal(proc.reg, c) = "ok"
             /\ proc' = [pc |-> "open", req |-> [id |-> c.id, method |-> "register"],
                         reg |-> Append(proc.reg, c), then |-> "reply"]
    <3>1. Registry(Append(proc.reg, c))
      BY <1>1, <2>1, CommandsAreStable, AppendedIsRegistry
    <3>2. /\ DOMAIN proc' = {"pc", "req", "reg", "then"} /\ proc'.pc = "open"
          /\ proc'.then = "reply" /\ proc'.req.method = "register"
          /\ proc'.reg = Append(proc.reg, c)
      BY <2>1
    <3> QED BY <3>1, <3>2 DEF ProcOK
  <2> QED BY <1>3, <1>6, <2>1 DEF Register, Reg
<1>7. CASE proc.req.method \notin {"bindings-set", "bindings-clear", "register"} /\ Invoke(proc.req)
  <2>1. proc.req.method = "invoke"
    BY <1>1, <1>7, HostAssumption
  <2>2. \A data : TrustOK(data) /\ Save("trust", data) => ProcOK(proc')
    BY <1>1, <2>1, SaveIsOK
  <2>3. /\ TrustOK(WithoutTrust(Trust, proc.req.site, Palette))
        /\ \A tier : TrustOK(SetTrust(Trust, proc.req.site, Palette, tier))
    BY <1>2, WithoutTrustIsOK, SetTrustIsOK
  <2> QED BY <1>3, <1>7, <2>2, <2>3 DEF Invoke
<1>8. CASE \E r : Finish(r)
  BY <1>3, <1>8
<1> QED BY <1>4, <1>5, <1>6, <1>7, <1>8 DEF Handle

(* Every file, and whatever a power loss may leave of it, holds what this  *)
(* host wrote, for any commands, requests and faults.                      *)
THEOREM StoreInvariant == Spec => []StoreInv
<1>1. Init => StoreInv
  <2> SUFFICES ASSUME Init PROVE StoreInv
    OBVIOUS
  <2>1. TrustOK(Initial)
    <3>1. IsSeq(Initial)
      BY HostAssumption DEF IsSeq
    <3>2. \A i \in DOMAIN Initial : IsEntry(Initial[i])
      BY HostAssumption DEF IsEntry, Subjects, ToSet, EntryOf
    <3> QED BY <3>1, <3>2 DEF TrustOK
  <2>2. FileOK("trust", Doc(Initial))
    BY <2>1 DEF FileOK, Doc
  <2>3. \A f \in Files : FileOK(f, disk[f]) /\ maybe[f] = {disk[f]}
    BY <2>2, NothingIsOK DEF Init
  <2> QED BY <2>3 DEF Init, StoreInv, ProcOK
<1>2. StoreInv /\ [Next]_vars => StoreInv'
  <2> SUFFICES ASSUME StoreInv, [Next]_vars PROVE StoreInv'
    OBVIOUS
  <2>0. ProcOK(proc) /\ ProcOK(Idle)
    BY DEF StoreInv, ProcOK
  <2>1. ASSUME NEW req \in Requests, Start(req) PROVE StoreInv'
    <3>1. ProcOK([pc |-> "registry", req |-> req])
      BY DEF ProcOK
    <3> QED BY <2>1, <3>1, StoreSame DEF Start
  <2>2. ASSUME LoadRegistry PROVE StoreInv'
    <3> DEFINE content == disk["registry"]
               kept == FromJsonRegistry(content.data)
               roster == FromJsonRegistry(Roster)
    <3>1. proc.req \in Requests
      BY <2>0, <2>2 DEF LoadRegistry, ProcOK, Idle
    <3>2. CASE /\ content.kind = "doc" /\ kept.ok
               /\ proc' = [pc |-> "handle", req |-> proc.req, reg |-> kept.reg]
      <4>1. Registry(kept.reg)
        BY <3>2 DEF StoreInv, FileOK, Files
      <4>2. ProcOK(proc')
        <5> HIDE DEF kept
        <5> QED BY <3>1, <3>2, <4>1 DEF ProcOK
      <4> QED BY <2>2, <4>2, StoreSame DEF LoadRegistry
    <3>3. CASE /\ roster.ok
               /\ proc' = [pc |-> "open", req |-> proc.req, reg |-> roster.reg,
                           then |-> "handle"]
      <4>1. Registry(roster.reg) /\ roster.reg = Base
        BY <3>3, RosterIsRegistry DEF Base
      <4>2. ProcOK(proc')
        <5> HIDE DEF roster
        <5> QED BY <3>1, <3>3, <4>1 DEF ProcOK
      <4> QED BY <2>2, <4>2, StoreSame DEF LoadRegistry
    <3>4. CASE proc' = Idle
      BY <2>0, <2>2, <3>4, StoreSame DEF LoadRegistry
    <3> QED BY <2>2, <3>2, <3>3, <3>4 DEF LoadRegistry, Finish
  <2>3. ASSUME OpenRegistry PROVE StoreInv'
    <3> DEFINE new == [proc EXCEPT !.pc = "fill"]
    <3>1. /\ DOMAIN proc = {"pc", "req", "reg", "then"} /\ Registry(proc.reg)
          /\ \/ proc.then = "handle" /\ proc.req \in Requests /\ proc.reg = Base
             \/ proc.then = "reply" /\ proc.req.method = "register"
      BY <2>0, <2>3 DEF OpenRegistry, ProcOK, Idle
    <3>2. /\ DOMAIN new = {"pc", "req", "reg", "then"} /\ new.pc = "fill"
          /\ new.req = proc.req /\ new.reg = proc.reg /\ new.then = proc.then
      BY <3>1
    <3>3. proc' = new
      BY <2>3 DEF OpenRegistry
    <3> HIDE DEF new
    <3>4. ProcOK(proc')
      BY <3>1, <3>2, <3>3 DEF ProcOK
    <3> QED BY <2>3, <3>4, NothingIsOK, StoreNow DEF OpenRegistry, Files
  <2>4. ASSUME OpenFails PROVE StoreInv'
    BY <2>0, <2>4, AfterWriteIsOK, StoreSame DEF OpenFails
  <2>5. ASSUME FillRegistry PROVE StoreInv'
    <3>1. ProcOK(proc')
      BY <2>0, <2>5, AfterWriteIsOK DEF FillRegistry
    <3>2. FileOK("registry", Doc(ToJsonRegistry(proc.reg)))
      BY <2>0, <2>5, RegistryFileIsOK DEF FillRegistry, ProcOK, Idle
    <3> QED BY <2>5, <3>1, <3>2, NothingIsOK, StoreNow DEF FillRegistry, Files
  <2>6. ASSUME NEW reported \in BOOLEAN, FillFails(reported) PROVE StoreInv'
    <3>1. ProcOK(proc')
      BY <2>0, <2>6, AfterWriteIsOK DEF FillFails
    <3>2. PICK c \in {Empty, Torn} : Now("registry", c, {})
      BY <2>6 DEF FillFails
    <3> QED BY <3>1, <3>2, NothingIsOK, StoreNow DEF Files
  <2>7. ASSUME Handle PROVE StoreInv'
    BY <2>7, HandleIsOK, StoreSame DEF Handle
  <2>8. ASSUME Rename PROVE StoreInv'
    <3>1. /\ proc.req \in Requests
          /\ \/ proc.file = "shortcuts" /\ BindOK(proc.data)
             \/ proc.file = "trust" /\ TrustOK(proc.data)
      BY <2>0, <2>8 DEF Rename, ProcOK, Idle
    <3>2. FileOK(proc.file, Doc(proc.data)) /\ proc.file \in Files
      BY <3>1 DEF FileOK, Doc, Files
    <3>3. ProcOK([pc |-> "answer", req |-> proc.req, data |-> proc.data])
      BY <3>1 DEF ProcOK
    <3>4. \A c \in {Empty, Torn} : FileOK(proc.file, c)
      BY NothingIsOK
    <3>5. Now(proc.file, Doc(proc.data), {Empty, Torn})
      BY <2>8 DEF Rename, RenameInto
    <3>6. ProcOK(proc')
      BY <2>8, <3>3 DEF Rename
    <3> QED BY <3>2, <3>4, <3>5, <3>6, StoreNow
  <2>9. ASSUME SaveFails PROVE StoreInv'
    BY <2>0, <2>9, StoreSame DEF SaveFails, Finish
  <2>10. ASSUME Answer PROVE StoreInv'
    BY <2>0, <2>10, StoreSame DEF Answer, Finish
  <2>11. ASSUME Kill PROVE StoreInv'
    BY <2>0, <2>11, StoreSame DEF Kill
  <2>12. ASSUME PowerLoss PROVE StoreInv'
    <3>1. PICK left \in [Files -> UNION {maybe[f] : f \in Files}] :
              /\ \A f \in Files : left[f] \in maybe[f]
              /\ disk' = left
              /\ maybe' = [f \in Files |-> {left[f]}]
      BY <2>12 DEF PowerLoss
    <3>2. proc' = Idle
      BY <2>12 DEF PowerLoss
    <3>3. \A f \in Files : FileOK(f, left[f])
      BY <3>1 DEF StoreInv
    <3> QED BY <2>0, <3>1, <3>2, <3>3 DEF StoreInv
  <2>13. ASSUME NEW f \in Files, Settle(f) PROVE StoreInv'
    <3>1. /\ UNCHANGED <<disk, proc>> /\ DOMAIN maybe' = Files
          /\ \A g \in Files : maybe'[g] = IF g = f THEN {disk[f]} ELSE maybe[g]
      BY <2>13 DEF Settle, StoreInv
    <3> QED BY <3>1 DEF StoreInv
  <2>14. CASE UNCHANGED vars
    BY <2>14 DEF vars, StoreInv
  <2> QED BY <2>1, <2>2, <2>3, <2>4, <2>5, <2>6, <2>7, <2>8, <2>9, <2>10, <2>11, <2>12, <2>13,
             <2>14 DEF Next
<1> QED BY <1>1, <1>2, PTL DEF Spec

-----------------------------------------------------------------------------
(* The second invariant: what cannot be read was cut short or harmed.      *)

(* How the method ends: with an answer, with a refusal for the store's     *)
(* sake, or with something to write.                                       *)
LEMMA HandleEnds ==
    ASSUME Handle
    PROVE  \/ /\ proc' = Idle /\ reply'.status = "kStoreError"
              /\ disk["shortcuts"].kind \in {"empty", "torn"}
           \/ proc' = Idle /\ reply'.status \notin {"kStoreError", "done"}
           \/ UNCHANGED reply /\ proc'.pc = "open" /\ proc'.then = "reply"
           \/ UNCHANGED reply /\ proc'.pc = "rename"
<1> DEFINE Quiet == proc' = Idle /\ reply'.status \notin {"kStoreError", "done"}
           Saving == UNCHANGED reply /\ proc'.pc = "rename"
<1>1. \A f, data : Save(f, data) => Saving
  BY DEF Save
<1>2. \A status, req : status \notin {"kStoreError", "done"} /\ Finish(Outcome(status, req)) => Quiet
  BY DEF Finish, Outcome
<1>3. \A reg, id, source, confirmed :
          InvokeStatus(reg, id, source, confirmed) \notin {"kStoreError", "done"}
  BY DEF InvokeStatus
<1> HIDE DEF Quiet, Saving
<1>4. CASE disk["shortcuts"].kind \in {"empty", "torn"} /\ Finish(StoreError)
  BY <1>4 DEF Finish, StoreError
<1>5. CASE BindingsSet(proc.req)
  BY <1>1, <1>2, <1>5 DEF BindingsSet, Quiet, Saving
<1>6. CASE BindingsClear(proc.req)
  BY <1>1, <1>2, <1>6 DEF BindingsClear, Quiet, Saving
<1>7. CASE Finish(Outcome("rejected", proc.req))
  BY <1>2, <1>7 DEF Quiet
<1>8. CASE Register(proc.req)
  BY <1>2, <1>8 DEF Register, Quiet
<1>9. CASE Invoke(proc.req)
  BY <1>1, <1>2, <1>3, <1>9 DEF Invoke, Quiet, Saving
<1> QED BY <1>4, <1>5, <1>6, <1>7, <1>8, <1>9 DEF Handle

(* How the writing of the registry ends.                                   *)
LEMMA AfterWriteEnds ==
    ASSUME NEW written \in BOOLEAN, AfterWrite(written)
    PROVE  \/ /\ written /\ proc.then = "handle" /\ UNCHANGED reply
              /\ proc' = [pc |-> "handle", req |-> proc.req, reg |-> proc.reg]
           \/ ~written /\ proc.then = "handle" /\ proc' = Idle /\ reply'.status = "kStoreError"
           \/ proc.then # "handle" /\ proc' = Idle /\ reply'.status \notin {"kStoreError", "done"}
<1>1. StoreError.status = "kStoreError" /\ Persisted.status = "registered"
  BY DEF StoreError, Persisted
<1>2. [status |-> "kIoError", method |-> "register"].status = "kIoError"
  OBVIOUS
<1> QED BY <1>1, <1>2 DEF AfterWrite, Finish

(* What a file may hold, by its kind.                                      *)
LEMMA KindsOfFiles ==
    ASSUME NEW f, NEW c, FileOK(f, c)
    PROVE  /\ c.kind \in {"absent", "empty", "torn", "doc"}
           /\ c.kind = "absent" => c = Absent
           /\ c.kind # "doc" => c.data = <<>>
BY DEF FileOK, Absent, Empty, Torn, Doc

(* A file that is neither absent nor whole was cut short or harmed.        *)
THEOREM CauseInvariant == Spec => []CauseInv
<1> DEFINE Excused(f) == disk[f].kind \in {"absent", "doc"} \/ f \in cut \cup harmed
<1>1. Init => CauseInv
  <2> SUFFICES ASSUME Init PROVE CauseInv
    OBVIOUS
  <2>1. \A f \in Files : disk[f].kind \in {"absent", "doc"}
    BY DEF Init, Absent, Doc
  <2> QED BY <2>1 DEF Init, CauseInv, Idle, NoReply
<1>2. StoreInv /\ CauseInv /\ [Next]_vars => CauseInv'
  <2> SUFFICES ASSUME StoreInv, CauseInv, [Next]_vars PROVE CauseInv'
    OBVIOUS
  <2>0. /\ DOMAIN disk = Files /\ "registry" \in Files /\ "shortcuts" \in Files
        /\ \A f \in Files : /\ disk[f].kind \in {"absent", "empty", "torn", "doc"}
                            /\ disk[f].kind = "absent" => disk[f] = Absent
    BY KindsOfFiles DEF StoreInv, Files
  <2>a. faults' \in Nat
    <3>1. Fail \/ NoFault
      BY DEF Next, Start, LoadRegistry, OpenRegistry, OpenFails, FillRegistry, FillFails,
             Handle, Rename, SaveFails, Answer, Kill, PowerLoss, Settle, NoFault, vars
    <3>2. faults' = faults \/ faults' = faults + 1
      BY <3>1 DEF Fail, NoFault
    <3>3. faults \in Nat
      BY DEF CauseInv
    <3> QED BY <3>2, <3>3
  <2>b. NoReply.status # "kStoreError" /\ \A pc : pc # "idle" => \A p : p.pc = pc => p # Idle
    BY DEF NoReply, Idle
  <2>c. ASSUME UNCHANGED <<disk, cut, harmed>>, proc' = Idle,
               reply'.status = "kStoreError" => \/ cut \cup harmed # {}
                                                \/ disk["registry"] = Absent
        PROVE  CauseInv'
    BY <2>a, <2>c DEF CauseInv, Idle
  <2>1. ASSUME NEW req \in Requests, Start(req) PROVE CauseInv'
    BY <2>a, <2>b, <2>1 DEF Start, CauseInv
  <2>2. ASSUME LoadRegistry PROVE CauseInv'
    <3>0. UNCHANGED <<disk, cut, harmed>> /\ reply = NoReply
      BY <2>2, <2>b DEF LoadRegistry, CauseInv
    <3>1. CASE UNCHANGED reply /\ proc'.pc = "handle"
      BY <2>a, <2>b, <3>0, <3>1 DEF CauseInv
    <3>2. CASE /\ UNCHANGED reply /\ proc'.pc = "open"
               /\ disk["registry"].kind \in {"absent", "empty"}
      BY <2>a, <2>b, <3>0, <3>2 DEF CauseInv
    <3>3. CASE proc' = Idle /\ disk["registry"].kind # "doc"
      <4>1. disk["registry"] = Absent \/ cut \cup harmed # {}
        BY <2>0, <3>3 DEF CauseInv
      <4> QED BY <2>c, <3>0, <3>3, <4>1
    <3>4. disk["registry"].kind = "doc" => FromJsonRegistry(disk["registry"].data).ok
      BY <2>0 DEF StoreInv, FileOK
    <3> QED BY <2>2, <3>1, <3>2, <3>3, <3>4 DEF LoadRegistry, Finish
  <2>3. ASSUME OpenRegistry PROVE CauseInv'
    <3>1. /\ disk' = [disk EXCEPT !["registry"] = Empty] /\ cut' = cut \cup {"registry"}
          /\ UNCHANGED <<reply, harmed>>
      BY <2>3 DEF OpenRegistry, Now
    <3>2. reply = NoReply /\ proc'.pc = "fill"
      <4>1. DOMAIN proc = {"pc", "req", "reg", "then"}
        BY <2>3 DEF OpenRegistry, StoreInv, ProcOK, Idle
      <4> QED BY <2>b, <2>3, <4>1 DEF OpenRegistry, CauseInv
    <3>3. \A f \in Files : (f = "registry" /\ f \in cut') \/ disk'[f] = disk[f]
      BY <2>0, <3>1
    <3> QED BY <2>a, <2>b, <3>1, <3>2, <3>3 DEF CauseInv
  <2>4. ASSUME OpenFails PROVE CauseInv'
    <3>1. UNCHANGED <<disk, cut, harmed>> /\ AfterWrite(FALSE)
      BY <2>4 DEF OpenFails
    <3>2. proc.then = "reply" \/ disk["registry"] = Absent \/ cut \cup harmed # {}
      BY <2>0, <2>4 DEF OpenFails, CauseInv
    <3> QED BY <2>c, <3>1, <3>2, AfterWriteEnds
  <2>5. ASSUME FillRegistry PROVE CauseInv'
    <3>1. /\ disk' = [disk EXCEPT !["registry"] = Doc(ToJsonRegistry(proc.reg))]
          /\ cut' = cut \ {"registry"} /\ harmed' = harmed \ {"registry"}
          /\ AfterWrite(TRUE)
      BY <2>5 DEF FillRegistry, Now
    <3>2. \A f \in Files : disk'[f].kind = "doc" \/ (f # "registry" /\ disk'[f] = disk[f])
      BY <2>0, <3>1 DEF Doc
    <3>3. \A f \in Files : disk'[f].kind \in {"absent", "doc"} \/ f \in cut' \cup harmed'
      BY <3>1, <3>2 DEF CauseInv
    <3>4. CASE UNCHANGED reply /\ proc'.pc = "handle"
      <4>1. reply = NoReply
        BY <2>b, <2>5 DEF FillRegistry, CauseInv
      <4> QED BY <2>a, <2>b, <3>3, <3>4, <4>1 DEF CauseInv
    <3>5. CASE proc' = Idle /\ reply'.status # "kStoreError"
      BY <2>a, <3>3, <3>5 DEF CauseInv, Idle
    <3>6. \/ UNCHANGED reply /\ proc' = [pc |-> "handle", req |-> proc.req, reg |-> proc.reg]
          \/ proc' = Idle /\ reply'.status # "kStoreError"
      BY <3>1, AfterWriteEnds
    <3>7. [pc |-> "handle", req |-> proc.req, reg |-> proc.reg].pc = "handle"
      OBVIOUS
    <3> QED BY <3>4, <3>5, <3>6, <3>7
  <2>6. ASSUME NEW reported \in BOOLEAN, FillFails(reported) PROVE CauseInv'
    <3>1. PICK c : disk' = [disk EXCEPT !["registry"] = c]
      BY <2>6 DEF FillFails, Now
    <3>2. AfterWrite(~reported) /\ UNCHANGED <<cut, harmed>> /\ "registry" \in cut
      BY <2>6 DEF FillFails, CauseInv
    <3>3. \A f \in Files : f = "registry" \/ disk'[f] = disk[f]
      BY <3>1
    <3>4. \A f \in Files : disk'[f].kind \in {"absent", "doc"} \/ f \in cut' \cup harmed'
      BY <3>2, <3>3 DEF CauseInv
    <3>5. CASE UNCHANGED reply /\ proc'.pc = "handle"
      <4>1. reply = NoReply
        BY <2>b, <2>6 DEF FillFails, CauseInv
      <4> QED BY <2>a, <2>b, <3>4, <3>5, <4>1 DEF CauseInv
    <3>6. CASE proc' = Idle
      BY <2>a, <3>2, <3>4, <3>6 DEF CauseInv, Idle
    <3>7. \/ UNCHANGED reply /\ proc' = [pc |-> "handle", req |-> proc.req, reg |-> proc.reg]
          \/ proc' = Idle
      BY <3>2, AfterWriteEnds
    <3>8. [pc |-> "handle", req |-> proc.req, reg |-> proc.reg].pc = "handle"
      OBVIOUS
    <3> QED BY <3>5, <3>6, <3>7, <3>8
  <2>7. ASSUME Handle PROVE CauseInv'
    <3>1. UNCHANGED <<disk, cut, harmed>> /\ reply = NoReply
      BY <2>b, <2>7 DEF Handle, CauseInv
    <3>2. disk["shortcuts"].kind \in {"empty", "torn"} => cut \cup harmed # {}
      BY <2>0 DEF CauseInv
    <3>3. CASE proc' = Idle /\ (reply'.status = "kStoreError" => cut \cup harmed # {})
      BY <2>c, <3>1, <3>3
    <3>4. CASE UNCHANGED reply /\ proc'.pc = "open" /\ proc'.then = "reply"
      BY <2>a, <2>b, <3>1, <3>4 DEF CauseInv
    <3>5. CASE UNCHANGED reply /\ proc'.pc = "rename"
      BY <2>a, <2>b, <3>1, <3>5 DEF CauseInv
    <3> QED BY <2>7, <3>2, <3>3, <3>4, <3>5, HandleEnds
  <2>8. ASSUME Rename PROVE CauseInv'
    <3>1. /\ disk' = [disk EXCEPT ![proc.file] = Doc(proc.data)]
          /\ cut' = cut \ {proc.file} /\ harmed' = harmed \ {proc.file}
          /\ UNCHANGED reply /\ proc'.pc = "answer"
      BY <2>8 DEF Rename, RenameInto, Now
    <3>2. \A f \in Files : disk'[f].kind = "doc" \/ (f # proc.file /\ disk'[f] = disk[f])
      BY <2>0, <3>1 DEF Doc
    <3>3. reply = NoReply
      BY <2>b, <2>8 DEF Rename, CauseInv
    <3> QED BY <2>a, <2>b, <3>1, <3>2, <3>3 DEF CauseInv
  <2>9. ASSUME SaveFails PROVE CauseInv'
    <3>1. \A s, r : Outcome(s, r).status = s
      BY DEF Outcome
    <3> QED BY <2>c, <2>9, <3>1 DEF SaveFails, Finish
  <2>10. ASSUME Answer PROVE CauseInv'
    <3>1. \A s, r : Outcome(s, r).status = s
      BY DEF Outcome
    <3> QED BY <2>c, <2>10, <3>1 DEF Answer, Finish
  <2>11. ASSUME Kill PROVE CauseInv'
    BY <2>b, <2>c, <2>11 DEF Kill
  <2>12. ASSUME PowerLoss PROVE CauseInv'
    <3>1. PICK left : /\ disk' = left
                      /\ harmed' = harmed \cup {f \in Files : left[f] # disk[f]}
      BY <2>12 DEF PowerLoss
    <3>2. proc' = Idle /\ reply' = NoReply /\ cut' = cut
      BY <2>12 DEF PowerLoss
    <3>3. \A f \in Files : disk'[f].kind \in {"absent", "doc"} \/ f \in cut' \cup harmed'
      BY <3>1, <3>2 DEF CauseInv
    <3> QED BY <2>a, <2>b, <3>2, <3>3 DEF CauseInv, Idle
  <2>13. ASSUME NEW f \in Files, Settle(f) PROVE CauseInv'
    BY <2>a, <2>13 DEF Settle, CauseInv
  <2>14. CASE UNCHANGED vars
    BY <2>14 DEF vars, CauseInv
  <2> QED BY <2>1, <2>2, <2>3, <2>4, <2>5, <2>6, <2>7, <2>8, <2>9, <2>10, <2>11, <2>12, <2>13,
             <2>14 DEF Next
<1> QED BY <1>1, <1>2, StoreInvariant, PTL DEF Spec

(* A registry of the host shows, in the menu, every command once and no    *)
(* more always-visible controls than the ceiling.                          *)
LEMMA MenuIsComplete ==
    ASSUME NEW reg, GoodReg(reg), NEW snap
    PROVE  LET menu == MenuModel("on", reg, snap)
           IN  /\ Len(menu.tier1) <= MaxTier1
               /\ Len(menu.tier1) + Len(menu.tools) = Len(reg)
<1> DEFINE items(at) == [k \in 1..Cardinality(at) |->
               [id |-> Keep(reg, at)[k].id,
                available |-> Evaluate(Keep(reg, at)[k].predicate, snap)]]
           at1 == Tier1(reg)
           rest == DOMAIN reg \ Tier1(reg)
<1>1. /\ MenuModel("on", reg, snap).tier1 = items(at1)
      /\ MenuModel("on", reg, snap).tools = items(rest)
  BY DEF MenuModel, List
<1>2. /\ Len(reg) \in Nat /\ DOMAIN reg = 1..Len(reg) /\ at1 \in SUBSET DOMAIN reg
      /\ Cardinality(at1) \in Nat /\ Cardinality(at1) <= MaxTier1
  BY SeqShape, Tier1Before DEF GoodReg, Tier1Count
<1>3. \A at : Cardinality(at) \in Nat => Len(items(at)) = Cardinality(at)
  <2> SUFFICES ASSUME NEW at, Cardinality(at) \in Nat PROVE Len(items(at)) = Cardinality(at)
    OBVIOUS
  <2> DEFINE m == Cardinality(at)
             s == items(at)
  <2>1. DOMAIN s = 1..m /\ s = [k \in 1..m |-> s[k]] /\ m \in Nat
    OBVIOUS
  <2> HIDE DEF m, s
  <2>2. Len(s) = m
    BY <2>1, FunctionIsSeq
  <2> QED BY <2>2 DEF m, s
<1> HIDE DEF items, at1
<1>4. Cardinality(rest) \in Nat /\ Cardinality(rest) = Len(reg) - Cardinality(at1)
  <2>1. IsFiniteSet(DOMAIN reg) /\ Cardinality(DOMAIN reg) = Len(reg)
    <3> DEFINE n == Len(reg)
    <3>1. n \in Nat /\ DOMAIN reg = 1..n
      BY <1>2
    <3> HIDE DEF n
    <3>2. IsFiniteSet(1..n) /\ Cardinality(1..n) = IF 1 > n THEN 0 ELSE n - 1 + 1
      BY <3>1, FS_Interval
    <3>3. (IF 1 > n THEN 0 ELSE n - 1 + 1) = n
      BY <3>1
    <3> QED BY <3>1, <3>2, <3>3 DEF n
  <2>2. DOMAIN reg \cap at1 = at1
    BY <1>2
  <2>3. /\ IsFiniteSet(DOMAIN reg \ at1)
        /\ Cardinality(DOMAIN reg \ at1) = Cardinality(DOMAIN reg) - Cardinality(at1)
    <3>1. /\ IsFiniteSet(DOMAIN reg \ at1)
          /\ Cardinality(DOMAIN reg \ at1)
             = Cardinality(DOMAIN reg) - Cardinality(DOMAIN reg \cap at1)
      BY <2>1, FS_Difference
    <3> QED BY <2>2, <3>1
  <2>4. Cardinality(DOMAIN reg \ at1) \in Nat
    BY <2>3, FS_CardinalityType
  <2> QED BY <2>1, <2>3, <2>4 DEF at1
<1> HIDE DEF rest
<1>5. Len(items(at1)) = Cardinality(at1) /\ Len(items(rest)) = Cardinality(rest)
  BY <1>2, <1>3, <1>4
<1>6. Len(items(at1)) + Len(items(rest)) = Len(reg)
  BY <1>2, <1>4, <1>5
<1> QED BY <1>1, <1>2, <1>5, <1>6

(* No killed or failed process locks the host out of a file, and whatever  *)
(* registry it wrote it accepts again: the roster first, unique ids, and   *)
(* the ceiling kept (protocol.cc: WriteAll and LoadContext; registry.cc).  *)
THEOREM OnlyHarmLocksOut == Spec => []LockoutHasACause
<1>1. CauseInv => FilesAreReadable
  <2> SUFFICES ASSUME CauseInv PROVE FilesAreReadable
    OBVIOUS
  <2>1. \A f \in Files : Readable(f) \/ f \in cut \cup harmed
    BY DEF CauseInv, Readable
  <2>2. reply.status = "kStoreError" => cut \cup harmed # {} \/ disk["registry"] = Absent
    BY DEF CauseInv
  <2> QED BY <2>1, <2>2 DEF FilesAreReadable
<1>2. StoreInv => RegistryReadsBack
  <2> SUFFICES ASSUME StoreInv, disk["registry"].kind = "doc"
               PROVE  LET back == FromJsonRegistry(disk["registry"].data)
                          reg == back.reg
                      IN  /\ back.ok
                          /\ IsPrefix(FromJsonRegistry(Roster).reg, reg)
                          /\ IsInjective([i \in DOMAIN reg |-> reg[i].id])
                          /\ \A snap \in Snapshots :
                                LET menu == MenuModel("on", reg, snap)
                                IN  /\ Len(menu.tier1) <= MaxTier1
                                    /\ Len(menu.tier1) + Len(menu.tools) = Len(reg)
    BY DEF RegistryReadsBack
  <2> DEFINE back == FromJsonRegistry(disk["registry"].data)
             reg == back.reg
  <2>1. back.ok /\ Registry(reg)
    BY DEF StoreInv, FileOK, Files
  <2> HIDE DEF back
  <2>2. GoodReg(reg)
    BY <2>1 DEF Registry
  <2>3. IsPrefix(Base, reg)
    <3> DEFINE n == Len(Base)
               a == SubSeq(Base, 1, n)
               b == SubSeq(reg, 1, n)
    <3> HIDE DEF reg
    <3>1. IsSeq(reg) /\ IsSeq(Base) /\ n <= Len(reg) /\ \A i \in 1..n : reg[i] = Base[i]
      BY <2>1, RosterIsRegistry DEF Registry, GoodReg
    <3>2. n \in 0..n /\ n \in 0..Len(reg)
      BY <3>1, SeqShape
    <3>3. IsSeq(a) /\ Len(a) = n /\ \A i \in 1..n : a[i] = Base[i]
      BY <3>1, <3>2, FirstMembers
    <3>4. IsSeq(b) /\ Len(b) = n /\ \A i \in 1..n : b[i] = reg[i]
      BY <3>1, <3>2, FirstMembers
    <3> HIDE DEF a, b
    <3>5. a = b
      BY <3>1, <3>3, <3>4, SameSeq
    <3> QED BY <3>1, <3>5 DEF IsPrefix, a, b
  <2>4. IsInjective([i \in DOMAIN reg |-> reg[i].id])
    BY <2>2 DEF GoodReg, IsInjective
  <2> QED BY <2>1, <2>2, <2>3, <2>4, MenuIsComplete DEF Base, back
<1>3. StoreInv /\ CauseInv => LockoutHasACause
  BY <1>1, <1>2 DEF LockoutHasACause
<1> QED BY <1>3, StoreInvariant, CauseInvariant, PTL

-----------------------------------------------------------------------------

(* The third invariant: what was promised is in the file, and in what will *)
(* replace the file.                                                       *)

(* What of the promises a request has not taken back stays in what the     *)
(* request makes of the bindings.                                          *)
LEMMA PromisesSurvive ==
    ASSUME NEW b, BindOK(b), NEW P, P \subseteq ToSet(b), NEW id,
           \A x \in P : id \notin {x.command_id, Unset}
    PROVE  /\ P \subseteq ToSet(WithoutCommand(b, id))
           /\ \A acc : BindRefusal(b, id, acc) = "ok" =>
                 /\ P \subseteq ToSet(Bind(b, id, acc))
                 /\ Bind(b, id, acc) # <<>>
<1>1. P \subseteq {x \in ToSet(b) : x.command_id # id}
  OBVIOUS
<1> QED BY <1>1, WithoutCommandIsOK, BindIsOK

(* The method, for the two that touch the bindings.                        *)
LEMMA PromisesAreHandled ==
    ASSUME StoreInv, PromiseInv, Handle
    PROVE  \/ proc' = Idle
           \/ proc'.pc = "open" /\ proc'.req.method = "register"
           \/ /\ proc'.pc = "rename" /\ proc'.req = proc.req
              /\ proc'.file = "shortcuts" =>
                    /\ proc.req.method \in BindingMethods
                    /\ promised \subseteq ToSet(proc'.data)
                    /\ proc.req.method = "bindings-set" => proc'.data # <<>>
<1> DEFINE req == proc.req
           Saved == /\ proc'.pc = "rename" /\ proc'.req = proc.req
                    /\ proc'.file = "shortcuts" =>
                          /\ proc.req.method \in BindingMethods
                          /\ promised \subseteq ToSet(proc'.data)
                          /\ proc.req.method = "bindings-set" => proc'.data # <<>>
<1>0. proc # Idle /\ req \in Requests
  BY DEF StoreInv, ProcOK, Handle, Idle
<1>1. BindOK(Bindings) /\ promised \subseteq ToSet(Bindings)
  BY DEF StoreInv, FileOK, Files, Bindings, PromiseInv
<1>2. \A f, data : Save(f, data) => /\ proc'.pc = "rename" /\ proc'.req = req
                                    /\ proc'.file = f /\ proc'.data = data
  BY DEF Save
<1>3. CASE req.method = "bindings-set" /\ BindingsSet(req)
  <2>1. \A x \in promised : req.id \notin {x.command_id, Unset}
    BY <1>0, <1>3 DEF PromiseInv, BindingMethods
  <2>2. BindRefusal(Bindings, req.id, req.acc) = "ok" =>
            /\ promised \subseteq ToSet(Bind(Bindings, req.id, req.acc))
            /\ Bind(Bindings, req.id, req.acc) # <<>>
    <3> HIDE DEF req
    <3> QED BY <1>1, <2>1, PromisesSurvive
  <2> QED BY <1>2, <1>3, <2>2 DEF BindingsSet, Finish, BindingMethods
<1>4. CASE req.method = "bindings-clear" /\ BindingsClear(req)
  <2>1. \A x \in promised : req.id \notin {x.command_id, Unset}
    BY <1>0, <1>4 DEF PromiseInv, BindingMethods
  <2>2. CASE req.id = Unset
    <3>1. promised = {}
      BY <2>1, <2>2
    <3> QED BY <1>2, <1>4, <2>2, <3>1 DEF BindingsClear, BindingMethods
  <2>3. CASE req.id # Unset
    <3>1. promised \subseteq ToSet(WithoutCommand(Bindings, req.id))
      <4> HIDE DEF req
      <4> QED BY <1>1, <2>1, PromisesSurvive
    <3> QED BY <1>2, <1>4, <2>3, <3>1 DEF BindingsClear, Finish, BindingMethods
  <2> QED BY <2>2, <2>3
<1>5. CASE Register(req)
  BY <1>5 DEF Register, Finish
<1>6. CASE Invoke(req)
  BY <1>2, <1>6 DEF Invoke, Finish
<1>7. CASE \E r : Finish(r)
  BY <1>7 DEF Finish
<1> QED BY <1>3, <1>4, <1>5, <1>6, <1>7 DEF Handle

(* A promised binding is on disk and in the copy about to replace it       *)
(* (shortcuts.cc: Bind, Unbind; commands_host.cc: the save after them).    *)
THEOREM PromiseInvariant == Spec => []PromiseInv
<1>1. Init => PromiseInv
  BY DEF Init, PromiseInv, Idle
<1>2. StoreInv /\ PromiseInv /\ [Next]_vars => PromiseInv'
  <2> SUFFICES ASSUME StoreInv, PromiseInv, [Next]_vars PROVE PromiseInv'
    OBVIOUS
  <2>0. /\ DOMAIN disk = Files /\ Files = {"registry", "shortcuts", "trust"}
        /\ promised \subseteq ToSet(disk["shortcuts"].data)
        /\ \A pc : pc # "idle" => \A p : p.pc = pc => p # Idle
    BY DEF StoreInv, Files, PromiseInv, Idle
  <2>a. ASSUME proc' = Idle, UNCHANGED promised,
               disk'["shortcuts"].data = disk["shortcuts"].data
        PROVE  PromiseInv'
    BY <2>a DEF PromiseInv, Idle
  <2>b. ASSUME proc' = Idle, UNCHANGED promised, UNCHANGED disk
        PROVE  PromiseInv'
    BY <2>a, <2>b
  <2>1. ASSUME NEW req \in Requests, Start(req) PROVE PromiseInv'
    <3>1. /\ proc' = [pc |-> "registry", req |-> req] /\ UNCHANGED disk
          /\ promised' = promised \ Touched(req)
      BY <2>1 DEF Start
    <3>2. proc'.pc = "registry" /\ proc'.req = req
      BY <3>1
    <3>3. req.method \in BindingMethods => \A b \in promised' : req.id \notin {b.command_id, Unset}
      BY <3>1 DEF Touched, BindingMethods
    <3> QED BY <2>0, <3>1, <3>2, <3>3 DEF PromiseInv
  <2>2. ASSUME LoadRegistry PROVE PromiseInv'
    <3>1. UNCHANGED <<disk, promised>> /\ proc # Idle
      BY <2>0, <2>2 DEF LoadRegistry
    <3>2. CASE proc' = Idle
      BY <2>b, <3>1, <3>2
    <3>3. CASE proc'.pc \in {"handle", "open"} /\ proc'.req = proc.req
      BY <3>1, <3>3 DEF PromiseInv
    <3> QED BY <2>2, <3>2, <3>3 DEF LoadRegistry, Finish
  <2>3. ASSUME OpenRegistry PROVE PromiseInv'
    <3>1. DOMAIN proc = {"pc", "req", "reg", "then"} /\ proc # Idle
      BY <2>0, <2>3 DEF OpenRegistry, StoreInv, ProcOK, Idle
    <3>2. proc'.pc = "fill" /\ proc'.req = proc.req
      BY <2>3, <3>1 DEF OpenRegistry
    <3>3. disk'["shortcuts"] = disk["shortcuts"] /\ UNCHANGED promised
      BY <2>0, <2>3 DEF OpenRegistry, Now
    <3> QED BY <3>1, <3>2, <3>3 DEF PromiseInv
  <2>4. ASSUME OpenFails PROVE PromiseInv'
    <3>1. UNCHANGED <<disk, promised>> /\ proc # Idle /\ AfterWrite(FALSE)
      BY <2>0, <2>4 DEF OpenFails
    <3> QED BY <2>b, <3>1, AfterWriteEnds
  <2>5. ASSUME NEW c, Now("registry", c, {}) \/ Now("registry", c, {Torn}), proc # Idle,
               UNCHANGED promised, NEW written \in BOOLEAN, AfterWrite(written)
        PROVE  PromiseInv'
    <3>1. disk'["shortcuts"] = disk["shortcuts"]
      BY <2>0, <2>5 DEF Now
    <3>2. CASE proc' = Idle
      BY <2>a, <2>5, <3>1, <3>2
    <3>3. CASE proc' = [pc |-> "handle", req |-> proc.req, reg |-> proc.reg]
      <4>1. proc'.pc = "handle" /\ proc'.req = proc.req
        BY <3>3
      <4> QED BY <2>5, <3>1, <4>1 DEF PromiseInv
    <3> QED BY <2>5, <3>2, <3>3, AfterWriteEnds
  <2>6. ASSUME FillRegistry PROVE PromiseInv'
    BY <2>0, <2>5, <2>6 DEF FillRegistry
  <2>7. ASSUME NEW reported \in BOOLEAN, FillFails(reported) PROVE PromiseInv'
    <3>1. PICK c \in {Empty, Torn} : Now("registry", c, {})
      BY <2>7 DEF FillFails
    <3>2. /\ AfterWrite(~reported) /\ (~reported) \in BOOLEAN
          /\ proc # Idle /\ UNCHANGED promised
      BY <2>0, <2>7 DEF FillFails
    <3> QED BY <2>5, <3>1, <3>2
  <2>8. ASSUME Handle PROVE PromiseInv'
    <3>1. UNCHANGED <<disk, promised>> /\ proc # Idle
      BY <2>0, <2>8 DEF Handle
    <3>2. CASE proc' = Idle
      BY <2>b, <3>1, <3>2
    <3>3. CASE proc'.pc = "open" /\ proc'.req.method = "register"
      BY <3>1, <3>3 DEF PromiseInv, BindingMethods
    <3>4. CASE /\ proc'.pc = "rename" /\ proc'.req = proc.req
               /\ proc'.file = "shortcuts" =>
                     /\ proc.req.method \in BindingMethods
                     /\ promised \subseteq ToSet(proc'.data)
                     /\ proc.req.method = "bindings-set" => proc'.data # <<>>
      BY <3>1, <3>4 DEF PromiseInv
    <3> QED BY <2>8, <3>2, <3>3, <3>4, PromisesAreHandled
  <2>9. ASSUME Rename PROVE PromiseInv'
    <3>1. /\ disk' = [disk EXCEPT ![proc.file] = Doc(proc.data)]
          /\ UNCHANGED promised /\ proc # Idle
      BY <2>0, <2>9 DEF Rename, RenameInto, Now
    <3>2. proc'.pc = "answer" /\ proc'.req = proc.req /\ proc'.data = proc.data
      BY <2>9 DEF Rename
    <3>3. \/ proc.file = "shortcuts"
          \/ proc.file = "trust" /\ proc.req.method = "invoke"
      BY <2>9 DEF Rename, StoreInv, ProcOK, Idle
    <3>4. CASE proc.file = "shortcuts"
      <4>1. disk'["shortcuts"].data = proc.data
        BY <2>0, <3>1, <3>4 DEF Doc
      <4>2. /\ promised \subseteq ToSet(proc.data)
            /\ proc.req.method = "bindings-set" => proc.data # <<>>
        BY <2>9, <3>4 DEF Rename, PromiseInv
      <4> QED BY <3>1, <3>2, <4>1, <4>2 DEF PromiseInv
    <3>5. CASE proc.file = "trust" /\ proc.req.method = "invoke"
      <4>1. disk'["shortcuts"] = disk["shortcuts"]
        BY <2>0, <3>1, <3>5
      <4> QED BY <3>1, <3>2, <3>5, <4>1 DEF PromiseInv
    <3> QED BY <3>3, <3>4, <3>5
  <2>10. ASSUME SaveFails PROVE PromiseInv'
    BY <2>b, <2>10 DEF SaveFails, Finish
  <2>11. ASSUME Answer PROVE PromiseInv'
    <3>1. proc' = Idle /\ UNCHANGED disk /\ promised' = Promise(proc.req, proc.data)
      BY <2>11 DEF Answer, Finish
    <3>2. CASE proc.req.method # "bindings-set"
      BY <2>b, <3>1, <3>2 DEF Promise
    <3>3. CASE proc.req.method = "bindings-set"
      <4> DEFINE b == disk["shortcuts"].data
      <4>1. proc.data = b /\ b # <<>> /\ promised' = promised \cup {Last(b)}
        BY <2>11, <3>1, <3>3 DEF Answer, PromiseInv, Promise
      <4>2. IsSeq(b)
        BY DEF StoreInv, FileOK, Files, BindOK
      <4> HIDE DEF b
      <4>3. Len(b) \in DOMAIN b
        <5>1. Len(b) # 0
          BY <4>1, <4>2, EmptySeq DEF IsSeq
        <5> QED BY <4>2, <5>1, SeqShape
      <4>4. Last(b) \in ToSet(b)
        BY <4>3 DEF Last, ToSet
      <4>5. promised' \subseteq ToSet(b)
        BY <2>0, <4>1, <4>4 DEF b
      <4> QED BY <3>1, <4>5 DEF PromiseInv, b, Idle
    <3> QED BY <3>2, <3>3
  <2>12. ASSUME Kill PROVE PromiseInv'
    BY <2>b, <2>12 DEF Kill
  <2>13. ASSUME PowerLoss PROVE PromiseInv'
    <3>1. /\ proc' = Idle
          /\ promised' = {} \/ (promised' = promised /\ disk'["shortcuts"] = disk["shortcuts"])
      BY <2>13 DEF PowerLoss
    <3>2. CASE promised' = {}
      BY <3>1, <3>2 DEF PromiseInv, Idle
    <3> QED BY <2>a, <3>1, <3>2
  <2>14. ASSUME NEW f \in Files, Settle(f) PROVE PromiseInv'
    BY <2>14 DEF Settle, PromiseInv
  <2>15. CASE UNCHANGED vars
    BY <2>15 DEF vars, PromiseInv
  <2> QED BY <2>1, <2>2, <2>3, <2>4, <2>6, <2>7, <2>8, <2>9, <2>10, <2>11, <2>12, <2>13, <2>14,
             <2>15 DEF Next
<1> QED BY <1>1, <1>2, StoreInvariant, PTL DEF Spec

-----------------------------------------------------------------------------
(* The fourth invariant: until the first fault, what is bound is           *)
(* registered.                                                             *)

(* The ids of a registry are those of the document it is written as.       *)
LEMMA IdsAreWritten ==
    ASSUME NEW reg, Registry(reg)
    PROVE  /\ KeptIds(ToJsonRegistry(reg)) = Ids(reg)
           /\ \A c : Ids(reg) \subseteq Ids(Append(reg, c))
<1>1. IsSeq(reg) /\ \A i \in DOMAIN reg : reg[i].id = reg[i].desc["id"]
  BY DEF Registry, GoodReg, Stable
<1>2. /\ DOMAIN ToJsonRegistry(reg) = DOMAIN reg
      /\ \A i \in DOMAIN reg : ToJsonRegistry(reg)[i].desc = reg[i].desc
  BY DEF ToJsonRegistry, Entry
<1>3. KeptIds(ToJsonRegistry(reg)) = Ids(reg)
  BY <1>1, <1>2 DEF KeptIds, Ids
<1>4. ASSUME NEW c PROVE Ids(reg) \subseteq Ids(Append(reg, c))
  <2> DEFINE new == Append(reg, c)
             n == Len(reg)
  <2>1. /\ n \in Nat /\ DOMAIN reg = 1..n /\ DOMAIN new = 1..(n + 1)
        /\ \A i \in 1..n : new[i] = reg[i]
    BY <1>1, SeqShape
  <2> HIDE DEF new, n
  <2>2. \A i \in 1..n : i \in 1..(n + 1)
    BY <2>1
  <2>3. Ids(reg) \subseteq Ids(new)
    BY <2>1, <2>2 DEF Ids
  <2> QED BY <2>3 DEF new
<1> QED BY <1>3, <1>4

(* Only a registered command is bound.                                     *)
LEMMA BoundIdsKnown ==
    ASSUME NEW b, BindOK(b), NEW id
    PROVE  /\ BoundIds(<<>>) = {}
           /\ BoundIds(WithoutCommand(b, id)) \subseteq BoundIds(b)
           /\ \A acc : BindRefusal(b, id, acc) = "ok" =>
                 BoundIds(Bind(b, id, acc)) \subseteq BoundIds(b) \cup {id}
<1>1. \A s : BoundIds(s) = {x.command_id : x \in ToSet(s)}
  BY DEF BoundIds, ToSet
<1>2. \A acc : Binding(id, acc).command_id = id
  BY DEF Binding
<1>3. BoundIds(<<>>) = {}
  BY DEF BoundIds
<1>4. BoundIds(WithoutCommand(b, id)) \subseteq BoundIds(b)
  BY <1>1, WithoutCommandIsOK
<1>5. ASSUME NEW acc, BindRefusal(b, id, acc) = "ok"
      PROVE  BoundIds(Bind(b, id, acc)) \subseteq BoundIds(b) \cup {id}
  BY <1>1, <1>2, <1>5, BindIsOK
<1> QED BY <1>3, <1>4, <1>5

(* The method, as long as nothing has failed.                              *)
LEMMA KnownAreHandled ==
    ASSUME StoreInv, KnownInv, faults = 0, Handle
    PROVE  LET kept == KeptIds(disk["registry"].data)
           IN  \/ proc' = Idle
               \/ /\ proc'.pc = "open"
                  /\ BoundIds(disk["shortcuts"].data) \subseteq Ids(proc'.reg)
               \/ /\ proc'.pc = "rename"
                  /\ proc'.file = "shortcuts" => BoundIds(proc'.data) \subseteq kept
<1> DEFINE req == proc.req
           kept == KeptIds(disk["registry"].data)
<1>0. /\ proc.pc = "handle" /\ Registry(proc.reg)
  BY DEF StoreInv, ProcOK, Handle, Idle
<1>1. /\ BindOK(Bindings) /\ BoundIds(Bindings) \subseteq kept /\ kept = Ids(proc.reg)
  BY <1>0 DEF StoreInv, FileOK, Files, Bindings, KnownInv
<1>2. \A f, data : Save(f, data) => proc'.pc = "rename" /\ proc'.file = f /\ proc'.data = data
  BY DEF Save
<1> HIDE DEF kept, req
<1>3. CASE BindingsSet(req)
  <2>1. KnownId(Reg, req.id) => req.id \in kept
    BY <1>1 DEF KnownId, Reg, Ids
  <2>2. BindRefusal(Bindings, req.id, req.acc) = "ok" =>
            BoundIds(Bind(Bindings, req.id, req.acc)) \subseteq BoundIds(Bindings) \cup {req.id}
    BY <1>1, BoundIdsKnown
  <2> QED BY <1>1, <1>2, <1>3, <2>1, <2>2 DEF BindingsSet, Finish, kept
<1>4. CASE BindingsClear(req)
  <2>1. /\ BoundIds(<<>>) \subseteq kept
        /\ BoundIds(WithoutCommand(Bindings, req.id)) \subseteq kept
    BY <1>1, BoundIdsKnown
  <2> QED BY <1>2, <1>4, <2>1 DEF BindingsClear, Finish, kept
<1>5. CASE Register(req)
  <2>1. \A c : BoundIds(Bindings) \subseteq Ids(Append(proc.reg, c))
    BY <1>0, <1>1, IdsAreWritten
  <2> DEFINE c == Command(req.desc, req.scope, req.predicate)
  <2>2. CASE proc' = [pc |-> "open", req |-> [id |-> c.id, method |-> "register"],
                      reg |-> Append(proc.reg, c), then |-> "reply"]
    <3>1. proc'.pc = "open" /\ proc'.reg = Append(proc.reg, c)
      BY <2>2
    <3> QED BY <2>1, <3>1 DEF Bindings
  <2>3. CASE proc' = Idle
    BY <2>3
  <2> QED BY <1>5, <2>2, <2>3 DEF Register, Finish, Reg
<1>6. CASE Invoke(req)
  BY <1>2, <1>6 DEF Invoke, Finish
<1>7. CASE \E r : Finish(r)
  BY <1>7 DEF Finish
<1> QED BY <1>3, <1>4, <1>5, <1>6, <1>7 DEF Handle, req

(* Without a fault, whatever the shortcut file binds is a known command.   *)
THEOREM KnownInvariant == Spec => []KnownInv
<1>1. Init => KnownInv
  BY DEF Init, KnownInv, Idle, Absent, Files, BoundIds
<1>2. StoreInv /\ CauseInv /\ KnownInv /\ [Next]_vars => KnownInv'
  <2> SUFFICES ASSUME StoreInv, CauseInv, KnownInv, [Next]_vars, faults' = 0 PROVE KnownInv'
    BY DEF KnownInv
  <2> DEFINE bound == BoundIds(disk["shortcuts"].data)
             kept == KeptIds(disk["registry"].data)
  <2>0. /\ DOMAIN disk = Files /\ Files = {"registry", "shortcuts", "trust"}
    BY DEF StoreInv, Files
  <2>a. ~Fail
    BY DEF Fail, CauseInv
  <2>b. faults = 0
    BY <2>a DEF Next, Start, LoadRegistry, OpenRegistry, OpenFails, FillRegistry, FillFails,
                Handle, Rename, SaveFails, Answer, Kill, PowerLoss, Settle, NoFault, vars
  <2>c. /\ proc.pc # "fill" => bound \subseteq kept
        /\ proc.pc \in {"open", "fill"} => bound \subseteq Ids(proc.reg)
        /\ proc.pc = "rename" /\ proc.file = "shortcuts" => BoundIds(proc.data) \subseteq kept
    BY <2>b DEF KnownInv
  <2>d. ASSUME UNCHANGED disk, proc.pc # "fill",
               proc'.pc \in {"idle", "registry", "answer"}
        PROVE  KnownInv'
    BY <2>c, <2>d DEF KnownInv
  <2> HIDE DEF bound, kept
  <2>1. ASSUME NEW req \in Requests, Start(req) PROVE KnownInv'
    BY <2>1, <2>d DEF Start, Idle
  <2>2. ASSUME LoadRegistry PROVE KnownInv'
    <3>0. UNCHANGED disk /\ proc.pc = "registry"
      BY <2>2 DEF LoadRegistry
    <3>1. CASE /\ disk["registry"].kind = "doc"
               /\ proc' = [pc |-> "handle", req |-> proc.req,
                           reg |-> FromJsonRegistry(disk["registry"].data).reg]
      <4>1. kept = Ids(FromJsonRegistry(disk["registry"].data).reg)
        BY <3>1, IdsAreWritten DEF StoreInv, FileOK, Files, kept
      <4>2. proc'.pc = "handle" /\ proc'.reg = FromJsonRegistry(disk["registry"].data).reg
        BY <3>1
      <4> QED BY <2>c, <3>0, <4>1, <4>2 DEF KnownInv, bound, kept
    <3>2. CASE disk["registry"].kind # "doc" /\ proc'.pc = "open"
      <4>1. disk["registry"].data = <<>>
        BY <3>2, KindsOfFiles DEF StoreInv, Files
      <4>2. bound = {}
        BY <2>c, <3>0, <4>1 DEF kept, KeptIds
      <4> QED BY <3>0, <3>2, <4>2 DEF KnownInv, bound
    <3>3. CASE proc' = Idle
      BY <2>d, <3>0, <3>3 DEF Idle
    <3> QED BY <2>2, <3>1, <3>2, <3>3 DEF LoadRegistry, Finish
  <2>3. ASSUME OpenRegistry PROVE KnownInv'
    <3>1. DOMAIN proc = {"pc", "req", "reg", "then"}
      BY <2>3 DEF OpenRegistry, StoreInv, ProcOK, Idle
    <3>2. proc'.pc = "fill" /\ proc'.reg = proc.reg
      BY <2>3, <3>1 DEF OpenRegistry
    <3>3. disk'["shortcuts"] = disk["shortcuts"] /\ disk'["registry"] = Empty
      BY <2>0, <2>3 DEF OpenRegistry, Now
    <3>4. bound \subseteq Ids(proc.reg)
      BY <2>3, <2>c DEF OpenRegistry
    <3> QED BY <3>2, <3>3, <3>4 DEF KnownInv, bound
  <2>4. ASSUME FillRegistry PROVE KnownInv'
    <3>1. /\ disk'["shortcuts"] = disk["shortcuts"]
          /\ disk'["registry"].data = ToJsonRegistry(proc.reg)
      BY <2>0, <2>4 DEF FillRegistry, Now, Doc
    <3>2. Registry(proc.reg) /\ bound \subseteq Ids(proc.reg)
      BY <2>4, <2>c DEF FillRegistry, StoreInv, ProcOK, Idle
    <3>3. KeptIds(disk'["registry"].data) = Ids(proc.reg)
      BY <3>1, <3>2, IdsAreWritten
    <3>4. CASE proc' = Idle
      BY <3>1, <3>2, <3>3, <3>4 DEF KnownInv, bound, Idle
    <3>5. CASE proc' = [pc |-> "handle", req |-> proc.req, reg |-> proc.reg]
      <4>1. proc'.pc = "handle" /\ proc'.reg = proc.reg
        BY <3>5
      <4> QED BY <3>1, <3>2, <3>3, <4>1 DEF KnownInv, bound
    <3>6. AfterWrite(TRUE)
      BY <2>4 DEF FillRegistry
    <3> QED BY <3>4, <3>5, <3>6, AfterWriteEnds
  <2>5. ASSUME Handle PROVE KnownInv'
    <3>1. UNCHANGED disk /\ proc.pc = "handle"
      BY <2>5 DEF Handle
    <3>2. CASE proc' = Idle
      BY <2>d, <3>1, <3>2 DEF Idle
    <3>3. CASE proc'.pc = "open" /\ bound \subseteq Ids(proc'.reg)
      BY <2>c, <3>1, <3>3 DEF KnownInv, bound, kept
    <3>4. CASE /\ proc'.pc = "rename"
               /\ proc'.file = "shortcuts" => BoundIds(proc'.data) \subseteq kept
      BY <2>c, <3>1, <3>4 DEF KnownInv, bound, kept
    <3> QED BY <2>5, <2>b, <3>2, <3>3, <3>4, KnownAreHandled DEF bound, kept
  <2>6. ASSUME Rename PROVE KnownInv'
    <3>1. /\ disk' = [disk EXCEPT ![proc.file] = Doc(proc.data)]
          /\ proc'.pc = "answer" /\ proc.pc = "rename"
      BY <2>6 DEF Rename, RenameInto, Now
    <3>2. CASE proc.file = "shortcuts"
      <4>1. disk'["shortcuts"].data = proc.data /\ disk'["registry"] = disk["registry"]
        BY <2>0, <3>1, <3>2 DEF Doc
      <4> QED BY <2>c, <3>1, <3>2, <4>1 DEF KnownInv, kept
    <3>3. CASE proc.file = "trust"
      <4>1. disk'["shortcuts"] = disk["shortcuts"] /\ disk'["registry"] = disk["registry"]
        BY <2>0, <3>1, <3>3
      <4> QED BY <2>c, <3>1, <4>1 DEF KnownInv, bound, kept
    <3>4. proc.file \in {"shortcuts", "trust"}
      BY <3>1 DEF StoreInv, ProcOK, Idle
    <3> QED BY <3>2, <3>3, <3>4
  <2>7. ASSUME Answer PROVE KnownInv'
    BY <2>7, <2>d DEF Answer, Finish, Idle
  <2>8. ASSUME NEW f \in Files, Settle(f) PROVE KnownInv'
    BY <2>8 DEF Settle, KnownInv
  <2>9. CASE UNCHANGED vars
    BY <2>9 DEF vars, KnownInv
  <2> QED BY <2>a, <2>1, <2>2, <2>3, <2>4, <2>5, <2>6, <2>7, <2>8, <2>9
          DEF Next, OpenFails, FillFails, SaveFails, Kill, PowerLoss
<1> QED BY <1>1, <1>2, StoreInvariant, CauseInvariant, PTL DEF Spec

(* A binding that was reported as persisted stays bound until a request    *)
(* touches its command or a power loss changes the file; accelerators and  *)
(* commands stay one to one, none is reserved, and until something fails   *)
(* what is bound is registered (shortcuts.cc: Bind, Load and Save).        *)
THEOREM PromisesAreKept == Spec => []PromisedStaysBound
<1>1. StoreInv /\ PromiseInv /\ KnownInv => PromisedStaysBound
  <2> SUFFICES ASSUME StoreInv, PromiseInv, KnownInv PROVE PromisedStaysBound
    OBVIOUS
  <2>1. promised \subseteq ToSet(Bindings) /\ BindOK(Bindings)
    BY DEF PromiseInv, Bindings, StoreInv, FileOK, Files
  <2>2. /\ IsInjective([i \in DOMAIN Bindings |-> Bindings[i].accelerator])
        /\ IsInjective([i \in DOMAIN Bindings |-> Bindings[i].command_id])
    BY <2>1 DEF BindOK, IsInjective
  <2>3. \A b \in ToSet(Bindings) : b.accelerator \notin Reserved
    BY <2>1 DEF BindOK, ToSet
  <2>4. ASSUME faults = 0, disk["registry"].kind = "doc", NEW b \in ToSet(Bindings)
        PROVE  \E e \in ToSet(disk["registry"].data) : e.desc["id"] = b.command_id
    <3>1. disk["registry"] # Empty
      BY <2>4 DEF Empty
    <3>2. BoundIds(Bindings) \subseteq KeptIds(disk["registry"].data)
      BY <2>4, <3>1 DEF KnownInv, Bindings
    <3>3. b.command_id \in BoundIds(Bindings)
      BY DEF BoundIds, ToSet
    <3> QED BY <3>2, <3>3 DEF KeptIds, ToSet
  <2> QED BY <2>1, <2>2, <2>3, <2>4 DEF PromisedStaysBound
<1> QED BY <1>1, StoreInvariant, PromiseInvariant, KnownInvariant, PTL

-----------------------------------------------------------------------------
(* The fifth invariant: a dial comes from a command of the registry, and   *)
(* what it writes holds.                                                   *)

(* The first member of a set of positions.                                 *)
LEMMA FirstPosition ==
    ASSUME NEW n \in Nat, NEW at \in SUBSET (1..n), at # {}
    PROVE  /\ Min(at) \in at
           /\ \A i \in at : Min(at) <= i
<1> DEFINE m == Cardinality(at)
           a == Nth(1, at)
<1>1. m \in Nat /\ \A i \in at : Place(i, at) \in 1..m
  BY PlacesGrow
<1>2. /\ \A k \in 1..m : Nth(k, at) \in at
      /\ \A i \in at : Nth(Place(i, at), at) = i
      /\ \A j, k \in 1..m : j < k => Nth(j, at) < Nth(k, at)
  BY EveryPlaceIsTaken
<1> HIDE DEF m
<1>3. 1 \in 1..m
  <2>1. PICK i \in at : TRUE
    OBVIOUS
  <2>2. Place(i, at) \in 1..m
    BY <1>1, <2>1
  <2> QED BY <1>1, <2>2
<1>4. ASSUME NEW i \in at PROVE a <= i
  <2>1. Place(i, at) = 1 \/ 1 < Place(i, at)
    BY <1>1
  <2>2. a \in Int /\ i \in Int
    <3>1. \A j \in at : j \in Int
      OBVIOUS
    <3>2. a \in at
      BY <1>2, <1>3
    <3> HIDE DEF a
    <3> QED BY <3>1, <3>2
  <2>3. a = i \/ a < i
    BY <1>1, <1>2, <1>3, <2>1
  <2> HIDE DEF a
  <2> QED BY <2>2, <2>3
<1>5. \E x \in at : \A y \in at : x <= y
  BY <1>2, <1>3, <1>4
<1> QED BY <1>5 DEF Min

(* Whoever loses no entry keeps its trust, whatever else is taken out or   *)
(* appended for others.                                                    *)
LEMMA KeptTrust ==
    ASSUME NEW entries, IsSeq(entries), NEW at \in SUBSET DOMAIN entries, NEW d, NEW i,
           Own(entries, d, i) \subseteq at
    PROVE  CurrentTrust(Keep(entries, at), d, i) = CurrentTrust(entries, d, i)
<1> DEFINE w == Keep(entries, at)
           m == Cardinality(at)
           own == Own(entries, d, i)
           kept == Own(w, d, i)
<1>1. Len(entries) \in Nat /\ DOMAIN entries = 1..Len(entries)
  BY SeqShape
<1>2. /\ m \in Nat /\ DOMAIN w = 1..m
      /\ \A k \in 1..m : Nth(k, at) \in at /\ w[k] = entries[Nth(k, at)]
  BY KeptMembers
<1>3. /\ \A j \in at : Place(j, at) \in 1..m /\ Nth(Place(j, at), at) = j
      /\ \A j, k \in 1..m : j < k => Nth(j, at) < Nth(k, at)
  BY <1>1, PlacesGrow, EveryPlaceIsTaken
<1> HIDE DEF w, m
<1>4. kept = {k \in 1..m : Nth(k, at) \in own}
  BY <1>2 DEF Own
<1>5. own \in SUBSET (1..Len(entries)) /\ kept \in SUBSET (1..m)
  BY <1>1, <1>2 DEF Own
<1> HIDE DEF own, kept
<1>6. CASE own = {}
  <2>1. kept = {}
    BY <1>4, <1>6
  <2> QED BY <1>6, <2>1 DEF CurrentTrust, own, kept, w
<1>7. CASE own # {}
  <2> DEFINE a == Min(own)
             k == Min(kept)
             p == Place(a, at)
  <2>1. a \in own /\ \A j \in own : a <= j
    BY <1>1, <1>5, <1>7, FirstPosition
  <2>2. p \in 1..m /\ Nth(p, at) = a /\ p \in kept
    BY <1>3, <1>4, <2>1 DEF own
  <2>3. k \in kept /\ \A j \in kept : k <= j
    BY <1>2, <1>5, <2>2, FirstPosition
  <2> HIDE DEF a, k, p
  <2>4. k \in 1..m /\ Nth(k, at) \in own /\ k <= p
    BY <1>4, <2>2, <2>3
  <2>5. ~(k < p)
    <3> SUFFICES ASSUME k < p PROVE FALSE
      OBVIOUS
    <3> DEFINE b == Nth(k, at)
    <3>1. b < a /\ a <= b
      BY <1>3, <2>1, <2>2, <2>4
    <3> HIDE DEF b
    <3>2. a \in own /\ b \in own
      BY <2>1, <2>4 DEF b
    <3>3. a \in Int /\ b \in Int
      BY <1>1, <1>5, <3>2
    <3> QED BY <3>1, <3>3
  <2>6. k = p
    BY <2>2, <2>4, <2>5
  <2>7. w[k] = entries[a]
    BY <1>2, <2>2, <2>6
  <2> QED BY <1>7, <2>2, <2>7 DEF CurrentTrust, own, kept, w, a, k
<1> QED BY <1>6, <1>7

(* An entry for somebody else does not change whose entry counts.          *)
LEMMA AppendedTrust ==
    ASSUME NEW entries, IsSeq(entries), NEW x, NEW d, NEW i, ~IsOf(x, d, i)
    PROVE  CurrentTrust(Append(entries, x), d, i) = CurrentTrust(entries, d, i)
<1> DEFINE new == Append(entries, x)
           n == Len(entries)
           own == Own(entries, d, i)
<1>1. /\ n \in Nat /\ DOMAIN entries = 1..n /\ DOMAIN new = 1..(n + 1)
      /\ \A j \in 1..n : new[j] = entries[j]
      /\ new[n + 1] = x
  BY SeqShape
<1> HIDE DEF new, n
<1>2. \A j : j \in 1..(n + 1) <=> j \in 1..n \/ j = n + 1
  BY <1>1
<1>3. Own(new, d, i) = own /\ own \in SUBSET (1..n)
  BY <1>1, <1>2 DEF Own
<1> HIDE DEF own
<1>4. own # {} => Min(own) \in 1..n
  BY <1>1, <1>3, FirstPosition
<1>5. own # {} => new[Min(own)] = entries[Min(own)]
  BY <1>1, <1>4
<1> QED BY <1>3, <1>5 DEF CurrentTrust, new, own

(* A dial at a site concerns a subject of that site: the palette's own,    *)
(* every identity's, or any other while an entry stands for every identity.*)
Concerns(entries, site, d, i) ==
    /\ d = site
    /\ i \in {Palette, Unset} \/ \E e \in ToSet(entries) : e.domain = d /\ e.identity = Unset

(* A dial leaves the trust of every subject that it does not concern.      *)
LEMMA OthersKeepTheirTrust ==
    ASSUME NEW entries, TrustOK(entries), NEW site, NEW d, NEW i, ~Concerns(entries, site, d, i)
    PROVE  /\ CurrentTrust(WithoutTrust(entries, site, Palette), d, i)
                = CurrentTrust(entries, d, i)
           /\ \A tier : CurrentTrust(SetTrust(entries, site, Palette, tier), d, i)
                          = CurrentTrust(entries, d, i)
<1> DEFINE at == DOMAIN entries \ Own(entries, site, Palette)
           w == WithoutTrust(entries, site, Palette)
<1>1. Own(entries, d, i) \subseteq at
  <2> SUFFICES ASSUME NEW j \in DOMAIN entries, IsOf(entries[j], d, i),
                      IsOf(entries[j], site, Palette)
               PROVE  FALSE
    BY DEF Own
  <2>1. entries[j].domain = d /\ d = site /\ entries[j] \in ToSet(entries)
    BY DEF IsOf, ToSet
  <2>2. entries[j].identity \in {i, Unset} /\ entries[j].identity \in {Palette, Unset}
    BY DEF IsOf
  <2> QED BY <2>1, <2>2 DEF Concerns
<1>2. CurrentTrust(w, d, i) = CurrentTrust(entries, d, i)
  BY <1>1, KeptTrust DEF TrustOK, WithoutTrust
<1>3. IsSeq(w)
  BY WithoutTrustIsOK DEF TrustOK
<1>4. \A tier : ~IsOf(EntryOf(site, Palette, tier), d, i)
  BY HostAssumption DEF IsOf, EntryOf, Concerns
<1> HIDE DEF w
<1>5. \A tier : CurrentTrust(SetTrust(entries, site, Palette, tier), d, i) = CurrentTrust(w, d, i)
  BY <1>3, <1>4, AppendedTrust DEF SetTrust, w
<1> QED BY <1>2, <1>5 DEF w

(* A command that is found is the command of that id; for a command of the *)
(* roster it is the roster's.                                              *)
LEMMA FoundCommand ==
    ASSUME NEW reg, Registry(reg), NEW id, KnownId(reg, id)
    PROVE  /\ \E j \in DOMAIN reg : Find(reg, id) = reg[j]
           /\ Find(reg, id).id = id /\ Find(reg, id).desc["id"] = id
           /\ \A e \in ToSet(Roster) : e.desc["id"] = id => Find(reg, id).desc = e.desc
<1>1. PICK j \in DOMAIN reg : Find(reg, id) = reg[j] /\ reg[j].id = id
  BY DEF Find, KnownId
<1>2. reg[j].id = reg[j].desc["id"]
  BY DEF Registry, GoodReg, Stable
<1>3. ASSUME NEW e \in ToSet(Roster), e.desc["id"] = id PROVE Find(reg, id).desc = e.desc
  <2>1. PICK i \in DOMAIN Roster : Roster[i] = e
    BY DEF ToSet
  <2>2. /\ GoodReg(Base) /\ DOMAIN Base = DOMAIN Roster /\ Base[i].desc = e.desc
    <3>1. IsSeq(Roster) /\ FromJsonRegistry(Roster).ok
      BY HostAssumption DEF IsSeq, Registry
    <3> QED BY <2>1, <3>1, AcceptedIsGood DEF Base
  <2>3. Base[i].id = id
    BY <1>3, <2>1, <2>2 DEF GoodReg, Stable
  <2>4. /\ DOMAIN Base = 1..Len(Base) /\ Len(Base) \in Nat
        /\ DOMAIN reg = 1..Len(reg) /\ Len(reg) \in Nat
        /\ Len(Base) <= Len(reg) /\ \A k \in 1..Len(Base) : reg[k] = Base[k]
    BY <2>2, SeqShape DEF Registry, GoodReg
  <2>5. i \in DOMAIN reg /\ reg[i] = Base[i]
    BY <2>1, <2>2, <2>4
  <2>6. i = j
    BY <1>1, <2>3, <2>5 DEF Registry, GoodReg
  <2> QED BY <1>1, <2>2, <2>5, <2>6
<1> QED BY <1>1, <1>2, <1>3

(* What an authorised invocation of a dial writes.                         *)
LEMMA DialsAreHandled ==
    ASSUME StoreInv, DialInv, Handle, proc'.pc = "rename", proc'.file = "trust"
    PROVE  /\ proc'.req = proc.req
           /\ Dialled(Documents, disk["trust"].data, proc'.data, proc.req)
<1> DEFINE req == proc.req
           reg == proc.reg
           handler == Find(reg, req.id).desc["handler"]
<1>1. Registry(reg) /\ TrustOK(Trust) /\ \A i \in DOMAIN reg : Known(Documents, reg[i].desc)
  BY DEF StoreInv, ProcOK, Handle, Idle, DialInv, FileOK, Files, Trust
<1>2. Invoke(req)
  BY DEF Handle, BindingsSet, BindingsClear, Register, Save, Finish, Idle
<1>3. /\ InvokeStatus(reg, req.id, req.source, req.confirmed) = "authorized"
      /\ proc'.req = req
      /\ \/ handler \in DOMAIN Dials
            /\ proc'.data = SetTrust(Trust, req.site, Palette, Dials[handler])
         \/ handler \notin DOMAIN Dials /\ proc'.data = WithoutTrust(Trust, req.site, Palette)
  BY <1>2 DEF Invoke, Save, Finish, Idle, Reg
<1> HIDE DEF req, reg
<1>4. /\ req.source \in AllowedSources /\ KnownId(reg, req.id)
      /\ Find(reg, req.id).desc["danger_class"] = "destructive" => req.confirmed
  BY <1>3 DEF InvokeStatus
<1>5. \E e \in Documents : /\ e.desc["id"] = req.id
                           /\ e.desc["danger_class"] = "destructive" => req.confirmed
  <2>1. PICK e \in Documents : e.desc = Find(reg, req.id).desc
    BY <1>1, <1>4, FoundCommand DEF Known
  <2> QED BY <1>1, <1>4, <2>1, FoundCommand
<1>6. \A e \in ToSet(Roster) : e.desc["id"] = req.id => e.desc["handler"] = handler
  BY <1>1, <1>4, FoundCommand
<1> HIDE DEF handler
<1>7. Takes(proc'.data, req)
  <2>1. CASE handler \notin DOMAIN Dials
    BY <1>6, <2>1 DEF Takes
  <2>2. CASE handler \in DOMAIN Dials
    <3>1. proc'.data = SetTrust(Trust, req.site, Palette, Dials[handler])
      BY <1>3, <2>2
    <3>2. PICK n : /\ n \in DOMAIN proc'.data /\ Own(proc'.data, req.site, Palette) = {n}
                   /\ proc'.data[n] = EntryOf(req.site, Palette, Dials[handler])
      BY <1>1, <3>1, SetTrustIsOK
    <3> QED BY <1>6, <3>2 DEF Takes
  <2> QED BY <2>1, <2>2
<1>8. \/ proc'.data = WithoutTrust(Trust, req.site, Palette)
      \/ \E tier : proc'.data = SetTrust(Trust, req.site, Palette, tier)
  BY <1>3
<1> QED BY <1>3, <1>4, <1>5, <1>7, <1>8 DEF Dialled, Trust, req

(* A dial replied to as done is the entry that counts for its subject      *)
(* (policy_state.cc: SetTrust).                                            *)
THEOREM DialInvariant == Spec => []DialInv
<1>1. Init => DialInv
  BY DEF Init, DialInv, Idle, NoReply
<1>2. StoreInv /\ CauseInv /\ DialInv /\ [Next]_vars => DialInv'
  <2> SUFFICES ASSUME StoreInv, CauseInv, DialInv, [Next]_vars PROVE DialInv'
    OBVIOUS
  <2>0. /\ DOMAIN disk = Files /\ Files = {"registry", "shortcuts", "trust"}
        /\ \A pc : pc # "idle" => \A p : p.pc = pc => p # Idle
    BY DEF StoreInv, Files, Idle
  <2>q. NoReply.status # "done" /\ (proc # Idle => reply = NoReply)
    BY DEF CauseInv, NoReply
  <2>a. ASSUME proc'.pc \notin {"handle", "rename", "answer"}, reply'.status # "done"
        PROVE  DialInv'
    BY <2>a DEF DialInv
  <2>b. ASSUME proc # Idle, UNCHANGED reply, proc'.pc \notin {"handle", "rename", "answer"}
        PROVE  DialInv'
    BY <2>a, <2>b, <2>q
  <2>c. ASSUME proc' = Idle, reply'.status # "done" PROVE DialInv'
    BY <2>a, <2>c DEF Idle
  <2>d. ASSUME proc # Idle, UNCHANGED reply, NEW reg,
               proc'.pc = "handle", proc'.reg = reg,
               \A i \in DOMAIN reg : \E e \in ToSet(Roster) : e.desc = reg[i].desc
        PROVE  DialInv'
    BY <2>d, <2>q DEF DialInv, Documents, Known
  <2>e. ASSUME Registry(Base) PROVE \A i \in DOMAIN Base : \E e \in ToSet(Roster) : e.desc = Base[i].desc
    <3>1. IsSeq(Roster) /\ FromJsonRegistry(Roster).ok
      BY <2>e, HostAssumption DEF IsSeq, Registry
    <3>2. DOMAIN Base = DOMAIN Roster /\ \A i \in DOMAIN Roster : Base[i].desc = Roster[i].desc
      BY <3>1, AcceptedIsGood DEF Base
    <3> QED BY <3>2 DEF ToSet
  <2>f. ASSUME proc.pc \in {"open", "fill"}, NEW written \in BOOLEAN, AfterWrite(written)
        PROVE  DialInv'
    <3>1. proc # Idle
      BY <2>0, <2>f
    <3>2. CASE proc' = Idle /\ reply'.status # "done"
      BY <2>c, <3>2
    <3>3. CASE /\ proc.then = "handle" /\ UNCHANGED reply
               /\ proc' = [pc |-> "handle", req |-> proc.req, reg |-> proc.reg]
      <4>1. proc'.pc = "handle" /\ proc'.reg = proc.reg
        BY <3>3
      <4>2. proc.reg = Base /\ Registry(Base)
        BY <2>f, <3>3 DEF StoreInv, ProcOK, Idle
      <4> QED BY <2>d, <2>e, <3>1, <3>3, <4>1, <4>2
    <3> QED BY <2>f, <3>2, <3>3, AfterWriteEnds
  <2>1. ASSUME NEW req \in Requests, Start(req) PROVE DialInv'
    <3>1. proc'.pc = "registry" /\ reply' = NoReply
      BY <2>1 DEF Start
    <3> QED BY <2>a, <2>q, <3>1
  <2>2. ASSUME LoadRegistry PROVE DialInv'
    <3>0. UNCHANGED disk /\ proc # Idle
      BY <2>0, <2>2 DEF LoadRegistry
    <3>1. CASE /\ disk["registry"].kind = "doc" /\ UNCHANGED reply
               /\ proc' = [pc |-> "handle", req |-> proc.req,
                           reg |-> FromJsonRegistry(disk["registry"].data).reg]
      <4> DEFINE reg == FromJsonRegistry(disk["registry"].data).reg
                 data == disk["registry"].data
      <4>1. proc'.pc = "handle" /\ proc'.reg = reg
        BY <3>1
      <4>2. data = ToJsonRegistry(reg)
        BY <3>1 DEF StoreInv, FileOK, Files
      <4> HIDE DEF reg, data
      <4>3. \A i \in DOMAIN reg : \E e \in ToSet(data) : e.desc = reg[i].desc
        BY <4>2 DEF ToJsonRegistry, Entry, ToSet
      <4>4. \A i \in DOMAIN reg : Known(Documents', reg[i].desc)
        BY <3>0, <4>3 DEF Known, Documents, data
      <4> QED BY <2>q, <3>0, <3>1, <4>1, <4>4 DEF DialInv
    <3>2. CASE UNCHANGED reply /\ proc'.pc = "open"
      BY <2>b, <3>0, <3>2
    <3>3. CASE proc' = Idle /\ reply' = StoreError
      BY <2>c, <3>3 DEF StoreError
    <3> QED BY <2>2, <3>1, <3>2, <3>3 DEF LoadRegistry, Finish
  <2>3. ASSUME OpenRegistry PROVE DialInv'
    <3>1. DOMAIN proc = {"pc", "req", "reg", "then"} /\ proc # Idle
      BY <2>0, <2>3 DEF OpenRegistry, StoreInv, ProcOK, Idle
    <3>2. proc'.pc = "fill" /\ UNCHANGED reply
      BY <2>3, <3>1 DEF OpenRegistry
    <3> QED BY <2>b, <3>1, <3>2
  <2>4. ASSUME OpenFails PROVE DialInv'
    BY <2>4, <2>f DEF OpenFails
  <2>5. ASSUME FillRegistry PROVE DialInv'
    BY <2>5, <2>f DEF FillRegistry
  <2>6. ASSUME NEW reported \in BOOLEAN, FillFails(reported) PROVE DialInv'
    <3>1. AfterWrite(~reported) /\ (~reported) \in BOOLEAN /\ proc.pc = "fill"
      BY <2>6 DEF FillFails
    <3> QED BY <2>f, <3>1
  <2>7. ASSUME Handle PROVE DialInv'
    <3>1. UNCHANGED disk /\ proc # Idle
      BY <2>0, <2>7 DEF Handle
    <3>2. CASE proc' = Idle /\ reply'.status # "done"
      BY <2>c, <3>2
    <3>3. CASE UNCHANGED reply /\ proc'.pc = "open"
      BY <2>b, <3>1, <3>3
    <3>4. CASE UNCHANGED reply /\ proc'.pc = "rename"
      <4>1. proc'.file = "trust" =>
                Dialled(Documents, disk["trust"].data, proc'.data, proc'.req)
        BY <2>7, <3>4, DialsAreHandled
      <4>2. Documents' = Documents
        BY <3>1 DEF Documents
      <4> QED BY <2>q, <3>1, <3>4, <4>1, <4>2 DEF DialInv
    <3> QED BY <2>7, <3>2, <3>3, <3>4, HandleEnds
  <2>8. ASSUME Rename PROVE DialInv'
    <3>1. /\ disk' = [disk EXCEPT ![proc.file] = Doc(proc.data)]
          /\ UNCHANGED reply /\ proc # Idle
      BY <2>0, <2>8 DEF Rename, RenameInto, Now
    <3>2. proc'.pc = "answer" /\ proc'.req = proc.req
      BY <2>8 DEF Rename
    <3>3. proc.req.method = "invoke" => Takes(disk'["trust"].data, proc.req)
      <4> SUFFICES ASSUME proc.req.method = "invoke" PROVE Takes(disk'["trust"].data, proc.req)
        OBVIOUS
      <4>1. proc.pc = "rename" /\ proc.file = "trust"
        BY <2>8 DEF Rename, StoreInv, ProcOK, Idle
      <4>2. disk'["trust"].data = proc.data
        BY <2>0, <3>1, <4>1 DEF Doc
      <4>3. Takes(proc.data, proc.req)
        BY <4>1 DEF DialInv, Dialled
      <4> QED BY <4>2, <4>3
    <3> QED BY <2>q, <3>1, <3>2, <3>3 DEF DialInv
  <2>9. ASSUME SaveFails PROVE DialInv'
    <3>1. \A s, r : Outcome(s, r).status = s
      BY DEF Outcome
    <3> QED BY <2>c, <2>9, <3>1 DEF SaveFails, Finish
  <2>10. ASSUME Answer PROVE DialInv'
    <3>1. /\ proc' = Idle /\ reply' = Outcome("done", proc.req) /\ UNCHANGED disk
          /\ proc.pc = "answer"
      BY <2>10 DEF Answer, Finish
    <3>2. reply'.method = proc.req.method /\ reply'.req = proc.req
      BY <3>1 DEF Outcome
    <3>3. proc.req.method = "invoke" => Takes(disk["trust"].data, proc.req)
      BY <3>1 DEF DialInv
    <3> QED BY <3>1, <3>2, <3>3 DEF DialInv, Idle
  <2>11. ASSUME Kill PROVE DialInv'
    BY <2>c, <2>q, <2>11 DEF Kill
  <2>12. ASSUME PowerLoss PROVE DialInv'
    BY <2>c, <2>q, <2>12 DEF PowerLoss
  <2>13. ASSUME NEW f \in Files, Settle(f) PROVE DialInv'
    <3>1. UNCHANGED <<disk, proc, reply>>
      BY <2>13 DEF Settle
    <3> QED BY <3>1 DEF DialInv, Documents
  <2>14. CASE UNCHANGED vars
    BY <2>14 DEF vars, DialInv, Documents
  <2> QED BY <2>1, <2>2, <2>3, <2>4, <2>5, <2>6, <2>7, <2>8, <2>9, <2>10, <2>11, <2>12, <2>13,
             <2>14 DEF Next
<1> QED BY <1>1, <1>2, StoreInvariant, CauseInvariant, PTL DEF Spec

(* The trust file changes only by an authorised dial of the running        *)
(* process, for the site of its request; the other subjects keep their     *)
(* trust, unless an entry for every identity is set aside with the dialled *)
(* one (protocol.cc: MInvoke; policy_state.cc).                            *)
THEOREM DialsTouchTheirOwn == Spec => DialsStayApart
<1> DEFINE Changed == disk'["trust"] # disk["trust"] /\ NoFault
           Apart == \A s \in Subjects :
              \/ Held(s[1], s[2])' = Held(s[1], s[2])
              \/ s[1] = proc.req.site /\ s[2] \in {Palette, Unset}
              \/ s[1] = proc.req.site /\ \E e \in ToSet(Trust) : e.domain = s[1] /\ e.identity = Unset
           Authorised ==
              /\ proc.req.method = "invoke"
              /\ proc.req.source # "page"
              /\ \E e \in ToSet(disk["registry"].data) \cup ToSet(Roster) :
                    /\ e.desc["id"] = proc.req.id
                    /\ e.desc["danger_class"] = "destructive" => proc.req.confirmed
<1>1. StoreInv /\ CauseInv /\ DialInv /\ [Next]_vars => [Changed => Authorised /\ Apart]_vars
  <2> SUFFICES ASSUME StoreInv, CauseInv, DialInv, [Next]_vars, Changed
               PROVE  Authorised /\ Apart
    OBVIOUS
  <2>0. DOMAIN disk = Files /\ Files = {"registry", "shortcuts", "trust"}
    BY DEF StoreInv, Files
  <2>a. ~Fail
    BY DEF Fail, NoFault, CauseInv
  <2>b. \A c, leaves : ~Now("registry", c, leaves)
    BY <2>0 DEF Now
  <2>1. Rename
    BY <2>a, <2>b DEF Next, Start, LoadRegistry, OpenRegistry, OpenFails, FillRegistry,
       FillFails, Handle, SaveFails, Answer, Kill, PowerLoss, Settle, vars
  <2>2. /\ proc.pc = "rename" /\ proc.file = "trust" /\ disk'["trust"].data = proc.data
    <3>1. proc.pc = "rename" /\ disk' = [disk EXCEPT ![proc.file] = Doc(proc.data)]
      BY <2>1 DEF Rename, RenameInto, Now
    <3>2. proc.file = "trust"
      BY <2>0, <3>1
    <3> QED BY <2>0, <3>1, <3>2 DEF Doc
  <2>3. proc.req.method = "invoke"
    BY <2>2 DEF StoreInv, ProcOK, Idle
  <2>4. Dialled(Documents, Trust, proc.data, proc.req)
    BY <2>2 DEF DialInv, Trust
  <2>5. Authorised
    BY <2>3, <2>4 DEF Dialled, Documents, AllowedSources
  <2>6. ASSUME NEW s \in Subjects,
               ~(s[1] = proc.req.site /\ s[2] \in {Palette, Unset}),
               ~(s[1] = proc.req.site
                 /\ \E e \in ToSet(Trust) : e.domain = s[1] /\ e.identity = Unset)
        PROVE  Held(s[1], s[2])' = Held(s[1], s[2])
    <3>1. TrustOK(Trust)
      BY DEF StoreInv, FileOK, Files, Trust
    <3>2. CurrentTrust(proc.data, s[1], s[2]) = CurrentTrust(Trust, s[1], s[2])
      <4> DEFINE site == proc.req.site
                 d == s[1]
                 i == s[2]
                 entries == Trust
                 data == proc.data
      <4>1. \/ data = WithoutTrust(entries, site, Palette)
            \/ \E tier : data = SetTrust(entries, site, Palette, tier)
        BY <2>4 DEF Dialled
      <4> HIDE DEF site, d, i, entries, data
      <4>2. TrustOK(entries) /\ ~Concerns(entries, site, d, i)
        BY <2>6, <3>1 DEF site, d, i, entries, Concerns
      <4>3. /\ CurrentTrust(WithoutTrust(entries, site, Palette), d, i)
                  = CurrentTrust(entries, d, i)
            /\ \A tier : CurrentTrust(SetTrust(entries, site, Palette, tier), d, i)
                            = CurrentTrust(entries, d, i)
        BY <4>2, OthersKeepTheirTrust
      <4>4. CurrentTrust(data, d, i) = CurrentTrust(entries, d, i)
        BY <4>1, <4>3
      <4> QED BY <4>4 DEF d, i, entries, data
    <3> QED BY <2>2, <3>2 DEF Held, Trust
  <2> QED BY <2>5, <2>6
<1> QED BY <1>1, StoreInvariant, CauseInvariant, DialInvariant, PTL DEF Spec, DialsStayApart

(* A reported dial is what the resolver resolves for its site, for every   *)
(* identity without an entry of its own there (protocol.cc, policy_state   *)
(* .cc; resolve.cc).                                                       *)
THEOREM DialsAreResolved == Spec => []DialTakesEffect
<1>1. StoreInv /\ DialInv => DialTakesEffect
  <2> SUFFICES ASSUME StoreInv, DialInv, reply.status = "done", NEW e \in ToSet(Roster),
                      reply.method = "invoke", e.desc["id"] = reply.req.id,
                      e.desc["handler"] \in DOMAIN Dials,
                      NEW i \in (Identities \cup {Palette})
                          \ ({s[2] : s \in {t \in Subjects : t[1] = reply.req.site}}
                             \ {Unset, Palette})
               PROVE  Policy!TierOf(AsAsked(reply.req.site, i))
                        = Policy!TrustTierIndex(Dials[e.desc["handler"]])
    BY DEF DialTakesEffect
  <2> DEFINE site == reply.req.site
             tier == Dials[e.desc["handler"]]
             req == AsAsked(site, i)
             at == {j \in DOMAIN req.bindings : /\ req.bindings[j].domain = req.domain
                                                /\ req.bindings[j].identity \in {0, req.identity}}
  <2>1. TrustOK(Trust) /\ Takes(Trust, reply.req)
    BY DEF StoreInv, FileOK, Files, Trust, DialInv
  <2>2. PICK n \in DOMAIN Trust : /\ Own(Trust, site, Palette) = {n}
                                  /\ Trust[n] = EntryOf(site, Palette, tier)
    BY <2>1 DEF Takes
  <2>3. /\ req.trust = "" /\ req.exceptions = <<>> /\ req.enterprise.present = FALSE
        /\ req.domain = site /\ req.identity = i
        /\ req.bindings = [j \in DOMAIN Trust |-> AsBinding(Trust[j])]
    BY DEF AsAsked
  <2> HIDE DEF site, tier, req
  <2>4. /\ DOMAIN req.bindings = DOMAIN Trust
        /\ \A j \in DOMAIN Trust : req.bindings[j] = AsBinding(Trust[j])
    BY <2>3
  <2>5. \A j \in DOMAIN Trust :
            /\ DOMAIN AsBinding(Trust[j]) = {"domain", "identity", "trust", "created_at"}
            /\ AsBinding(Trust[j]).domain = Trust[j].domain
            /\ AsBinding(Trust[j]).trust = Trust[j].trust
            /\ AsBinding(Trust[j]).created_at = Trust[j].created_at
            /\ AsBinding(Trust[j]).identity
                 = IF Trust[j].identity = Unset THEN 0 ELSE Trust[j].identity
    BY <2>1 DEF TrustOK, IsEntry, AsBinding
  <2>6. at = {n}
    <3>1. n \in at
      <4>1. Trust[n].domain = site /\ Trust[n].identity = 0
        BY <2>2 DEF EntryOf, Palette
      <4>2. req.bindings[n].domain = site /\ req.bindings[n].identity = 0
        BY <2>4, <2>5, <4>1
      <4> QED BY <2>3, <2>4, <4>2
    <3>2. ASSUME NEW j \in at PROVE j \in Own(Trust, site, Palette)
      <4>1. /\ j \in DOMAIN Trust /\ Trust[j].domain = site
            /\ (IF Trust[j].identity = Unset THEN 0 ELSE Trust[j].identity) \in {0, i}
        BY <2>3, <2>4, <2>5
      <4>2. CASE Trust[j].identity \in {Unset, Palette}
        BY <4>1, <4>2 DEF Own, IsOf
      <4>3. CASE Trust[j].identity \notin {Unset, Palette}
        <5>1. Trust[j].identity = i
          BY <4>1, <4>3 DEF Palette
        <5>2. <<site, i>> \in Subjects
          BY <2>1, <4>1, <4>3, <5>1 DEF TrustOK, IsEntry
        <5>3. i \in {s[2] : s \in {t \in Subjects : t[1] = site}}
          BY <5>2
        <5> QED BY <4>3, <5>1, <5>3 DEF site
      <4> QED BY <4>2, <4>3
    <3> QED BY <2>2, <3>1, <3>2
  <2>7. Policy!BindingOf(req) = Policy!Winner(req.bindings, at)
    BY DEF Policy!BindingOf
  <2> HIDE DEF at
  <2>8. Policy!BindingOf(req) = <<req.bindings[n]>>
    <3>1. ~Policy!Prefer(req.bindings[n], req.bindings[n])
      <4> DEFINE b == req.bindings[n]
      <4>1. b.created_at = 0 /\ b.identity = 0 /\ "id" \notin DOMAIN b
        BY <2>2, <2>4, <2>5 DEF EntryOf, Palette
      <4> HIDE DEF b
      <4>2. Policy!TieBreak(b) = 0
        BY <4>1 DEF Policy!TieBreak
      <4>3. ~Policy!Prefer(b, b)
        BY <4>1, <4>2 DEF Policy!Prefer
      <4> QED BY <4>3 DEF b
    <3>2. n \in Int /\ ~(n < n)
      <4>1. DOMAIN Trust = 1..Len(Trust) /\ Len(Trust) \in Nat
        BY <2>1, SeqShape DEF TrustOK
      <4> QED BY <4>1
    <3>3. (CHOOSE k \in {n} : \A j \in {n} :
              /\ ~Policy!Prefer(req.bindings[j], req.bindings[k])
              /\ j < k => Policy!Prefer(req.bindings[k], req.bindings[j])) = n
      BY <3>1, <3>2
    <3> QED BY <2>6, <2>7, <3>3 DEF Policy!Winner
  <2>9. Policy!ExceptionOf(req) = <<>>
    <3>1. DOMAIN req.exceptions = {}
      <4>1. \A s : s = <<>> => DOMAIN s = {}
        OBVIOUS
      <4> QED BY <2>3, <4>1
    <3> QED BY <2>3, <3>1 DEF Policy!ExceptionOf, Policy!Winner
  <2>10. /\ Policy!BindingOf(req) # <<>>
         /\ Policy!BindingOf(req)[1].trust = tier
    <3>1. req.bindings[n].trust = tier
      BY <2>2, <2>4, <2>5 DEF EntryOf
    <3> QED BY <2>8, <3>1
  <2>11. Policy!TierOf(req) = Policy!Max({Policy!TrustTierIndex(tier)})
    <3>1. (IF req.trust # "" THEN req.trust
           ELSE IF Policy!ExceptionOf(req) # <<>> THEN Policy!ExceptionOf(req)[1].trust
           ELSE IF Policy!BindingOf(req) # <<>> THEN Policy!BindingOf(req)[1].trust
           ELSE "kStandard") = tier
      BY <2>3, <2>9, <2>10
    <3>2. \A x : {x} \cup (IF req.enterprise.present
                           THEN {Policy!TrustTierIndex(req.enterprise.trust_floor)}
                           ELSE {}) = {x}
      BY <2>3
    <3> QED BY <3>1, <3>2 DEF Policy!TierOf
  <2>12. Policy!TrustTierIndex(tier) \in Int
    <3>1. CASE Policy!Contains(Policy!Tiers, tier)
      <4>1. DOMAIN Policy!Tiers = 1..3 /\ Len(Policy!Tiers) = 3
        BY DEF Policy!Tiers
      <4>2. \E k \in DOMAIN Policy!Tiers : Policy!Tiers[k] = tier
        BY <3>1, <4>1 DEF Policy!Contains
      <4>3. (CHOOSE k \in DOMAIN Policy!Tiers : Policy!Tiers[k] = tier) \in 1..3
        BY <4>1, <4>2
      <4>4. \A k \in 1..3 : k - 1 \in Int
        OBVIOUS
      <4>5. Policy!TrustTierIndex(tier)
              = (CHOOSE k \in DOMAIN Policy!Tiers : Policy!Tiers[k] = tier) - 1
        BY <3>1 DEF Policy!TrustTierIndex, Policy!IndexIn
      <4> QED BY <4>3, <4>4, <4>5
    <3>2. CASE ~Policy!Contains(Policy!Tiers, tier)
      <4>1. Policy!TrustTierIndex(tier) = -1
        BY <3>2 DEF Policy!TrustTierIndex, Policy!IndexIn
      <4> QED BY <4>1
    <3> QED BY <3>1, <3>2
  <2>13. \A m \in Int : Policy!Max({m}) = m
    BY DEF Policy!Max
  <2> QED BY <2>11, <2>12, <2>13 DEF req, site, tier
<1> QED BY <1>1, StoreInvariant, DialInvariant, PTL
=============================================================================
