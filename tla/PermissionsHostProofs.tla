----------------------- MODULE PermissionsHostProofs -----------------------
(***************************************************************************)
(* Proofs about the permission core and the permissions host.  The first   *)
(* part says what one core operation does to a store (Explained), for any  *)
(* store whose grant ids are unique and below next_seq.  The second part   *)
(* carries this through the host's steps.                                  *)
(***************************************************************************)
EXTENDS PermissionsHost, TLAPS

(* Grant ids are unique and below next_seq.                                *)
IdsFresh(s) ==
    /\ \A g \in s.grants : g.id < s.next_seq
    /\ \A g, h \in s.grants : g.id = h.id => g = h

GoodStore(s) == s \in Store /\ IdsFresh(s)

EndEvents == {"revoke", "expiry"}

(* o is a change of s its rows account for.                                *)
Explained(s, o) ==
    /\ GoodStore(o.store)
    /\ ~o.store.corrupt
    /\ o.rows \in SUBSET AuditRow
    /\ s.next_seq <= o.store.next_seq
    /\ About(o.rows, {"grant"}) \subseteq
           {id \in Nat : s.next_seq <= id /\ id < o.store.next_seq}
    /\ About(o.rows, EndEvents) \subseteq LiveIds(s)
    /\ LiveIds(o.store) = (LiveIds(s) \ About(o.rows, EndEvents))
                              \cup About(o.rows, {"grant"})
    /\ AllowedIn(o.store) = (AllowedIn(s) \ DefaultRows(o.rows, {"revoke"}))
                                \cup DefaultRows(o.rows, {"grant"})
    /\ o.store.denied = (s.denied \ DenyRows(o.rows, {"grant"}))
                            \cup DenyRows(o.rows, {"revoke"})

(* The id loop stops at once when every id in use is below next_seq.       *)
LEMMA NextFreeIdIsNextSeq ==
    ASSUME NEW s, GoodStore(s)
    PROVE  NextFreeId(s) = s.next_seq
<1> DEFINE C == {s.next_seq} \cup {g.id + 1 : g \in s.grants}
<1>1. s.next_seq \in Nat /\ \A g \in s.grants : g.id \in Nat
  BY DEF GoodStore, Store, StoredGrant
<1>2. IsNextFreeId(s, s.next_seq)
  BY <1>1 DEF IsNextFreeId, IdTaken, GoodStore, IdsFresh
<1>3. \A id \in C : IsNextFreeId(s, id) => id = s.next_seq
  <2> SUFFICES ASSUME NEW id \in C, IsNextFreeId(s, id), id # s.next_seq
               PROVE  FALSE
    OBVIOUS
  <2>1. id \in Nat /\ id > s.next_seq
    BY <1>1 DEF IsNextFreeId
  <2>2. s.next_seq \in s.next_seq .. (id - 1)
    BY <1>1, <2>1
  <2>3. IdTaken(s, s.next_seq)
    BY <2>2 DEF IsNextFreeId
  <2> QED BY <1>1, <2>3 DEF IdTaken, GoodStore, IdsFresh
<1> QED BY <1>2, <1>3 DEF NextFreeId

(* The store of a first run has unique, fresh ids.                         *)
LEMMA EmptyStoreGood == GoodStore(EmptyStore) /\ EmptyStore \in Store
BY DEF GoodStore, EmptyStore, Store, IdsFresh, NoDefault

(* So has the deny-everything store a corrupt file reads as.               *)
LEMMA CorruptStoreGood == GoodStore(CorruptStore)
BY EmptyStoreGood DEF GoodStore, CorruptStore, EmptyStore, Store, IdsFresh

(* SetDefault: at most one default row, for the entry that changed.        *)
LEMMA SetDefaultExplained ==
    ASSUME NEW s, GoodStore(s), NEW i \in Identities, NEW c \in Capabilities,
           NEW st \in CapStates, SetDefault(s, i, c, st).ok
    PROVE  Explained(s, SetDefault(s, i, c, st))
<1> DEFINE o == SetDefault(s, i, c, st)
<1> SUFFICES Explained(s, o) OBVIOUS
<1>1. ~s.corrupt
  BY DEF SetDefault, Refuse
<1>2. CASE s.defaults[i][c] = st
  <2>1. o.store = s /\ o.rows = {}
    BY <1>1, <1>2 DEF SetDefault, Accept
  <2> QED BY <1>1, <2>1 DEF Explained, About, RowsOf, DefaultRows, DenyRows, GoodStore, Store
<1>3. CASE s.defaults[i][c] # st
  <2> DEFINE r == IdentityRow(IF st = "kAllow" THEN "grant" ELSE "revoke", i, c, "identity_default")
             t == [s EXCEPT !.defaults[i][c] = st]
  <2>1. o.store = t /\ o.rows = {r}
    BY <1>1, <1>3 DEF SetDefault, Accept
  <2>2. t \in Store /\ t.grants = s.grants /\ t.next_seq = s.next_seq /\ t.denied = s.denied /\ ~t.corrupt
        /\ t.defaults = [s.defaults EXCEPT ![i][c] = st]
    BY <1>1 DEF GoodStore, Store, CapStates
  <2>3. r \in AuditRow /\ r.scope = "identity_default" /\ r.identity = i /\ r.capability = c
        /\ r.event = (IF st = "kAllow" THEN "grant" ELSE "revoke")
    BY DEF AuditRow, IdentityRow, Events
  <2>4. About(o.rows, {"grant"}) = {} /\ About(o.rows, EndEvents) = {}
        /\ DenyRows(o.rows, {"grant"}) = {} /\ DenyRows(o.rows, {"revoke"}) = {}
    BY <2>1, <2>3 DEF About, RowsOf, DenyRows, Scopes
  <2>5. DefaultRows(o.rows, {"grant"}) = (IF st = "kAllow" THEN {<<i, c>>} ELSE {})
        /\ DefaultRows(o.rows, {"revoke"}) = (IF st = "kAllow" THEN {} ELSE {<<i, c>>})
    BY <2>1, <2>3 DEF DefaultRows, RowsOf
  <2>6. AllowedIn(t) = (AllowedIn(s) \ DefaultRows(o.rows, {"revoke"})) \cup DefaultRows(o.rows, {"grant"})
    <3>1. \A a \in Identities \X Capabilities :
            t.defaults[a[1]][a[2]] = IF a = <<i, c>> THEN st ELSE s.defaults[a[1]][a[2]]
      BY <2>2 DEF GoodStore, Store
    <3> QED BY <2>5, <3>1 DEF AllowedIn
  <2>7. GoodStore(t) /\ LiveIds(t) = LiveIds(s)
    BY <2>2 DEF GoodStore, IdsFresh, LiveIds, Live
  <2>8. s.next_seq <= t.next_seq
    BY <2>2 DEF GoodStore, Store
  <2>9. o.rows \in SUBSET AuditRow
    BY <2>1, <2>3
  <2> HIDE DEF o, t, r
  <2> QED BY <2>1, <2>2, <2>4, <2>6, <2>7, <2>8, <2>9 DEF Explained
<1> QED BY <1>2, <1>3

(* Rows about grants say nothing of defaults or of the deny-list.          *)
LEMMA GrantRowsAbout ==
    ASSUME NEW hit \in SUBSET StoredGrant, NEW e \in Events
    PROVE  LET rows == {GrantRow(e, g) : g \in hit}
           IN  /\ rows \in SUBSET AuditRow
               /\ \A ev : About(rows, ev) = IF e \in ev THEN {g.id : g \in hit} ELSE {}
               /\ \A ev : DefaultRows(rows, ev) = {} /\ DenyRows(rows, ev) = {}
<1> DEFINE rows == {GrantRow(e, g) : g \in hit}
<1>1. \A g \in hit : /\ GrantRow(e, g) \in AuditRow
                     /\ GrantRow(e, g).event = e
                     /\ GrantRow(e, g).about = g.id
                     /\ GrantRow(e, g).scope \in Scopes
                     /\ GrantRow(e, g).scope # "identity_default"
                     /\ GrantRow(e, g).scope # "identity_deny_list"
  BY DEF GrantRow, AuditRow, StoredGrant, Scopes
<1> HIDE DEF rows
<1>2. rows \in SUBSET AuditRow
  BY <1>1 DEF rows
<1>3. ASSUME NEW ev
      PROVE  /\ About(rows, ev) = IF e \in ev THEN {g.id : g \in hit} ELSE {}
             /\ DefaultRows(rows, ev) = {}
             /\ DenyRows(rows, ev) = {}
  BY <1>1 DEF rows, About, RowsOf, DefaultRows, DenyRows
<1> QED BY <1>2, <1>3 DEF rows

(* Live grants that leave the store.                                       *)
LEMMA RemovalExplained ==
    ASSUME NEW s, GoodStore(s), ~s.corrupt, NEW hit \in SUBSET Live(s)
    PROVE  Explained(s, Accept([s EXCEPT !.grants = @ \ hit],
                               {GrantRow("expiry", g) : g \in hit}))
<1> DEFINE t == [s EXCEPT !.grants = @ \ hit]
           rows == {GrantRow("expiry", g) : g \in hit}
           o == Accept(t, rows)
<1>1. hit \in SUBSET StoredGrant /\ hit \in SUBSET s.grants
  BY DEF GoodStore, Store, Live
<1>2. /\ rows \in SUBSET AuditRow
      /\ About(rows, {"grant"}) = {}
      /\ About(rows, EndEvents) = {g.id : g \in hit}
      /\ \A ev : DefaultRows(rows, ev) = {} /\ DenyRows(rows, ev) = {}
  BY <1>1, GrantRowsAbout DEF Events, EndEvents
<1>3. t \in Store /\ t.grants = s.grants \ hit /\ t.next_seq = s.next_seq /\ t.denied = s.denied
      /\ t.defaults = s.defaults /\ ~t.corrupt /\ s.next_seq \in Nat
  BY DEF GoodStore, Store
<1>4. GoodStore(t)
  BY <1>3 DEF GoodStore, IdsFresh
<1>5. LiveIds(t) = LiveIds(s) \ {g.id : g \in hit} /\ {g.id : g \in hit} \subseteq LiveIds(s)
  BY <1>1, <1>3 DEF LiveIds, Live, GoodStore, IdsFresh
<1>6. AllowedIn(t) = AllowedIn(s)
  BY <1>3 DEF AllowedIn
<1>7. o.store = t /\ o.rows = rows
  BY DEF Accept
<1> HIDE DEF t, rows, o
<1>8. Explained(s, o)
  BY <1>2, <1>3, <1>4, <1>5, <1>6, <1>7 DEF Explained
<1> QED BY <1>8 DEF o, t, rows

(* Live grants that are tombstoned, with or without defaults being cleared. *)
LEMMA RevokeGrantsKeeps ==
    ASSUME NEW s, GoodStore(s), NEW hit \in SUBSET Live(s), NEW t, t \in Store,
           t.grants = RevokeGrants(s.grants, hit), t.next_seq = s.next_seq
    PROVE  /\ GoodStore(t)
           /\ LiveIds(t) = LiveIds(s) \ {g.id : g \in hit}
           /\ {g.id : g \in hit} \subseteq LiveIds(s)
<1>1. hit \in SUBSET StoredGrant /\ hit \in SUBSET s.grants /\ s.grants \in SUBSET StoredGrant
  BY DEF GoodStore, Store, Live
<1>2. \A g \in hit : Tombstone(g) \in StoredGrant /\ Tombstone(g).id = g.id /\ Tombstone(g).revoked
  BY <1>1 DEF Tombstone, StoredGrant
<1>3. \A g \in t.grants : g \in s.grants \ hit \/ \E h \in hit : g = Tombstone(h)
  BY DEF RevokeGrants
<1>4. GoodStore(t)
  BY <1>1, <1>2, <1>3 DEF GoodStore, IdsFresh
<1>5. {g.id : g \in hit} \subseteq LiveIds(s)
  BY DEF LiveIds
<1>6. \A h \in Live(t) : h \in Live(s) \ hit
  BY <1>2, <1>3 DEF Live
<1>7. \A h \in Live(s) \ hit : h \in Live(t)
  BY DEF Live, RevokeGrants
<1>8. \A g \in hit, h \in Live(s) \ hit : g.id # h.id
  BY <1>1 DEF GoodStore, IdsFresh, Live
<1> QED BY <1>4, <1>5, <1>6, <1>7, <1>8 DEF LiveIds

(* Tombstoning keeps a set of grants a set of grants.                      *)
LEMMA RevokeGrantsType ==
    ASSUME NEW grants \in SUBSET StoredGrant, NEW hit \in SUBSET StoredGrant
    PROVE  RevokeGrants(grants, hit) \in SUBSET StoredGrant
<1>1. \A g \in hit : Tombstone(g) \in StoredGrant
  BY DEF Tombstone, StoredGrant
<1> QED BY <1>1 DEF RevokeGrants

(* Revoking live grants takes exactly them out of the live ones.           *)
LEMMA RevokedAreNotLive ==
    ASSUME NEW s, GoodStore(s), NEW hit \in SUBSET Live(s), NEW t,
           t.grants = RevokeGrants(s.grants, hit)
    PROVE  Live(t) \subseteq Live(s)
<1>1. hit \in SUBSET StoredGrant
  BY DEF GoodStore, Store, Live
<1>2. \A g \in hit : Tombstone(g).revoked
  BY <1>1 DEF Tombstone, StoredGrant
<1> QED BY <1>2 DEF Live, RevokeGrants

(* What RevokeSite does is what its rows say.                              *)
LEMMA RevokeSiteExplained ==
    ASSUME NEW s, GoodStore(s), NEW i \in Identities, NEW d \in Domains,
           RevokeSite(s, i, d).ok
    PROVE  Explained(s, RevokeSite(s, i, d))
<1> DEFINE o == RevokeSite(s, i, d)
           hit == {g \in Live(s) : g.identity = i /\ g.domain = d}
           t == [s EXCEPT !.grants = RevokeGrants(@, hit)]
           rows == {GrantRow("revoke", g) : g \in hit}
<1> SUFFICES Explained(s, o) OBVIOUS
<1>1. ~s.corrupt
  BY DEF RevokeSite, Refuse
<1>2. o.store = t /\ o.rows = rows
  BY <1>1 DEF RevokeSite, Accept
<1>3. hit \in SUBSET Live(s) /\ hit \in SUBSET StoredGrant
  BY DEF GoodStore, Store, Live
<1>4. /\ rows \in SUBSET AuditRow
      /\ About(rows, {"grant"}) = {}
      /\ About(rows, EndEvents) = {g.id : g \in hit}
      /\ \A ev : DefaultRows(rows, ev) = {} /\ DenyRows(rows, ev) = {}
  BY <1>3, GrantRowsAbout DEF Events, EndEvents
<1>5. t.grants = RevokeGrants(s.grants, hit) /\ t.next_seq = s.next_seq /\ t.denied = s.denied
      /\ t.defaults = s.defaults /\ ~t.corrupt /\ s.next_seq \in Nat
  BY <1>1 DEF GoodStore, Store
<1>6. t \in Store
  <2>1. RevokeGrants(s.grants, hit) \in SUBSET StoredGrant
    BY <1>3, RevokeGrantsType DEF GoodStore, Store
  <2> QED BY <2>1 DEF GoodStore, Store
<1>7. AllowedIn(t) = AllowedIn(s)
  BY <1>5 DEF AllowedIn
<1> HIDE DEF o, t, rows, hit
<1>8. GoodStore(t) /\ LiveIds(t) = LiveIds(s) \ {g.id : g \in hit} /\ {g.id : g \in hit} \subseteq LiveIds(s)
  BY <1>3, <1>5, <1>6, RevokeGrantsKeeps
<1> QED BY <1>2, <1>4, <1>5, <1>7, <1>8 DEF Explained

(* What RevokeAll does to grants and defaults is what its rows say.        *)
LEMMA RevokeAllExplained ==
    ASSUME NEW s, GoodStore(s), NEW i \in Identities, RevokeAll(s, i).ok
    PROVE  Explained(s, RevokeAll(s, i))
<1> DEFINE o == RevokeAll(s, i)
           hit == {g \in Live(s) : g.identity = i}
           set == {c \in Capabilities : s.defaults[i][c] # NoDefault}
           none == [c \in Capabilities |-> NoDefault]
           t == [s EXCEPT !.grants = RevokeGrants(@, hit), !.defaults[i] = none]
           grows == {GrantRow("revoke", g) : g \in hit}
           drows == {IdentityRow("revoke", i, c, "identity_default") : c \in set}
<1> SUFFICES Explained(s, o) OBVIOUS
<1>1. ~s.corrupt
  BY DEF RevokeAll, Refuse
<1>2. o.store = t /\ o.rows = drows \cup grows
  BY <1>1 DEF RevokeAll, Accept
<1>3. hit \in SUBSET Live(s) /\ hit \in SUBSET StoredGrant
  BY DEF GoodStore, Store, Live
<1>4. /\ grows \in SUBSET AuditRow
      /\ About(grows, {"grant"}) = {}
      /\ About(grows, EndEvents) = {g.id : g \in hit}
      /\ \A ev : DefaultRows(grows, ev) = {} /\ DenyRows(grows, ev) = {}
  BY <1>3, GrantRowsAbout DEF Events, EndEvents
<1>5. /\ drows \in SUBSET AuditRow
      /\ \A r \in drows : r.scope = "identity_default" /\ r.event = "revoke"
      /\ DefaultRows(drows, {"revoke"}) = {<<i, c>> : c \in set}
      /\ DefaultRows(drows, {"grant"}) = {}
  <2>1. \A c \in set : LET r == IdentityRow("revoke", i, c, "identity_default")
                       IN  r \in AuditRow /\ r.scope = "identity_default" /\ r.event = "revoke"
                           /\ r.identity = i /\ r.capability = c
    BY DEF IdentityRow, AuditRow, Events
  <2>2. \A r \in drows : r.scope = "identity_default" /\ r.event = "revoke"
    BY <2>1
  <2> QED BY <2>1, <2>2 DEF DefaultRows, RowsOf
<1>6. /\ \A ev : About(drows, ev) = {} /\ DenyRows(drows, ev) = {}
  BY <1>5 DEF About, RowsOf, DenyRows, Scopes
<1>7. /\ About(o.rows, {"grant"}) = {}
      /\ About(o.rows, EndEvents) = {g.id : g \in hit}
      /\ \A ev : DenyRows(o.rows, ev) = {}
      /\ DefaultRows(o.rows, {"revoke"}) = {<<i, c>> : c \in set}
      /\ DefaultRows(o.rows, {"grant"}) = {}
      /\ o.rows \in SUBSET AuditRow
  <2>1. \A ev : /\ About(o.rows, ev) = About(drows, ev) \cup About(grows, ev)
               /\ DenyRows(o.rows, ev) = DenyRows(drows, ev) \cup DenyRows(grows, ev)
               /\ DefaultRows(o.rows, ev) = DefaultRows(drows, ev) \cup DefaultRows(grows, ev)
    <3> HIDE DEF drows, grows, o
    <3> QED BY <1>2 DEF About, DenyRows, DefaultRows, RowsOf
  <2> HIDE DEF drows, grows, o, hit, set
  <2> QED BY <1>2, <1>4, <1>5, <1>6, <2>1
<1>8. t.grants = RevokeGrants(s.grants, hit) /\ t.next_seq = s.next_seq /\ t.denied = s.denied
      /\ t.defaults = [s.defaults EXCEPT ![i] = none] /\ ~t.corrupt /\ s.next_seq \in Nat
  BY <1>1 DEF GoodStore, Store
<1>9. t \in Store
  <2>1. RevokeGrants(s.grants, hit) \in SUBSET StoredGrant
    BY <1>3, RevokeGrantsType DEF GoodStore, Store
  <2> QED BY <2>1 DEF GoodStore, Store
<1>10. AllowedIn(t) = AllowedIn(s) \ {<<i, c>> : c \in set}
  <2>1. \A a \in Identities \X Capabilities :
          t.defaults[a[1]][a[2]] = IF a[1] = i THEN NoDefault ELSE s.defaults[a[1]][a[2]]
    BY <1>8 DEF GoodStore, Store
  <2>2. \A a \in Identities \X Capabilities :
          a \in {<<i, c>> : c \in set} <=> a[1] = i /\ s.defaults[a[1]][a[2]] # NoDefault
    OBVIOUS
  <2> HIDE DEF t, set
  <2>3. \A a \in AllowedIn(t) : a \in AllowedIn(s) /\ a \notin {<<i, c>> : c \in set}
    BY <2>1, <2>2 DEF AllowedIn, NoDefault
  <2>4. \A a \in AllowedIn(s) : a \in {<<i, c>> : c \in set} \/ a \in AllowedIn(t)
    BY <2>1, <2>2 DEF AllowedIn, NoDefault
  <2>5. AllowedIn(t) \subseteq AllowedIn(s)
    BY <2>3
  <2> QED BY <2>3, <2>4, <2>5
<1> HIDE DEF o, t, grows, drows, hit, set
<1>11. GoodStore(t) /\ LiveIds(t) = LiveIds(s) \ {g.id : g \in hit} /\ {g.id : g \in hit} \subseteq LiveIds(s)
  BY <1>3, <1>8, <1>9, RevokeGrantsKeeps
<1>12. AllowedIn(t) = (AllowedIn(s) \ DefaultRows(o.rows, {"revoke"})) \cup DefaultRows(o.rows, {"grant"})
  <2> DEFINE P == {<<i, c>> : c \in set}
  <2> HIDE DEF P
  <2>1. AllowedIn(t) = AllowedIn(s) \ P /\ DefaultRows(o.rows, {"revoke"}) = P
    BY <1>7, <1>10 DEF P
  <2> QED BY <1>7, <2>1
<1>13. /\ About(o.rows, {"grant"}) = {}
       /\ About(o.rows, EndEvents) = {g.id : g \in hit}
       /\ \A ev : DenyRows(o.rows, ev) = {}
       /\ o.rows \in SUBSET AuditRow
  BY <1>7
<1>14. s.next_seq <= t.next_seq /\ ~t.corrupt /\ t.denied = s.denied
  BY <1>8
<1> HIDE DEF none
<1> QED BY <1>2, <1>11, <1>12, <1>13, <1>14 DEF Explained

(* Spending a once grant is explained by its one expiry row.               *)
LEMMA ConsumeOnceExplained ==
    ASSUME NEW s, GoodStore(s), NEW id, ConsumeOnce(s, id).ok
    PROVE  Explained(s, ConsumeOnce(s, id))
<1> DEFINE hit == {g \in Live(s) : g.id = id /\ g.scope = "once" /\ g.remaining_uses > 0}
<1>1. ~s.corrupt /\ ConsumeOnce(s, id) = Accept([s EXCEPT !.grants = @ \ hit],
                                                {GrantRow("expiry", g) : g \in hit})
  BY DEF ConsumeOnce, Refuse
<1>2. hit \in SUBSET Live(s)
  OBVIOUS
<1> QED BY <1>1, <1>2, RemovalExplained

(* A sweep is explained by one expiry row for each grant it ends.          *)
LEMMA SweepExplained ==
    ASSUME NEW s, GoodStore(s), NEW now, NEW ses, SweepExpired(s, now, ses).ok
    PROVE  Explained(s, SweepExpired(s, now, ses))
<1> DEFINE hit == {g \in s.grants : Ended(g, now, ses)}
<1>1. ~s.corrupt /\ SweepExpired(s, now, ses) = Accept([s EXCEPT !.grants = @ \ hit],
                                                {GrantRow("expiry", g) : g \in hit})
  BY DEF SweepExpired, Refuse
<1>2. hit \in SUBSET Live(s)
  BY DEF Ended, Live
<1> QED BY <1>1, <1>2, RemovalExplained

(* A deny-list change is explained by its rows.                            *)
LEMMA SetDeniedExplained ==
    ASSUME NEW s, GoodStore(s), NEW i \in Identities, NEW b \in BOOLEAN,
           SetDenied(s, i, b).ok
    PROVE  Explained(s, SetDenied(s, i, b))
<1> DEFINE o == SetDenied(s, i, b)
           e == IF b THEN "revoke" ELSE "grant"
           t == [s EXCEPT !.denied = IF b THEN @ \cup {i} ELSE @ \ {i}]
           rows == {IdentityRow(e, i, c, "identity_deny_list") : c \in Capabilities}
<1> SUFFICES Explained(s, o) OBVIOUS
<1>1. ~s.corrupt
  BY DEF SetDenied, Refuse
<1>2. CASE (i \in s.denied) = b
  <2>1. o.store = s /\ o.rows = {}
    BY <1>1, <1>2 DEF SetDenied, Accept
  <2> QED BY <1>1, <2>1 DEF Explained, About, RowsOf, DefaultRows, DenyRows, GoodStore, Store
<1>3. CASE (i \in s.denied) # b
  <2>1. o.store = t /\ o.rows = rows
    BY <1>1, <1>3 DEF SetDenied, Accept
  <2>2. t \in Store /\ t.grants = s.grants /\ t.next_seq = s.next_seq /\ ~t.corrupt
        /\ t.defaults = s.defaults /\ s.next_seq <= t.next_seq
        /\ t.denied = (IF b THEN s.denied \cup {i} ELSE s.denied \ {i})
    BY <1>1 DEF GoodStore, Store
  <2>3. \A c \in Capabilities :
          LET r == IdentityRow(e, i, c, "identity_deny_list")
          IN  r \in AuditRow /\ r.scope = "identity_deny_list" /\ r.event = e /\ r.identity = i
    BY DEF IdentityRow, AuditRow, Events
  <2>4. /\ rows \in SUBSET AuditRow
        /\ \A r \in rows : r.scope = "identity_deny_list" /\ r.event = e /\ r.identity = i
        /\ rows # {}
    BY <2>3, OpsAssumption
  <2> HIDE DEF rows
  <2>5. \A ev : About(rows, ev) = {} /\ DefaultRows(rows, ev) = {}
    BY <2>4 DEF About, RowsOf, DefaultRows, Scopes
  <2>6. \A ev : DenyRows(rows, ev) = IF e \in ev THEN {i} ELSE {}
    BY <2>4 DEF DenyRows, RowsOf
  <2>7. GoodStore(t) /\ LiveIds(t) = LiveIds(s) /\ AllowedIn(t) = AllowedIn(s)
    BY <2>2 DEF GoodStore, IdsFresh, LiveIds, Live, AllowedIn
  <2>8. t.denied = (s.denied \ DenyRows(rows, {"grant"})) \cup DenyRows(rows, {"revoke"})
    BY <2>2, <2>6
  <2> HIDE DEF o, t, e
  <2> QED BY <2>1, <2>2, <2>4, <2>5, <2>7, <2>8 DEF Explained
<1> QED BY <1>2, <1>3

(* The grant's id is next_seq itself, so it is new.                        *)
LEMMA GrantTempExplained ==
    ASSUME NEW s, GoodStore(s), NEW i \in Identities, NEW d \in Domains,
           NEW c \in Capabilities, NEW sc \in Scopes, NEW ses \in Sessions \cup {NoSession},
           NEW now \in Times, GrantTemp(s, i, d, c, sc, ses, now).ok
    PROVE  /\ Explained(s, GrantTemp(s, i, d, c, sc, ses, now))
           /\ ~s.corrupt
           /\ \A g \in GrantTemp(s, i, d, c, sc, ses, now).store.grants :
                 g \in s.grants \/ (g.scope = "7d" => g.expires_at > now)
<1> DEFINE o == GrantTemp(s, i, d, c, sc, ses, now)
           g == NewGrant(s, i, d, c, sc, ses, now)
           t == [s EXCEPT !.next_seq = g.id + 1, !.grants = @ \cup {g}]
<1> SUFFICES /\ Explained(s, o)
             /\ ~s.corrupt
             /\ \A h \in o.store.grants : h \in s.grants \/ (h.scope = "7d" => h.expires_at > now)
  OBVIOUS
<1>1. ~s.corrupt
  BY DEF GrantTemp, Refuse
<1>2. o.store = t /\ o.rows = {GrantRow("grant", g)}
  BY DEF GrantTemp, Refuse, Accept
<1>3. now \in Nat /\ Week \in Nat /\ Week > 0
  BY OpsAssumption
<1>4. s.next_seq \in Nat /\ s \in Store
  BY DEF GoodStore, Store
<1>5. g.id = s.next_seq /\ ~g.revoked /\ g.scope = sc /\ g.expires_at = (IF sc = "7d" THEN now + Week ELSE 0)
  BY NextFreeIdIsNextSeq DEF NewGrant
<1>6. g \in StoredGrant
  <2>1. NextFreeId(s) \in Nat
    BY <1>4, NextFreeIdIsNextSeq
  <2>2. (IF sc = "7d" THEN now + Week ELSE 0) \in Nat
    BY <1>3
  <2> QED BY <2>1, <2>2 DEF NewGrant, StoredGrant
<1> HIDE DEF g
<1>7. t \in Store /\ t.grants = s.grants \cup {g} /\ t.next_seq = s.next_seq + 1 /\ ~t.corrupt
      /\ t.denied = s.denied /\ t.defaults = s.defaults
  <2> DEFINE seq == g.id + 1
             grants == s.grants \cup {g}
  <2>1. seq \in Nat /\ seq = s.next_seq + 1 /\ grants \in SUBSET StoredGrant
    BY <1>4, <1>5, <1>6 DEF Store
  <2>2. t = [s EXCEPT !.next_seq = seq, !.grants = grants]
    OBVIOUS
  <2> HIDE DEF t, seq, grants
  <2>3. t \in Store /\ t.grants = grants /\ t.next_seq = seq /\ ~t.corrupt
        /\ t.denied = s.denied /\ t.defaults = s.defaults
    BY <1>1, <1>4, <2>1, <2>2 DEF Store
  <2> QED BY <2>1, <2>3 DEF grants
<1>8. /\ o.rows \in SUBSET AuditRow
      /\ About(o.rows, {"grant"}) = {s.next_seq}
      /\ About(o.rows, EndEvents) = {}
      /\ \A ev : DefaultRows(o.rows, ev) = {} /\ DenyRows(o.rows, ev) = {}
  <2>1. {GrantRow("grant", h) : h \in {g}} = {GrantRow("grant", g)} /\ {h.id : h \in {g}} = {s.next_seq}
    BY <1>5
  <2>2. {g} \in SUBSET StoredGrant /\ "grant" \in Events /\ "grant" \notin EndEvents
    BY <1>6 DEF Events, EndEvents
  <2> DEFINE hit == {g}
             rows == {GrantRow("grant", h) : h \in hit}
  <2>3. hit \in SUBSET StoredGrant
    BY <2>2
  <2>4. o.rows = rows /\ {h.id : h \in hit} = {s.next_seq}
    BY <1>2, <2>1
  <2> HIDE DEF hit, o
  <2>5. /\ rows \in SUBSET AuditRow
        /\ About(rows, {"grant"}) = {h.id : h \in hit}
        /\ About(rows, EndEvents) = {}
        /\ \A ev : DefaultRows(rows, ev) = {} /\ DenyRows(rows, ev) = {}
    BY <2>3, GrantRowsAbout DEF Events, EndEvents
  <2> HIDE DEF rows
  <2> QED BY <2>4, <2>5
<1>9. GoodStore(t)
  BY <1>4, <1>5, <1>6, <1>7 DEF GoodStore, IdsFresh, Store, StoredGrant
<1>10. LiveIds(t) = LiveIds(s) \cup {s.next_seq} /\ AllowedIn(t) = AllowedIn(s)
  BY <1>5, <1>7 DEF LiveIds, Live, AllowedIn
<1>11. {s.next_seq} \subseteq {id \in Nat : s.next_seq <= id /\ id < t.next_seq} /\ s.next_seq <= t.next_seq
  BY <1>4, <1>7
<1>12. \A h \in t.grants : h \in s.grants \/ (h.scope = "7d" => h.expires_at > now)
  BY <1>3, <1>5, <1>7
<1>13. o.store = t
  BY <1>2
<1> HIDE DEF o, t
<1>14. Explained(s, o)
  BY <1>7, <1>8, <1>9, <1>10, <1>11, <1>13 DEF Explained
<1> QED BY <1>1, <1>12, <1>13, <1>14

----------------------------------------------------------------------------
(* The host.                                                               *)

(* o is what some core operation makes of store s at time now; swept says  *)
(* whether that operation is the sweep.                                    *)
Requested(s, now, swept, o) ==
    \/ /\ ~swept
       /\ \/ \E i \in Identities, c \in Capabilities, st \in CapStates :
                o = SetDefault(s, i, c, st)
          \/ \E i \in Identities, d \in Domains, c \in Capabilities, sc \in Scopes,
                ses \in Sessions \cup {NoSession} :
                o = GrantTemp(s, i, d, c, sc, ses, now)
          \/ \E i \in Identities, b \in BOOLEAN : o = SetDenied(s, i, b)
          \/ \E id \in GrantIds : o = ConsumeOnce(s, id)
          \/ \E i \in Identities, d \in Domains : o = RevokeSite(s, i, d)
          \/ \E i \in Identities : o = RevokeAll(s, i)
    \/ /\ swept
       /\ \E ses \in Sessions \cup {NoSession} : o = SweepExpired(s, now, ses)

(* No 7d grant of s that could still allow ends at or before t.            *)
NoneEndsBy(s, t) == \A g \in Live(s) : g.scope = "7d" => g.expires_at > t

(* Whatever a request asks, an accepted outcome is explained.              *)
LEMMA RequestExplained ==
    ASSUME NEW s, GoodStore(s), NEW now \in Times, NEW swept \in BOOLEAN, NEW o,
           Requested(s, now, swept, o), o.ok
    PROVE  /\ Explained(s, o)
           /\ ~s.corrupt
           /\ \A g \in Live(o.store) : \/ g \in Live(s)
                                       \/ g.scope = "7d" => g.expires_at > now
           /\ swept => NoneEndsBy(o.store, now)
<1>1. CASE \E i \in Identities, c \in Capabilities, st \in CapStates :
             ~swept /\ o = SetDefault(s, i, c, st)
  <2>1. PICK i \in Identities, c \in Capabilities, st \in CapStates :
          ~swept /\ o = SetDefault(s, i, c, st)
    BY <1>1
  <2>2. o.store.grants = s.grants /\ ~s.corrupt
    BY <2>1 DEF SetDefault, Accept, Refuse, GoodStore, Store
  <2> QED BY <2>1, <2>2, SetDefaultExplained DEF Live
<1>2. CASE \E i \in Identities, d \in Domains, c \in Capabilities, sc \in Scopes,
             ses \in Sessions \cup {NoSession} :
             ~swept /\ o = GrantTemp(s, i, d, c, sc, ses, now)
  BY <1>2, GrantTempExplained DEF Live
<1>3. CASE \E i \in Identities, b \in BOOLEAN : ~swept /\ o = SetDenied(s, i, b)
  <2>1. PICK i \in Identities, b \in BOOLEAN : ~swept /\ o = SetDenied(s, i, b)
    BY <1>3
  <2>2. o.store.grants = s.grants /\ ~s.corrupt
    BY <2>1 DEF SetDenied, Accept, Refuse, GoodStore, Store
  <2> QED BY <2>1, <2>2, SetDeniedExplained DEF Live
<1>4. CASE \E id \in GrantIds : ~swept /\ o = ConsumeOnce(s, id)
  <2>1. PICK id \in GrantIds : ~swept /\ o = ConsumeOnce(s, id)
    BY <1>4
  <2>2. o.store.grants \subseteq s.grants /\ ~s.corrupt
    BY <2>1 DEF ConsumeOnce, Accept, Refuse, GoodStore, Store
  <2> QED BY <2>1, <2>2, ConsumeOnceExplained DEF Live
<1>5. CASE \E i \in Identities, d \in Domains : ~swept /\ o = RevokeSite(s, i, d)
  <2>1. PICK i \in Identities, d \in Domains : ~swept /\ o = RevokeSite(s, i, d)
    BY <1>5
  <2> DEFINE hit == {g \in Live(s) : g.identity = i /\ g.domain = d}
  <2>2. ~s.corrupt /\ o.store.grants = RevokeGrants(s.grants, hit) /\ hit \in SUBSET Live(s)
    BY <2>1 DEF RevokeSite, Accept, Refuse, GoodStore, Store
  <2> QED BY <2>1, <2>2, RevokeSiteExplained, RevokedAreNotLive
<1>6. CASE \E i \in Identities : ~swept /\ o = RevokeAll(s, i)
  <2>1. PICK i \in Identities : ~swept /\ o = RevokeAll(s, i)
    BY <1>6
  <2> DEFINE hit == {g \in Live(s) : g.identity = i}
  <2>2. ~s.corrupt /\ o.store.grants = RevokeGrants(s.grants, hit) /\ hit \in SUBSET Live(s)
    BY <2>1 DEF RevokeAll, Accept, Refuse, GoodStore, Store
  <2> QED BY <2>1, <2>2, RevokeAllExplained, RevokedAreNotLive
<1>7. CASE \E ses \in Sessions \cup {NoSession} : swept /\ o = SweepExpired(s, now, ses)
  <2>1. PICK ses \in Sessions \cup {NoSession} : swept /\ o = SweepExpired(s, now, ses)
    BY <1>7
  <2>2. ~s.corrupt /\ o.store.grants = s.grants \ {g \in s.grants : Ended(g, now, ses)}
    BY <2>1 DEF SweepExpired, Accept, Refuse, GoodStore, Store
  <2>3. \A g \in Live(s) : g.expires_at \in Nat /\ now \in Nat
    BY OpsAssumption DEF Live, GoodStore, Store, StoredGrant
  <2>4. \A g \in Live(o.store) : g \in Live(s) /\ (g.scope = "7d" => g.expires_at > now)
    BY <2>2, <2>3 DEF Live, Ended
  <2> QED BY <2>1, <2>2, <2>4, SweepExplained DEF NoneEndsBy
<1> QED BY <1>1, <1>2, <1>3, <1>4, <1>5, <1>6, <1>7 DEF Requested

(* The times a request can run at are readings no earlier than the mark.   *)
LEMMA EffectiveNowFolds ==
    ASSUME NEW seen \in Times, NEW t \in Times
    PROVE  EffectiveNow(seen, t) \in Times /\ EffectiveNow(seen, t) >= seen
BY OpsAssumption DEF EffectiveNow

(* Every request is an Apply of one of the seven operations.               *)
LEMMA RequestApplies ==
    ASSUME NEW p \in Procs, Request(p), last_seen \in Times
    PROVE  \E now, swept, o :
               /\ now \in Times /\ swept \in BOOLEAN
               /\ now >= last_seen
               /\ Requested(store, now, swept, o)
               /\ Begin(p)
               /\ Apply(p, o, now, swept)
<1>1. CASE ReqSetDefault(p)
  <2>1. PICK i \in Identities, c \in Capabilities, st \in SettableStates, t \in Times :
          Apply(p, SetDefault(store, i, c, st), EffectiveNow(last_seen, t), FALSE)
    BY <1>1 DEF ReqSetDefault
  <2>2. Requested(store, EffectiveNow(last_seen, t), FALSE, SetDefault(store, i, c, st))
    BY HostAssumption DEF Requested
  <2> QED BY <1>1, <2>1, <2>2, EffectiveNowFolds DEF ReqSetDefault
<1>2. CASE ReqGrant(p)
  <2>1. PICK i \in Identities, d \in Domains, c \in Capabilities, sc \in Scopes,
             ses \in Sessions \cup {NoSession}, t \in Times :
          LET now == EffectiveNow(last_seen, t)
          IN  Apply(p, GrantTemp(store, i, d, c, sc, ses, now), now, FALSE)
    BY <1>2 DEF ReqGrant
  <2> DEFINE now == EffectiveNow(last_seen, t)
  <2>2. Requested(store, now, FALSE, GrantTemp(store, i, d, c, sc, ses, now))
    BY DEF Requested
  <2> QED BY <1>2, <2>1, <2>2, EffectiveNowFolds DEF ReqGrant
<1>3. CASE ReqSetDenied(p)
  <2>1. PICK i \in Identities, b \in BOOLEAN, t \in Times :
          Apply(p, SetDenied(store, i, b), EffectiveNow(last_seen, t), FALSE)
    BY <1>3 DEF ReqSetDenied
  <2>2. Requested(store, EffectiveNow(last_seen, t), FALSE, SetDenied(store, i, b))
    BY DEF Requested
  <2> QED BY <1>3, <2>1, <2>2, EffectiveNowFolds DEF ReqSetDenied
<1>4. CASE ReqConsumeOnce(p)
  <2>1. PICK id \in GrantIds, t \in Times :
          Apply(p, ConsumeOnce(store, id), EffectiveNow(last_seen, t), FALSE)
    BY <1>4 DEF ReqConsumeOnce
  <2>2. Requested(store, EffectiveNow(last_seen, t), FALSE, ConsumeOnce(store, id))
    BY DEF Requested
  <2> QED BY <1>4, <2>1, <2>2, EffectiveNowFolds DEF ReqConsumeOnce
<1>5. CASE ReqSweep(p)
  <2>1. PICK ses \in Sessions \cup {NoSession}, t \in Times :
          LET now == EffectiveNow(last_seen, t)
          IN  Apply(p, SweepExpired(store, now, ses), now, TRUE)
    BY <1>5 DEF ReqSweep
  <2> DEFINE now == EffectiveNow(last_seen, t)
  <2>2. Requested(store, now, TRUE, SweepExpired(store, now, ses))
    BY DEF Requested
  <2> QED BY <1>5, <2>1, <2>2, EffectiveNowFolds DEF ReqSweep
<1>6. CASE ReqRevokeSite(p)
  <2>1. PICK i \in Identities, d \in Domains, t \in Times :
          Apply(p, RevokeSite(store, i, d), EffectiveNow(last_seen, t), FALSE)
    BY <1>6 DEF ReqRevokeSite
  <2>2. Requested(store, EffectiveNow(last_seen, t), FALSE, RevokeSite(store, i, d))
    BY DEF Requested
  <2> QED BY <1>6, <2>1, <2>2, EffectiveNowFolds DEF ReqRevokeSite
<1>7. CASE ReqRevokeAll(p)
  <2>1. PICK i \in Identities, t \in Times :
          Apply(p, RevokeAll(store, i), EffectiveNow(last_seen, t), FALSE)
    BY <1>7 DEF ReqRevokeAll
  <2>2. Requested(store, EffectiveNow(last_seen, t), FALSE, RevokeAll(store, i))
    BY DEF Requested
  <2> QED BY <1>7, <2>1, <2>2, EffectiveNowFolds DEF ReqRevokeAll
<1> QED BY <1>1, <1>2, <1>3, <1>4, <1>5, <1>6, <1>7 DEF Request

(* Type correctness, with the freshness of ids that NextFreeId needs to    *)
(* return a number at all.  It holds however many processes interleave.    *)
TypeInv ==
    /\ TypeOK
    /\ GoodStore(store)
    /\ \A p \in Procs : GoodStore(job[p].store)

(* The job of an idle process is a job, over a good store.                 *)
LEMMA NoJobType == NoJob \in Job /\ GoodStore(NoJob.store)
BY EmptyStoreGood, OpsAssumption DEF NoJob, Job

(* A process that dies leaves the types alone.                             *)
LEMMA DiesTyped ==
    ASSUME NEW p \in Procs, TypeInv, Die(p)
    PROVE  TypeInv'
<1>1. failures' \in 0 .. MaxFailures
  BY HostAssumption DEF Die, TypeInv, TypeOK
<1>2. job' \in [Procs -> Job] /\ \A q \in Procs : GoodStore(job'[q].store)
  BY NoJobType DEF Die, TypeInv, TypeOK
<1>3. pc' \in [Procs -> Steps]
  BY DEF Die, TypeInv, TypeOK, Steps
<1>4. rows_lost' \in BOOLEAN
  BY DEF Die, TypeInv, TypeOK
<1>5. UNCHANGED <<store, last_seen, clock_ok, ledger, damaged>>
  BY DEF Die, files
<1> QED BY <1>1, <1>2, <1>3, <1>4, <1>5 DEF TypeInv, TypeOK, GoodStore, IdsFresh

(* Filing a reply yields a ledger.                                         *)
LEMMA ReceiveType ==
    ASSUME NEW l \in Ledger, NEW j \in Job
    PROVE  Receive(l, j) \in Ledger
<1>1. \A ev : About(j.rows, ev) \in SUBSET Nat
  BY DEF About, RowsOf, Job, AuditRow
<1>2. \A ev : DefaultRows(j.rows, ev) \in SUBSET (Identities \X Capabilities)
  BY DEF DefaultRows, RowsOf, Job, AuditRow
<1>3. \A ev : DenyRows(j.rows, ev) \in SUBSET Identities
  BY DEF DenyRows, RowsOf, Job, AuditRow
<1>4. (IF j.swept /\ j.now > l.swept THEN j.now ELSE l.swept) \in Times
  BY DEF Job, Ledger
<1> QED BY <1>1, <1>2, <1>3, <1>4 DEF Receive, Ledger

(* The type invariant, for any number of concurrent host processes.        *)
THEOREM TypeCorrect == Spec => []TypeInv
<1>1. Init => TypeInv
  <2> SUFFICES ASSUME Init PROVE TypeInv
    OBVIOUS
  <2>1. ledger \in Ledger /\ last_seen \in Times
    BY OpsAssumption DEF Init, Ledger, EmptyLedger
  <2>2. job \in [Procs -> Job] /\ \A p \in Procs : GoodStore(job[p].store)
    BY NoJobType DEF Init
  <2>3. store \in Store /\ GoodStore(store)
    BY EmptyStoreGood DEF Init
  <2>4. pc \in [Procs -> Steps] /\ failures \in 0 .. MaxFailures
    BY HostAssumption DEF Init, Steps
  <2>5. clock_ok \in BOOLEAN /\ rows_lost \in BOOLEAN /\ damaged \in BOOLEAN
    BY DEF Init
  <2> QED BY <2>1, <2>2, <2>3, <2>4, <2>5 DEF TypeInv, TypeOK
<1>2. TypeInv /\ [Next]_vars => TypeInv'
  <2> SUFFICES ASSUME TypeInv, [Next]_vars PROVE TypeInv'
    OBVIOUS
  <2>1. ASSUME NEW p \in Procs, Request(p) PROVE TypeInv'
    <3>1. PICK now, swept, o :
            /\ now \in Times /\ swept \in BOOLEAN
            /\ Requested(store, now, swept, o) /\ Apply(p, o, now, swept)
      BY <2>1, RequestApplies DEF TypeInv, TypeOK
    <3>2. Explained(store, o)
      BY <3>1, RequestExplained DEF TypeInv, Apply
    <3> DEFINE j == [store |-> o.store, rows |-> o.rows, now |-> now, seen |-> last_seen, swept |-> swept]
    <3>3. j \in Job /\ GoodStore(j.store)
      <4>1. GoodStore(o.store) /\ o.store \in Store /\ o.rows \in SUBSET AuditRow
        BY <3>2 DEF Explained, GoodStore
      <4>2. now \in Times /\ swept \in BOOLEAN /\ last_seen \in Times
        BY <3>1 DEF TypeInv, TypeOK
      <4> QED BY <4>1, <4>2 DEF Job
    <3>4. job' = [job EXCEPT ![p] = j] /\ UNCHANGED <<files, observers>>
      BY <3>1 DEF Apply
    <3> HIDE DEF j
    <3>5. job' \in [Procs -> Job] /\ \A q \in Procs : GoodStore(job'[q].store)
      BY <3>3, <3>4 DEF TypeInv, TypeOK
    <3>6. pc' \in [Procs -> Steps]
      BY <3>1 DEF Apply, AfterStore, Steps, TypeInv, TypeOK
    <3> QED BY <3>4, <3>5, <3>6 DEF TypeInv, TypeOK, files, observers, GoodStore, IdsFresh
  <2>2. ASSUME NEW p \in Procs, WriteStore(p) PROVE TypeInv'
    <3>1. store' \in Store /\ GoodStore(store)'
      BY <2>2 DEF WriteStore, TypeInv, TypeOK, Job, GoodStore, IdsFresh
    <3>2. pc' \in [Procs -> Steps]
      BY <2>2 DEF WriteStore, AfterStore, Steps, TypeInv, TypeOK
    <3>3. UNCHANGED <<last_seen, clock_ok, job, ledger, rows_lost, damaged, failures>>
      BY <2>2 DEF WriteStore, observers
    <3> QED BY <3>1, <3>2, <3>3 DEF TypeInv, TypeOK, GoodStore, IdsFresh
  <2>3. ASSUME NEW p \in Procs, WriteClock(p) PROVE TypeInv'
    <3>1. last_seen' \in Times /\ clock_ok' \in BOOLEAN
      BY <2>3 DEF WriteClock, TypeInv, TypeOK, Job
    <3>2. pc' \in [Procs -> Steps]
      BY <2>3 DEF WriteClock, Steps, TypeInv, TypeOK
    <3>3. UNCHANGED <<store, job, ledger, rows_lost, damaged, failures>>
      BY <2>3 DEF WriteClock, observers
    <3> QED BY <3>1, <3>2, <3>3 DEF TypeInv, TypeOK, GoodStore, IdsFresh
  <2>4. ASSUME NEW p \in Procs, Emit(p) PROVE TypeInv'
    <3>1. ledger' \in Ledger
      BY <2>4, ReceiveType DEF Emit, TypeInv, TypeOK
    <3>2. pc' \in [Procs -> Steps]
      BY <2>4 DEF Emit, Steps, TypeInv, TypeOK
    <3>3. job' \in [Procs -> Job] /\ \A q \in Procs : GoodStore(job'[q].store)
      BY <2>4, NoJobType DEF Emit, TypeInv, TypeOK
    <3>4. UNCHANGED <<store, last_seen, clock_ok, rows_lost, damaged, failures>>
      BY <2>4 DEF Emit, files
    <3> QED BY <3>1, <3>2, <3>3, <3>4 DEF TypeInv, TypeOK, GoodStore, IdsFresh
  <2>5. ASSUME NEW p \in Procs, Failure(p) PROVE TypeInv'
    BY <2>5, DiesTyped DEF Failure, StoreWriteFails, ClockWriteFails, Kill
  <2>6. CASE DamageStore
    BY <2>6, CorruptStoreGood DEF DamageStore, TypeInv, TypeOK, GoodStore, IdsFresh, observers
  <2>7. CASE DamageClock
    BY <2>7 DEF DamageClock, TypeInv, TypeOK, GoodStore, IdsFresh, observers
  <2>8. CASE UNCHANGED vars
    BY <2>8 DEF vars, TypeInv, TypeOK, GoodStore, IdsFresh
  <2> QED BY <2>1, <2>2, <2>3, <2>4, <2>5, <2>6, <2>7, <2>8 DEF Next, Progress
<1> QED BY <1>1, <1>2, PTL DEF Spec

(* The type invariant the runs check, for every value of the constants.    *)
COROLLARY TypeOKHolds == Spec => []TypeOK
<1>1. TypeInv => TypeOK
  BY DEF TypeInv
<1> QED BY <1>1, TypeCorrect, PTL
----------------------------------------------------------------------------
(* One process at a time.  The host takes no lock, so the two ledger       *)
(* properties need callers that wait for the reply (the run of two         *)
(* processes shows why).  The strengthening says what a process in flight  *)
(* holds: before its store write, a change of the store on disk its rows   *)
(* account for; after it, rows that are still to be filed.                 *)
OneCaller == \A p, q \in Procs : p = q

RowIds(rows) == About(rows, {"grant"}) \cup About(rows, EndEvents)

Landed(j) ==
    /\ About(j.rows, EndEvents) \cap LiveIds(store) = {}
    /\ \A id \in RowIds(j.rows) : id < store.next_seq
    /\ ~rows_lost => LedgerMatches(Receive(ledger, j), store)

InFlight(p) ==
    /\ pc[p] # "idle" => ~store.corrupt
    /\ pc[p] = "write_store" => Explained(store, job[p])
    /\ pc[p] \in {"write_clock", "emit"} => Landed(job[p])

LedgerInv ==
    /\ ~store.corrupt => \A id \in ledger.granted \cup ledger.ended :
                             id < store.next_seq
    /\ LiveIds(store) \cap ledger.ended = {}
    /\ LedgerExplainsStore
    /\ \A p \in Procs : InFlight(p)

(* Rows name grants by natural numbers.                                    *)
LEMMA RowIdsAreNat ==
    ASSUME NEW rows \in SUBSET AuditRow, NEW ev
    PROVE  About(rows, ev) \in SUBSET Nat
BY DEF About, RowsOf, AuditRow

(* The ids of live grants are below next_seq.                              *)
LEMMA LiveIdsBelow ==
    ASSUME NEW s, GoodStore(s)
    PROVE  \A id \in LiveIds(s) : id \in Nat /\ id < s.next_seq
BY DEF LiveIds, Live, GoodStore, IdsFresh, Store, StoredGrant

(* A reply that announces nothing leaves the ledger's account as it was.   *)
LEMMA NoRows ==
    ASSUME NEW l, NEW s, NEW j, j.rows = {}
    PROVE  LedgerMatches(Receive(l, j), s) <=> LedgerMatches(l, s)
<1>1. \A ev : About(j.rows, ev) = {}
  BY DEF About, RowsOf
<1>2. \A ev : DefaultRows(j.rows, ev) = {}
  BY DEF DefaultRows, RowsOf
<1>3. \A ev : DenyRows(j.rows, ev) = {}
  BY DEF DenyRows, RowsOf
<1>4. /\ l.granted \ l.ended = Receive(l, j).granted \ Receive(l, j).ended
      /\ l.allowed = Receive(l, j).allowed
      /\ l.denied = Receive(l, j).denied
  BY <1>1, <1>2, <1>3 DEF Receive
<1> QED BY <1>4 DEF LedgerMatches

(* Filing the rows of an explained change keeps the account.               *)
LEMMA Accounting ==
    ASSUME NEW l, NEW s, NEW j, GoodStore(s), Explained(s, j), LedgerMatches(l, s),
           \A id \in l.granted \cup l.ended : id < s.next_seq
    PROVE  LedgerMatches(Receive(l, j), j.store)
<1> DEFINE G == About(j.rows, {"grant"})
           E == About(j.rows, EndEvents)
<1>1. /\ LiveIds(s) = l.granted \ l.ended
      /\ LiveIds(j.store) = (LiveIds(s) \ E) \cup G
  BY DEF LedgerMatches, Explained
<1>2. \A id \in G : id \in Nat /\ s.next_seq <= id
  BY DEF Explained
<1>3. \A id \in E : id \in Nat /\ id < s.next_seq
  BY LiveIdsBelow DEF Explained
<1>4. s.next_seq \in Nat
  BY DEF GoodStore, Store
<1>5. /\ Receive(l, j).granted = l.granted \cup G
      /\ Receive(l, j).ended = l.ended \cup E
  BY DEF Receive, EndEvents
<1> HIDE DEF G, E
<1>6. LiveIds(j.store) = Receive(l, j).granted \ Receive(l, j).ended
  <2>1. \A id \in G : id \notin E /\ id \notin l.ended
    BY <1>2, <1>3, <1>4
  <2> QED BY <1>1, <1>5, <2>1
<1>7. AllowedIn(j.store) = Receive(l, j).allowed
  BY DEF Receive, LedgerMatches, Explained
<1>8. j.store.denied = Receive(l, j).denied
  BY DEF Receive, LedgerMatches, Explained
<1> QED BY <1>6, <1>7, <1>8 DEF LedgerMatches

(* What an explained change leaves behind once it is on disk.              *)
LEMMA ExplainedLands ==
    ASSUME NEW s, NEW j, GoodStore(s), Explained(s, j)
    PROVE  /\ About(j.rows, EndEvents) \cap LiveIds(j.store) = {}
           /\ \A id \in RowIds(j.rows) : id < j.store.next_seq
           /\ j.store.next_seq \in Nat /\ s.next_seq \in Nat
           /\ s.next_seq <= j.store.next_seq
<1> DEFINE G == About(j.rows, {"grant"})
           E == About(j.rows, EndEvents)
<1>1. LiveIds(j.store) = (LiveIds(s) \ E) \cup G
  BY DEF Explained
<1>2. \A id \in G : id \in Nat /\ s.next_seq <= id /\ id < j.store.next_seq
  BY DEF Explained
<1>3. \A id \in E : id \in Nat /\ id < s.next_seq
  BY LiveIdsBelow DEF Explained
<1>4. /\ s.next_seq \in Nat /\ j.store.next_seq \in Nat
      /\ s.next_seq <= j.store.next_seq
  BY DEF Explained, GoodStore, Store
<1>5. RowIds(j.rows) = G \cup E
  BY DEF RowIds
<1> HIDE DEF G, E
<1>6. E \cap LiveIds(j.store) = {}
  BY <1>1, <1>2, <1>3, <1>4
<1>7. \A id \in RowIds(j.rows) : id < j.store.next_seq
  BY <1>2, <1>3, <1>4, <1>5
<1> QED BY <1>4, <1>6, <1>7 DEF E

(* Nothing reported over can be brought back to life by a change whose     *)
(* new grants all have ids from next_seq on.                               *)
LEMMA EndedStaysOut ==
    ASSUME NEW s, NEW j, NEW ended, GoodStore(s), Explained(s, j),
           LiveIds(s) \cap ended = {},
           \A id \in ended : id \in Nat /\ id < s.next_seq
    PROVE  LiveIds(j.store) \cap ended = {}
<1>1. LiveIds(j.store) \subseteq LiveIds(s) \cup About(j.rows, {"grant"})
  BY DEF Explained
<1>2. \A id \in About(j.rows, {"grant"}) : id \in Nat /\ s.next_seq <= id
  BY DEF Explained
<1>3. s.next_seq \in Nat
  BY DEF GoodStore, Store
<1> QED BY <1>1, <1>2, <1>3

(* The strengthening holds before the first request.                       *)
LEMMA InitLedger == ASSUME Init PROVE LedgerInv
<1>1. LiveIds(store) = {} /\ AllowedIn(store) = {} /\ store.denied = {}
  BY DEF Init, EmptyStore, LiveIds, Live, AllowedIn, NoDefault
<1>2. /\ ledger.granted = {} /\ ledger.ended = {}
      /\ ledger.allowed = {} /\ ledger.denied = {}
  BY DEF Init, EmptyLedger
<1>3. \A p \in Procs : InFlight(p)
  BY DEF Init, InFlight
<1> QED BY <1>1, <1>2, <1>3 DEF LedgerInv, LedgerExplainsStore, LedgerMatches

(* A request that begins keeps it: nothing is written yet.                 *)
LEMMA RequestKeepsLedger ==
    ASSUME OneCaller, TypeInv, LedgerInv, NEW p \in Procs, Request(p)
    PROVE  LedgerInv'
<1>1. PICK now, swept, o :
        /\ now \in Times /\ swept \in BOOLEAN
        /\ Begin(p) /\ Requested(store, now, swept, o) /\ Apply(p, o, now, swept)
  BY RequestApplies DEF TypeInv, TypeOK
<1>2. Explained(store, o) /\ ~store.corrupt
  BY <1>1, RequestExplained DEF TypeInv, Apply
<1>3. UNCHANGED <<store, ledger, rows_lost>>
  BY <1>1 DEF Apply, files, observers
<1>4. /\ job'[p].store = o.store
      /\ job'[p].rows = o.rows
      /\ pc'[p] = IF o.store # store THEN "write_store"
                  ELSE AfterStore(now, last_seen)
  BY <1>1 DEF Apply, TypeInv, TypeOK
<1>5. \A q \in Procs : pc[q] = "idle"
  BY <1>1 DEF Begin, OneCaller
<1>6. ~rows_lost => LedgerMatches(ledger, store)
  BY <1>2, <1>5 DEF LedgerInv, LedgerExplainsStore, Reported
<1>7. CASE o.store # store
  <2>1. pc'[p] = "write_store" /\ Explained(store, job'[p])
    BY <1>2, <1>4, <1>7 DEF Explained
  <2>2. InFlight(p)'
    BY <1>2, <1>3, <2>1 DEF InFlight, Explained, LiveIds, Live, AllowedIn
  <2>3. LedgerExplainsStore'
    BY <1>3, <1>6 DEF LedgerExplainsStore, LedgerMatches, LiveIds, Live, AllowedIn
  <2> QED BY <1>3, <2>2, <2>3 DEF OneCaller, LedgerInv, LiveIds, Live
<1>8. CASE o.store = store
  <2>1. pc'[p] \in {"write_clock", "emit"}
    BY <1>4, <1>8 DEF AfterStore
  <2> DEFINE j == job'[p]
  <2>2. Explained(store, j) /\ j.store = store
    BY <1>2, <1>4, <1>8 DEF Explained
  <2> HIDE DEF j
  <2>3. /\ About(j.rows, EndEvents) \cap LiveIds(store) = {}
        /\ \A id \in RowIds(j.rows) : id < store.next_seq
    BY <2>2, ExplainedLands DEF TypeInv
  <2>4. ~rows_lost => LedgerMatches(Receive(ledger, j), store)
    BY <1>2, <1>6, <2>2, Accounting DEF TypeInv, LedgerInv
  <2>5. Landed(job[p])'
    BY <1>3, <2>3, <2>4 DEF j, Landed, LedgerMatches, LiveIds, Live, AllowedIn
  <2>6. InFlight(p)'
    BY <1>2, <1>3, <2>1, <2>5 DEF InFlight
  <2>7. LedgerExplainsStore'
    BY <2>1 DEF LedgerExplainsStore, Reported
  <2> QED BY <1>3, <2>6, <2>7 DEF OneCaller, LedgerInv, LiveIds, Live
<1> QED BY <1>7, <1>8

(* The store write keeps it: the change lands as its rows explain it.      *)
LEMMA WriteStoreKeepsLedger ==
    ASSUME OneCaller, TypeInv, LedgerInv, NEW p \in Procs, WriteStore(p)
    PROVE  LedgerInv'
<1> DEFINE j == job[p]
<1>1. store' = j.store /\ UNCHANGED <<job, ledger, rows_lost>>
  BY DEF WriteStore, observers
<1>2. pc[p] = "write_store" /\ pc'[p] \in {"write_clock", "emit"}
  BY DEF WriteStore, AfterStore, TypeInv, TypeOK
<1>3. Explained(store, j) /\ ~store.corrupt
  BY <1>2 DEF LedgerInv, InFlight
<1>4. ~rows_lost => LedgerMatches(ledger, store)
  BY <1>2, <1>3 DEF LedgerInv, LedgerExplainsStore, Reported, OneCaller
<1>5. ledger.granted \subseteq Nat /\ ledger.ended \subseteq Nat
  BY DEF TypeInv, TypeOK, Ledger
<1> HIDE DEF j
<1>6. /\ About(j.rows, EndEvents) \cap LiveIds(j.store) = {}
      /\ \A id \in RowIds(j.rows) : id < j.store.next_seq
      /\ j.store.next_seq \in Nat /\ store.next_seq \in Nat
      /\ store.next_seq <= j.store.next_seq
  BY <1>3, ExplainedLands DEF TypeInv
<1>7. ~rows_lost => LedgerMatches(Receive(ledger, j), j.store)
  BY <1>3, <1>4, Accounting DEF TypeInv, LedgerInv
<1>8. Landed(job[p])'
  BY <1>1, <1>6, <1>7 DEF j, Landed, LedgerMatches, LiveIds, Live, AllowedIn
<1>9. InFlight(p)'
  BY <1>1, <1>2, <1>3, <1>8 DEF InFlight, Explained
<1>10. \A id \in ledger.granted \cup ledger.ended : id < j.store.next_seq
  BY <1>3, <1>5, <1>6 DEF LedgerInv
<1>11. LiveIds(j.store) \cap ledger.ended = {}
  BY <1>3, <1>5, EndedStaysOut DEF TypeInv, LedgerInv
<1>12. LedgerExplainsStore'
  BY <1>2 DEF LedgerExplainsStore, Reported
<1> QED BY <1>1, <1>9, <1>10, <1>11, <1>12 DEF OneCaller, LedgerInv, LiveIds, Live

(* The clock write keeps it: the store is untouched.                       *)
LEMMA WriteClockKeepsLedger ==
    ASSUME OneCaller, TypeInv, LedgerInv, NEW p \in Procs, WriteClock(p)
    PROVE  LedgerInv'
<1>1. UNCHANGED <<store, job, ledger, rows_lost>>
  BY DEF WriteClock, observers
<1>2. pc[p] = "write_clock" /\ pc'[p] = "emit"
  BY DEF WriteClock, TypeInv, TypeOK
<1>3. Landed(job[p])'
  BY <1>1, <1>2 DEF LedgerInv, InFlight, Landed, LedgerMatches, LiveIds, Live, AllowedIn
<1>4. InFlight(p)'
  BY <1>1, <1>2, <1>3 DEF LedgerInv, InFlight
<1>5. LedgerExplainsStore'
  BY <1>2 DEF LedgerExplainsStore, Reported
<1> QED BY <1>1, <1>4, <1>5 DEF OneCaller, LedgerInv, LiveIds, Live

(* The reply keeps it: the caller files the rows of the landed change.     *)
LEMMA EmitKeepsLedger ==
    ASSUME OneCaller, TypeInv, LedgerInv, NEW p \in Procs, Emit(p)
    PROVE  LedgerInv'
<1> DEFINE j == job[p]
<1>1. ledger' = Receive(ledger, j) /\ UNCHANGED <<store, rows_lost>>
  BY DEF Emit, files
<1>2. pc[p] = "emit" /\ pc'[p] = "idle"
  BY DEF Emit, TypeInv, TypeOK
<1>3. Landed(j) /\ ~store.corrupt
  BY <1>2 DEF LedgerInv, InFlight
<1>4. /\ ledger'.granted = ledger.granted \cup About(j.rows, {"grant"})
      /\ ledger'.ended = ledger.ended \cup About(j.rows, EndEvents)
  BY <1>1 DEF Receive, EndEvents
<1> HIDE DEF j
<1>5. \A id \in (ledger.granted \cup ledger.ended)' : id < store.next_seq
  BY <1>3, <1>4 DEF LedgerInv, Landed, RowIds
<1>6. LiveIds(store) \cap ledger'.ended = {}
  BY <1>3, <1>4 DEF LedgerInv, Landed
<1>7. ~rows_lost => LedgerMatches(ledger', store)
  BY <1>1, <1>3 DEF Landed
<1>8. LedgerExplainsStore'
  BY <1>1, <1>7 DEF LedgerExplainsStore, LedgerMatches, LiveIds, Live, AllowedIn
<1>9. InFlight(p)'
  BY <1>2 DEF InFlight
<1> QED BY <1>1, <1>5, <1>6, <1>8, <1>9 DEF OneCaller, LedgerInv, LiveIds, Live

(* A death keeps it: the rows it swallows are noted as lost.               *)
LEMMA DieKeepsLedger ==
    ASSUME OneCaller, TypeInv, LedgerInv, NEW p \in Procs, Die(p), pc[p] # "idle"
    PROVE  LedgerInv'
<1>1. UNCHANGED <<store, ledger>> /\ pc'[p] = "idle"
  BY DEF Die, files, TypeInv, TypeOK
<1>2. ~store.corrupt
  BY DEF LedgerInv, InFlight
<1>3. ASSUME ~rows_lost' PROVE LedgerMatches(ledger, store)
  <2>1. ~rows_lost /\ (pc[p] \in {"write_clock", "emit"} => job[p].rows = {})
    BY <1>3 DEF Die
  <2>2. CASE pc[p] = "write_store"
    BY <1>2, <2>1, <2>2 DEF OneCaller, LedgerInv, LedgerExplainsStore, Reported
  <2>3. CASE pc[p] \in {"write_clock", "emit"}
    BY <2>1, <2>3, NoRows DEF LedgerInv, InFlight, Landed
  <2> QED BY <2>2, <2>3 DEF TypeInv, TypeOK, Steps
<1>4. LedgerExplainsStore'
  BY <1>1, <1>3 DEF LedgerExplainsStore, LedgerMatches, LiveIds, Live, AllowedIn
<1>5. InFlight(p)'
  BY <1>1 DEF InFlight
<1> QED BY <1>1, <1>4, <1>5 DEF OneCaller, LedgerInv, LiveIds, Live

(* Damage keeps it: it only happens between requests.                      *)
LEMMA DamageStoreKeepsLedger ==
    ASSUME LedgerInv, DamageStore
    PROVE  LedgerInv'
<1>1. /\ \A p \in Procs : pc'[p] = "idle"
      /\ store' = CorruptStore /\ ledger' = ledger
  BY DEF DamageStore
<1>2. store'.corrupt /\ LiveIds(store)' = {}
  BY <1>1 DEF CorruptStore, EmptyStore, LiveIds, Live
<1> QED BY <1>1, <1>2 DEF LedgerInv, LedgerExplainsStore, InFlight

(* Nothing LedgerInv speaks of changes.                                    *)
LEMMA LedgerStutters ==
    ASSUME LedgerInv, UNCHANGED <<store, pc, job, ledger, rows_lost>>
    PROVE  LedgerInv'
<1>1. \A p \in Procs : InFlight(p)'
  BY DEF LedgerInv, InFlight, Landed, LedgerMatches, LiveIds, Live, AllowedIn
<1>2. LedgerExplainsStore'
  BY DEF LedgerInv, LedgerExplainsStore, Reported, LedgerMatches, LiveIds, Live, AllowedIn
<1> QED BY <1>1, <1>2 DEF LedgerInv, LiveIds, Live

(* With one caller at a time, the strengthening holds in every state.      *)
THEOREM LedgerInvariant == ASSUME OneCaller PROVE Spec => []LedgerInv
<1>1. Init => LedgerInv
  BY InitLedger
<1>2. TypeInv /\ LedgerInv /\ [Next]_vars => LedgerInv'
  <2> SUFFICES ASSUME TypeInv, LedgerInv, [Next]_vars PROVE LedgerInv'
    OBVIOUS
  <2>1. ASSUME NEW p \in Procs, Request(p) PROVE LedgerInv'
    BY <2>1, RequestKeepsLedger
  <2>2. ASSUME NEW p \in Procs, WriteStore(p) PROVE LedgerInv'
    BY <2>2, WriteStoreKeepsLedger
  <2>3. ASSUME NEW p \in Procs, WriteClock(p) PROVE LedgerInv'
    BY <2>3, WriteClockKeepsLedger
  <2>4. ASSUME NEW p \in Procs, Emit(p) PROVE LedgerInv'
    BY <2>4, EmitKeepsLedger
  <2>5. ASSUME NEW p \in Procs, Failure(p) PROVE LedgerInv'
    BY <2>5, DieKeepsLedger DEF Failure, StoreWriteFails, ClockWriteFails, Kill
  <2>6. CASE DamageStore
    BY <2>6, DamageStoreKeepsLedger
  <2>7. CASE DamageClock
    BY <2>7, LedgerStutters DEF DamageClock, observers
  <2>8. CASE UNCHANGED vars
    BY <2>8, LedgerStutters DEF vars
  <2> QED BY <2>1, <2>2, <2>3, <2>4, <2>5, <2>6, <2>7, <2>8 DEF Next, Progress
<1> QED BY <1>1, <1>2, TypeCorrect, PTL DEF Spec

(* A grant reported revoked, spent or expired is never live again, for any *)
(* number of identities, sites, grants, requests, kills and failed writes, *)
(* as long as callers take turns.                                          *)
THEOREM EndedStaysEnded == ASSUME OneCaller PROVE Spec => []ReportedEndedStaysEnded
<1>1. LedgerInv => ReportedEndedStaysEnded
  BY DEF LedgerInv, ReportedEndedStaysEnded, LiveIds
<1> QED BY <1>1, LedgerInvariant, PTL

(* Ledger completeness: unless a process died between its store write and  *)
(* its reply, the rows received account exactly for the store.             *)
THEOREM LedgerCompleteness == ASSUME OneCaller PROVE Spec => []LedgerExplainsStore
<1>1. LedgerInv => LedgerExplainsStore
  BY DEF LedgerInv
<1> QED BY <1>1, LedgerInvariant, PTL

(* No operation repairs a corrupt store, with one caller.                  *)
THEOREM CorruptionIsFinal == ASSUME OneCaller PROVE Spec => CorruptStaysCorrupt
<1>1. LedgerInv /\ [Next]_vars => [store.corrupt => store'.corrupt]_store
  <2> SUFFICES ASSUME LedgerInv, Next, store.corrupt PROVE store'.corrupt \/ store' = store
    BY DEF vars
  <2>1. ASSUME NEW p \in Procs, WriteStore(p) PROVE FALSE
    BY <2>1 DEF LedgerInv, InFlight, WriteStore
  <2>2. CASE DamageStore
    BY <2>2 DEF DamageStore, CorruptStore, EmptyStore
  <2>3. ASSUME NEW p \in Procs, Request(p) PROVE store' = store
    BY <2>3 DEF Request, ReqSetDefault, ReqGrant, ReqSetDenied, ReqConsumeOnce,
                ReqSweep, ReqRevokeSite, ReqRevokeAll, Apply, files
  <2> QED BY <2>1, <2>2, <2>3 DEF Next, Progress, WriteClock, Emit, Failure,
        StoreWriteFails, ClockWriteFails, Kill, Die, DamageClock, files
<1> QED BY <1>1, LedgerInvariant, PTL DEF Spec, CorruptStaysCorrupt

----------------------------------------------------------------------------
(* Time, and the abstract store.                                           *)

(* What process p holds is in step with the two files: a change still to   *)
(* be written was asked of the store that is there, at a time the mark has *)
(* not passed; once written, the mark is behind it or has reached it, and  *)
(* a sweep has left nothing that ends by then.                             *)
InTime(p) ==
    LET j == job[p]
    IN  /\ pc[p] = "write_store" =>
               /\ j.seen = last_seen
               /\ j.now >= last_seen
               /\ j.store # store
               /\ \E o : /\ Requested(store, j.now, j.swept, o)
                         /\ o.ok
                         /\ o.store = j.store
                         /\ o.rows = j.rows
        /\ pc[p] = "write_clock" => j.now > last_seen
        /\ pc[p] = "emit" => j.now = last_seen
        /\ (pc[p] \in {"write_clock", "emit"} /\ j.swept) =>
               NoneEndsBy(store, j.now)

(* No sweep is reported for a time the mark has not reached: this is what  *)
(* keeps later grants, which start at the mark or after it, out of the     *)
(* reach of every reported sweep.                                          *)
TimeInv ==
    /\ ledger.swept <= last_seen
    /\ ReportedSweepIsFinal
    /\ \A p \in Procs : InTime(p)

(* Times are numbers.                                                      *)
LEMMA TimesAreInt == \A t \in Times : t \in Int
BY OpsAssumption

(* A request that begins reads the mark that is there.                     *)
LEMMA RequestKeepsTime ==
    ASSUME OneCaller, TypeInv, TimeInv, NEW p \in Procs, Request(p)
    PROVE  TimeInv'
<1>1. PICK now, swept, o :
        /\ now \in Times /\ swept \in BOOLEAN /\ now >= last_seen
        /\ Requested(store, now, swept, o) /\ Apply(p, o, now, swept)
  BY RequestApplies DEF TypeInv, TypeOK
<1>2. /\ job'[p].store = o.store /\ job'[p].now = now /\ job'[p].rows = o.rows
      /\ job'[p].seen = last_seen /\ job'[p].swept = swept
      /\ pc'[p] = IF o.store # store THEN "write_store"
                  ELSE AfterStore(now, last_seen)
      /\ o.ok
  BY <1>1 DEF Apply, TypeInv, TypeOK
<1>3. UNCHANGED <<store, last_seen, ledger>>
  BY <1>1 DEF Apply, files, observers
<1>4. swept => NoneEndsBy(o.store, now)
  BY <1>1, <1>2, RequestExplained DEF TypeInv
<1>5. now \in Int /\ last_seen \in Int
  BY <1>1, TimesAreInt DEF TypeInv, TypeOK
<1>6. CASE o.store # store
  <2>1. \E r : Requested(store, job'[p].now, job'[p].swept, r) /\ r.ok /\ r.store = job'[p].store
               /\ r.rows = job'[p].rows
    BY <1>1, <1>2
  <2>2. InTime(p)'
    BY <1>1, <1>2, <1>3, <1>6, <2>1 DEF InTime, Requested
  <2> QED BY <1>3, <2>2 DEF OneCaller, TimeInv, ReportedSweepIsFinal, Live
<1>7. CASE o.store = store
  <2>1. InTime(p)'
    BY <1>1, <1>2, <1>3, <1>4, <1>5, <1>7 DEF InTime, AfterStore, NoneEndsBy, Live
  <2> QED BY <1>3, <2>1 DEF OneCaller, TimeInv, ReportedSweepIsFinal, Live
<1> QED BY <1>6, <1>7

(* What lands ends later than any reported sweep.                          *)
LEMMA WriteStoreKeepsTime ==
    ASSUME OneCaller, TypeInv, TimeInv, NEW p \in Procs, WriteStore(p)
    PROVE  TimeInv'
<1> DEFINE j == job[p]
<1>1. store' = j.store /\ UNCHANGED <<last_seen, job, ledger>>
  BY DEF WriteStore, observers
<1>2. pc[p] = "write_store" /\ pc'[p] = AfterStore(j.now, j.seen)
  BY DEF WriteStore, TypeInv, TypeOK
<1>3. /\ j.seen = last_seen /\ j.now >= last_seen /\ ledger.swept <= last_seen
      /\ \E o : Requested(store, j.now, j.swept, o) /\ o.ok /\ o.store = j.store
  BY <1>2 DEF TimeInv, InTime
<1>4. /\ j.now \in Times /\ last_seen \in Times /\ ledger.swept \in Times
      /\ j.swept \in BOOLEAN
  BY DEF TypeInv, TypeOK, Job, Ledger
<1>5. j.now \in Int /\ last_seen \in Int /\ ledger.swept \in Int
  BY <1>4, TimesAreInt
<1>6. \A g \in Live(j.store) : g.expires_at \in Int
  BY DEF TypeInv, TypeOK, Job, Store, StoredGrant, Live
<1> HIDE DEF j
<1>7. /\ \A g \in Live(j.store) : g \in Live(store) \/ (g.scope = "7d" => g.expires_at > j.now)
      /\ j.swept => NoneEndsBy(j.store, j.now)
  BY <1>3, <1>4, RequestExplained DEF TypeInv
<1>8. \A g \in Live(j.store) : g.scope = "7d" => g.expires_at > ledger.swept
  BY <1>3, <1>5, <1>6, <1>7 DEF TimeInv, ReportedSweepIsFinal
<1>9. InTime(p)'
  BY <1>1, <1>2, <1>3, <1>5, <1>7 DEF j, InTime, AfterStore, NoneEndsBy, Live
<1> QED BY <1>1, <1>3, <1>8, <1>9 DEF OneCaller, TimeInv, ReportedSweepIsFinal, Live

(* The mark moves up to the time of the request.                           *)
LEMMA WriteClockKeepsTime ==
    ASSUME OneCaller, TypeInv, TimeInv, NEW p \in Procs, WriteClock(p)
    PROVE  TimeInv'
<1>1. last_seen' = job[p].now /\ UNCHANGED <<store, job, ledger>>
  BY DEF WriteClock, observers
<1>2. pc[p] = "write_clock" /\ pc'[p] = "emit"
  BY DEF WriteClock, TypeInv, TypeOK
<1>3. job[p].now \in Int /\ last_seen \in Int /\ ledger.swept \in Int
  BY TimesAreInt DEF TypeInv, TypeOK, Job, Ledger
<1>4. ledger.swept <= job[p].now
  BY <1>2, <1>3 DEF TimeInv, InTime
<1>5. InTime(p)'
  BY <1>1, <1>2 DEF TimeInv, InTime, NoneEndsBy, Live
<1> QED BY <1>1, <1>4, <1>5 DEF OneCaller, TimeInv, ReportedSweepIsFinal, Live

(* A sweep is reported when the mark has reached its time.                 *)
LEMMA EmitKeepsTime ==
    ASSUME OneCaller, TypeInv, TimeInv, NEW p \in Procs, Emit(p)
    PROVE  TimeInv'
<1> DEFINE j == job[p]
<1>1. ledger' = Receive(ledger, j) /\ UNCHANGED <<store, last_seen>>
  BY DEF Emit, files
<1>2. pc[p] = "emit" /\ pc'[p] = "idle"
  BY DEF Emit, TypeInv, TypeOK
<1>3. j.now = last_seen /\ (j.swept => NoneEndsBy(store, j.now))
  BY <1>2 DEF TimeInv, InTime
<1>4. ledger'.swept = IF j.swept /\ j.now > ledger.swept THEN j.now ELSE ledger.swept
  BY <1>1 DEF Receive
<1>5. j.now \in Int /\ last_seen \in Int
  BY TimesAreInt DEF TypeInv, TypeOK, Job
<1> HIDE DEF j
<1>6. ledger'.swept <= last_seen
  BY <1>3, <1>4, <1>5 DEF TimeInv
<1>7. \A g \in Live(store) : g.scope = "7d" => g.expires_at > ledger'.swept
  BY <1>3, <1>4 DEF TimeInv, ReportedSweepIsFinal, NoneEndsBy
<1>8. InTime(p)'
  BY <1>2 DEF InTime
<1> QED BY <1>1, <1>6, <1>7, <1>8 DEF OneCaller, TimeInv, ReportedSweepIsFinal, Live

(* A step that leaves the files and the ledger alone, and every process    *)
(* where it was or idle, changes nothing TimeInv speaks of.                *)
LEMMA RestKeepsTime ==
    ASSUME TimeInv, UNCHANGED <<store, last_seen, ledger>>,
           \A p \in Procs : \/ pc'[p] = "idle"
                            \/ pc'[p] = pc[p] /\ job'[p] = job[p]
    PROVE  TimeInv'
<1>1. ASSUME NEW p \in Procs, pc'[p] = "idle" PROVE InTime(p)'
  BY <1>1 DEF InTime
<1>2. ASSUME NEW p \in Procs, pc'[p] = pc[p], job'[p] = job[p] PROVE InTime(p)'
  <2>1. InTime(p)
    BY DEF TimeInv
  <2>2. pc[p] = "write_store" =>
          \E o : Requested(store, job'[p].now, job'[p].swept, o) /\ o.ok /\ o.store = job'[p].store
              /\ o.rows = job'[p].rows
    BY <1>2, <2>1 DEF InTime
  <2> QED BY <1>2, <2>1, <2>2 DEF InTime, Requested, NoneEndsBy, Live
<1> QED BY <1>1, <1>2 DEF TimeInv, ReportedSweepIsFinal, Live

(* With one caller at a time, files, processes and reports stay in step.   *)
THEOREM TimeInvariant == ASSUME OneCaller PROVE Spec => []TimeInv
<1>1. Init => TimeInv
  <2> SUFFICES ASSUME Init PROVE TimeInv
    OBVIOUS
  <2>1. Live(store) = {} /\ ledger.swept = 0 /\ last_seen = 0
    BY DEF Init, EmptyStore, Live, EmptyLedger
  <2>2. \A p \in Procs : pc[p] = "idle"
    BY DEF Init
  <2> QED BY <2>1, <2>2 DEF TimeInv, InTime, ReportedSweepIsFinal
<1>2. TypeInv /\ TimeInv /\ [Next]_vars => TimeInv'
  <2> SUFFICES ASSUME TypeInv, TimeInv, [Next]_vars PROVE TimeInv'
    OBVIOUS
  <2>1. ASSUME NEW p \in Procs, Request(p) PROVE TimeInv'
    BY <2>1, RequestKeepsTime
  <2>2. ASSUME NEW p \in Procs, WriteStore(p) PROVE TimeInv'
    BY <2>2, WriteStoreKeepsTime
  <2>3. ASSUME NEW p \in Procs, WriteClock(p) PROVE TimeInv'
    BY <2>3, WriteClockKeepsTime
  <2>4. ASSUME NEW p \in Procs, Emit(p) PROVE TimeInv'
    BY <2>4, EmitKeepsTime
  <2>5. ASSUME NEW p \in Procs, Failure(p) PROVE TimeInv'
    <3>1. Die(p)
      BY <2>5 DEF Failure, StoreWriteFails, ClockWriteFails, Kill
    <3>2. \A q \in Procs : pc'[q] = "idle" \/ (pc'[q] = pc[q] /\ job'[q] = job[q])
      BY <3>1 DEF Die, TypeInv, TypeOK
    <3> QED BY <3>1, <3>2, RestKeepsTime DEF Die, files
  <2>6. CASE DamageStore
    <3>1. /\ \A p \in Procs : pc'[p] = "idle"
          /\ Live(store)' = {} /\ UNCHANGED <<ledger, last_seen>>
      BY <2>6 DEF DamageStore, CorruptStore, EmptyStore, Live
    <3> QED BY <3>1 DEF TimeInv, InTime, ReportedSweepIsFinal
  <2>7. CASE DamageClock
    BY <2>7, RestKeepsTime DEF DamageClock, observers
  <2>8. CASE UNCHANGED vars
    BY <2>8, RestKeepsTime DEF vars
  <2> QED BY <2>1, <2>2, <2>3, <2>4, <2>5, <2>6, <2>7, <2>8 DEF Next, Progress
<1> QED BY <1>1, <1>2, TypeCorrect, PTL DEF Spec

(* A reported sweep is final: whatever the wall clock reads afterwards, no *)
(* live 7d grant ends at or before a time a sweep was reported for, for    *)
(* any number of requests, kills, failed writes and rolled-back clocks.    *)
THEOREM SweepsAreFinal == ASSUME OneCaller PROVE Spec => []ReportedSweepIsFinal
<1>1. TimeInv => ReportedSweepIsFinal
  BY DEF TimeInv
<1> QED BY <1>1, TimeInvariant, PTL

(* The abstract store's operations are the core's.                         *)
LEMMA SameCore ==
    ASSUME NEW s
    PROVE  /\ \A i, c, st : Overlay!SetDefault(s, i, c, st) = SetDefault(s, i, c, st)
           /\ \A i, d, c, sc, ses, now :
                 Overlay!GrantTemp(s, i, d, c, sc, ses, now) = GrantTemp(s, i, d, c, sc, ses, now)
           /\ \A i, b : Overlay!SetDenied(s, i, b) = SetDenied(s, i, b)
           /\ \A id : Overlay!ConsumeOnce(s, id) = ConsumeOnce(s, id)
           /\ \A now, ses : Overlay!SweepExpired(s, now, ses) = SweepExpired(s, now, ses)
           /\ \A i, d : Overlay!RevokeSite(s, i, d) = RevokeSite(s, i, d)
           /\ \A i : Overlay!RevokeAll(s, i) = RevokeAll(s, i)
<1> USE DEF Refuse, Overlay!Refuse, Accept, Overlay!Accept, Live, Overlay!Live,
            GrantRow, Overlay!GrantRow, IdentityRow, Overlay!IdentityRow
<1>1. \A i, c, st : Overlay!SetDefault(s, i, c, st) = SetDefault(s, i, c, st)
  BY DEF SetDefault, Overlay!SetDefault
<1>2. \A i, d, c, sc, ses, now :
         Overlay!GrantTemp(s, i, d, c, sc, ses, now) = GrantTemp(s, i, d, c, sc, ses, now)
  BY DEF GrantTemp, Overlay!GrantTemp, NewGrant, Overlay!NewGrant, NextFreeId, Overlay!NextFreeId,
         IsNextFreeId, Overlay!IsNextFreeId, IdTaken, Overlay!IdTaken
<1>3. \A i, b : Overlay!SetDenied(s, i, b) = SetDenied(s, i, b)
  BY DEF SetDenied, Overlay!SetDenied
<1>4. \A id : Overlay!ConsumeOnce(s, id) = ConsumeOnce(s, id)
  BY DEF ConsumeOnce, Overlay!ConsumeOnce
<1>5. \A now, ses : Overlay!SweepExpired(s, now, ses) = SweepExpired(s, now, ses)
  BY DEF SweepExpired, Overlay!SweepExpired, Ended, Overlay!Ended
<1>6. \A i, d : Overlay!RevokeSite(s, i, d) = RevokeSite(s, i, d)
  BY DEF RevokeSite, Overlay!RevokeSite, RevokeGrants, Overlay!RevokeGrants, Tombstone, Overlay!Tombstone
<1>7. \A i : Overlay!RevokeAll(s, i) = RevokeAll(s, i)
  BY DEF RevokeAll, Overlay!RevokeAll, RevokeGrants, Overlay!RevokeGrants, Tombstone, Overlay!Tombstone,
         NoDefault, Overlay!NoDefault
<1> QED BY <1>1, <1>2, <1>3, <1>4, <1>5, <1>6, <1>7

(* A whole change asked of the store that is there, at a time the mark has *)
(* not passed, is a step of the abstract store.                            *)
LEMMA RequestedIsStep ==
    ASSUME NEW now \in Times, NEW swept \in BOOLEAN, NEW o,
           Requested(store, now, swept, o), o.ok, store' = o.store,
           store' # store, now >= last_seen, UNCHANGED <<last_seen, damaged>>
    PROVE  Overlay!Step
<1> USE SameCore DEF Overlay!Step, Overlay!Operation, Overlay!NowOrLater,
            CapStates, Overlay!CapStates, Scopes, Overlay!Scopes
<1>1. CASE \E i \in Identities, c \in Capabilities, st \in CapStates :
             o = SetDefault(store, i, c, st)
  BY <1>1
<1>2. CASE \E i \in Identities, d \in Domains, c \in Capabilities, sc \in Scopes,
             ses \in Sessions \cup {NoSession} :
             o = GrantTemp(store, i, d, c, sc, ses, now)
  BY <1>2
<1>3. CASE \E i \in Identities, b \in BOOLEAN : o = SetDenied(store, i, b)
  BY <1>3
<1>4. CASE \E id \in GrantIds : o = ConsumeOnce(store, id)
  BY <1>4
<1>5. CASE \E i \in Identities, d \in Domains : o = RevokeSite(store, i, d)
  BY <1>5
<1>6. CASE \E i \in Identities : o = RevokeAll(store, i)
  BY <1>6
<1>7. CASE \E ses \in Sessions \cup {NoSession} : o = SweepExpired(store, now, ses)
  BY <1>7
<1> QED BY <1>1, <1>2, <1>3, <1>4, <1>5, <1>6, <1>7 DEF Requested

(* The host implements the abstract store: the store file goes from one    *)
(* whole generation to the next by one operation of the core on the        *)
(* generation that is there, at a time no earlier than any the clock file  *)
(* has recorded, whatever dies or fails in between.                        *)
THEOREM HostImplementsOverlay == ASSUME OneCaller PROVE Spec => ImplementsOverlay
<1>1. Init => Overlay!OverlayInit
  BY DEF Init, Overlay!OverlayInit, EmptyStore, Overlay!EmptyStore, NoDefault, Overlay!NoDefault
<1>2. TypeInv /\ TimeInv /\ [Next]_vars => [Overlay!OverlayNext]_(Overlay!overlayVars)
  <2> SUFFICES ASSUME TypeInv, TimeInv, [Next]_vars
               PROVE  Overlay!OverlayNext \/ UNCHANGED <<store, last_seen, damaged>>
    BY DEF Overlay!overlayVars
  <2>1. ASSUME NEW p \in Procs, Request(p) PROVE UNCHANGED <<store, last_seen, damaged>>
    BY <2>1, RequestApplies DEF Apply, files, observers, TypeInv, TypeOK
  <2>2. ASSUME NEW p \in Procs, WriteStore(p) PROVE Overlay!Step
    <3>1. job[p].now \in Times /\ job[p].swept \in BOOLEAN
      BY DEF TypeInv, TypeOK, Job
    <3>2. store' = job[p].store /\ UNCHANGED <<last_seen, damaged>> /\ pc[p] = "write_store"
      BY <2>2 DEF WriteStore, observers
    <3>3. /\ job[p].now >= last_seen /\ job[p].store # store
          /\ \E o : Requested(store, job[p].now, job[p].swept, o) /\ o.ok /\ o.store = job[p].store
      BY <3>2 DEF TimeInv, InTime
    <3> QED BY <3>1, <3>2, <3>3, RequestedIsStep
  <2>3. ASSUME NEW p \in Procs, WriteClock(p) PROVE Overlay!Tick
    BY <2>3 DEF WriteClock, TimeInv, InTime, observers, Overlay!Tick
  <2>4. ASSUME NEW p \in Procs, Emit(p) \/ Failure(p)
        PROVE  UNCHANGED <<store, last_seen, damaged>>
    BY <2>4 DEF Emit, Failure, StoreWriteFails, ClockWriteFails, Kill, Die, files
  <2>5. CASE DamageStore
    BY <2>5 DEF DamageStore, Overlay!OverlayNext, Overlay!Damage, CorruptStore,
                Overlay!CorruptStore, EmptyStore, Overlay!EmptyStore, NoDefault, Overlay!NoDefault
  <2>6. CASE DamageClock \/ UNCHANGED vars
    BY <2>6 DEF DamageClock, observers, vars
  <2> QED BY <2>1, <2>2, <2>3, <2>4, <2>5, <2>6 DEF Next, Progress, Overlay!OverlayNext
<1> QED BY <1>1, <1>2, TypeCorrect, TimeInvariant, PTL
        DEF Spec, ImplementsOverlay, Overlay!OverlaySpec

----------------------------------------------------------------------------
(* Answers.                                                                *)

NamedIn(rows, i, c) == \E r \in rows : r.identity = i /\ r.capability = c

(* Stores s and t hold the same about identity i and capability c.         *)
SameFor(s, t, i, c) ==
    /\ t.defaults[i][c] = s.defaults[i][c]
    /\ i \in t.denied <=> i \in s.denied
    /\ \A g : (g.identity = i /\ g.capability = c) =>
                  (g \in Live(t) <=> g \in Live(s))

(* Live grants that leave the store, or become tombstones, are named.      *)
GoneFrom(s, t, hit) ==
    /\ \/ t.grants = s.grants \ hit
       \/ t.grants = RevokeGrants(s.grants, hit)
    /\ t.denied = s.denied
AllNamed(e, hit, rows) == \A g \in hit : GrantRow(e, g) \in rows
LEMMA GoneAreNamed ==
    ASSUME NEW s, GoodStore(s), NEW t, NEW rows, NEW e, NEW hit \in SUBSET Live(s),
           GoneFrom(s, t, hit), AllNamed(e, hit, rows),
           NEW i \in Identities, NEW c \in Capabilities,
           t.defaults[i][c] = s.defaults[i][c] \/ NamedIn(rows, i, c)
    PROVE  SameFor(s, t, i, c) \/ NamedIn(rows, i, c)
<1> SUFFICES ASSUME ~NamedIn(rows, i, c) PROVE SameFor(s, t, i, c)
  OBVIOUS
<1>1. \A g \in hit : g \in StoredGrant
  BY DEF GoodStore, Store, Live
<1>2. \A g \in hit : Tombstone(g).revoked
  BY <1>1 DEF Tombstone, StoredGrant
<1>3. \A g \in hit : ~(g.identity = i /\ g.capability = c)
  <2> SUFFICES ASSUME NEW g \in hit PROVE ~(g.identity = i /\ g.capability = c)
    OBVIOUS
  <2>1. GrantRow(e, g) \in rows
    BY DEF AllNamed
  <2>2. GrantRow(e, g).identity = g.identity /\ GrantRow(e, g).capability = g.capability
    BY DEF GrantRow
  <2> QED BY <2>1, <2>2 DEF NamedIn
<1>4. \A g : (g.identity = i /\ g.capability = c) => (g \in Live(t) <=> g \in Live(s))
  BY <1>2, <1>3 DEF Live, RevokeGrants, GoneFrom
<1> QED BY <1>4 DEF SameFor, GoneFrom

(* Whatever a request asks, what it changes about an identity and a        *)
(* capability is named in its rows.                                        *)
LEMMA ChangeIsNamed ==
    ASSUME NEW s, GoodStore(s), NEW now \in Times, NEW swept \in BOOLEAN, NEW o,
           Requested(s, now, swept, o), o.ok,
           NEW i \in Identities, NEW c \in Capabilities
    PROVE  SameFor(s, o.store, i, c) \/ NamedIn(o.rows, i, c)
<1>0. SameFor(s, s, i, c)
  BY DEF SameFor
<1>1. CASE \E j \in Identities, d \in Capabilities, st \in CapStates :
             o = SetDefault(s, j, d, st)
  <2>1. PICK j \in Identities, d \in Capabilities, st \in CapStates :
          o = SetDefault(s, j, d, st)
    BY <1>1
  <2>2. ~s.corrupt
    BY <2>1 DEF SetDefault, Refuse
  <2>3. CASE s.defaults[j][d] = st
    BY <1>0, <2>1, <2>2, <2>3 DEF SetDefault, Accept
  <2>4. CASE s.defaults[j][d] # st
    <3> DEFINE r == IdentityRow(IF st = "kAllow" THEN "grant" ELSE "revoke", j, d, "identity_default")
               t == [s EXCEPT !.defaults[j][d] = st]
    <3>1. o.store = t /\ r \in o.rows
      BY <2>1, <2>2, <2>4 DEF SetDefault, Accept
    <3>2. t.grants = s.grants /\ t.denied = s.denied /\ t.defaults = [s.defaults EXCEPT ![j][d] = st]
      BY DEF GoodStore, Store
    <3>3. r.identity = j /\ r.capability = d
      BY DEF IdentityRow
    <3>4. CASE i = j /\ c = d
      BY <3>1, <3>3, <3>4 DEF NamedIn
    <3>5. CASE ~(i = j /\ c = d)
      <4>1. t.defaults[i][c] = s.defaults[i][c]
        BY <3>2, <3>5 DEF GoodStore, Store
      <4> QED BY <3>1, <3>2, <4>1 DEF SameFor, Live
    <3> QED BY <3>4, <3>5
  <2> QED BY <2>3, <2>4
<1>2. CASE \E j \in Identities, d \in Domains, k \in Capabilities, sc \in Scopes,
             ses \in Sessions \cup {NoSession} :
             o = GrantTemp(s, j, d, k, sc, ses, now)
  <2>1. PICK j \in Identities, d \in Domains, k \in Capabilities, sc \in Scopes,
             ses \in Sessions \cup {NoSession} :
          o = GrantTemp(s, j, d, k, sc, ses, now)
    BY <1>2
  <2> DEFINE g == NewGrant(s, j, d, k, sc, ses, now)
             t == [s EXCEPT !.next_seq = g.id + 1, !.grants = @ \cup {g}]
  <2>2. o.store = t /\ GrantRow("grant", g) \in o.rows
    BY <2>1 DEF GrantTemp, Refuse, Accept
  <2>3. g.identity = j /\ g.capability = k
    BY DEF NewGrant
  <2> HIDE DEF g
  <2>4. t.grants = s.grants \cup {g} /\ t.denied = s.denied /\ t.defaults = s.defaults
    BY DEF GoodStore, Store
  <2>5. GrantRow("grant", g).identity = g.identity /\ GrantRow("grant", g).capability = g.capability
    BY DEF GrantRow
  <2> HIDE DEF t
  <2>6. CASE i = j /\ c = k
    BY <2>2, <2>3, <2>5, <2>6 DEF NamedIn
  <2>7. CASE ~(i = j /\ c = k)
    BY <2>2, <2>3, <2>4, <2>7 DEF SameFor, Live
  <2> QED BY <2>6, <2>7
<1>3. CASE \E j \in Identities, b \in BOOLEAN : o = SetDenied(s, j, b)
  <2>1. PICK j \in Identities, b \in BOOLEAN : o = SetDenied(s, j, b)
    BY <1>3
  <2>2. ~s.corrupt
    BY <2>1 DEF SetDenied, Refuse
  <2>3. CASE (j \in s.denied) = b
    BY <1>0, <2>1, <2>2, <2>3 DEF SetDenied, Accept
  <2>4. CASE (j \in s.denied) # b
    <3> DEFINE r == IdentityRow(IF b THEN "revoke" ELSE "grant", j, c, "identity_deny_list")
               t == [s EXCEPT !.denied = IF b THEN @ \cup {j} ELSE @ \ {j}]
    <3>1. o.store = t /\ r \in o.rows
      BY <2>1, <2>2, <2>4 DEF SetDenied, Accept
    <3>2. t.grants = s.grants /\ t.defaults = s.defaults
          /\ t.denied = (IF b THEN s.denied \cup {j} ELSE s.denied \ {j})
      BY DEF GoodStore, Store
    <3>3. r.identity = j /\ r.capability = c
      BY DEF IdentityRow
    <3> HIDE DEF r, t
    <3>4. CASE i = j
      BY <3>1, <3>3, <3>4 DEF NamedIn
    <3>5. CASE i # j
      BY <3>1, <3>2, <3>5 DEF SameFor, Live
    <3> QED BY <3>4, <3>5
  <2> QED BY <2>3, <2>4
<1>4. CASE \E id \in GrantIds : o = ConsumeOnce(s, id)
  <2>1. PICK id \in GrantIds : o = ConsumeOnce(s, id)
    BY <1>4
  <2> DEFINE hit == {g \in Live(s) : g.id = id /\ g.scope = "once" /\ g.remaining_uses > 0}
  <2>2. o = Accept([s EXCEPT !.grants = @ \ hit], {GrantRow("expiry", g) : g \in hit})
    BY <2>1 DEF ConsumeOnce, Refuse
  <2>3. hit \in SUBSET Live(s)
    OBVIOUS
  <2> HIDE DEF hit
  <2>4. /\ o.store.grants = s.grants \ hit /\ o.store.denied = s.denied
        /\ o.store.defaults = s.defaults
        /\ o.rows = {GrantRow("expiry", g) : g \in hit}
    BY <2>2 DEF Accept, GoodStore, Store
  <2>5. GoneFrom(s, o.store, hit) /\ o.store.defaults[i][c] = s.defaults[i][c]
    BY <2>4 DEF GoneFrom
  <2>6. AllNamed("expiry", hit, o.rows)
    BY <2>4 DEF AllNamed
  <2> QED BY <2>3, <2>5, <2>6, GoneAreNamed
<1>5. CASE \E j \in Identities, d \in Domains : o = RevokeSite(s, j, d)
  <2>1. PICK j \in Identities, d \in Domains : o = RevokeSite(s, j, d)
    BY <1>5
  <2> DEFINE hit == {g \in Live(s) : g.identity = j /\ g.domain = d}
  <2>2. o = Accept([s EXCEPT !.grants = RevokeGrants(@, hit)], {GrantRow("revoke", g) : g \in hit})
    BY <2>1 DEF RevokeSite, Refuse
  <2>3. hit \in SUBSET Live(s)
    OBVIOUS
  <2> HIDE DEF hit
  <2>4. /\ o.store.grants = RevokeGrants(s.grants, hit) /\ o.store.denied = s.denied
        /\ o.store.defaults = s.defaults
        /\ o.rows = {GrantRow("revoke", g) : g \in hit}
    BY <2>2 DEF Accept, GoodStore, Store
  <2>5. GoneFrom(s, o.store, hit) /\ o.store.defaults[i][c] = s.defaults[i][c]
    BY <2>4 DEF GoneFrom
  <2>6. AllNamed("revoke", hit, o.rows)
    BY <2>4 DEF AllNamed
  <2> QED BY <2>3, <2>5, <2>6, GoneAreNamed
<1>6. CASE \E j \in Identities : o = RevokeAll(s, j)
  <2>1. PICK j \in Identities : o = RevokeAll(s, j)
    BY <1>6
  <2> DEFINE hit == {g \in Live(s) : g.identity = j}
             set == {k \in Capabilities : s.defaults[j][k] # NoDefault}
             none == [k \in Capabilities |-> NoDefault]
             drows == {IdentityRow("revoke", j, k, "identity_default") : k \in set}
  <2>2. o = Accept([s EXCEPT !.grants = RevokeGrants(@, hit), !.defaults[j] = none],
                   drows \cup {GrantRow("revoke", g) : g \in hit})
    BY <2>1 DEF RevokeAll, Refuse
  <2>3. hit \in SUBSET Live(s)
    OBVIOUS
  <2>4. s.defaults[i][c] = none[c] \/ i # j \/ NamedIn(drows, i, c)
    <3> SUFFICES ASSUME s.defaults[i][c] # NoDefault, i = j PROVE NamedIn(drows, i, c)
      OBVIOUS
    <3>1. IdentityRow("revoke", j, c, "identity_default") \in drows
      OBVIOUS
    <3>2. LET r == IdentityRow("revoke", j, c, "identity_default")
          IN  r.identity = i /\ r.capability = c
      BY DEF IdentityRow
    <3> QED BY <3>1, <3>2 DEF NamedIn
  <2> HIDE DEF hit, drows
  <2>5. /\ o.store.grants = RevokeGrants(s.grants, hit) /\ o.store.denied = s.denied
        /\ o.store.defaults = [s.defaults EXCEPT ![j] = none]
        /\ o.rows = drows \cup {GrantRow("revoke", g) : g \in hit}
    BY <2>2 DEF Accept, GoodStore, Store
  <2>6. o.store.defaults[i][c] = IF i = j THEN none[c] ELSE s.defaults[i][c]
    BY <2>5 DEF GoodStore, Store
  <2> HIDE DEF none
  <2>7. o.store.defaults[i][c] = s.defaults[i][c] \/ NamedIn(o.rows, i, c)
    BY <2>4, <2>5, <2>6 DEF NamedIn
  <2>8. GoneFrom(s, o.store, hit)
    BY <2>5 DEF GoneFrom
  <2>9. AllNamed("revoke", hit, o.rows)
    BY <2>5 DEF AllNamed
  <2> QED BY <2>3, <2>7, <2>8, <2>9, GoneAreNamed
<1>7. CASE \E ses \in Sessions \cup {NoSession} : o = SweepExpired(s, now, ses)
  <2>1. PICK ses \in Sessions \cup {NoSession} : o = SweepExpired(s, now, ses)
    BY <1>7
  <2> DEFINE hit == {g \in s.grants : Ended(g, now, ses)}
  <2>2. o = Accept([s EXCEPT !.grants = @ \ hit], {GrantRow("expiry", g) : g \in hit})
    BY <2>1 DEF SweepExpired, Refuse
  <2>3. hit \in SUBSET Live(s)
    BY DEF Ended, Live
  <2> HIDE DEF hit
  <2>4. /\ o.store.grants = s.grants \ hit /\ o.store.denied = s.denied
        /\ o.store.defaults = s.defaults
        /\ o.rows = {GrantRow("expiry", g) : g \in hit}
    BY <2>2 DEF Accept, GoodStore, Store
  <2>5. GoneFrom(s, o.store, hit) /\ o.store.defaults[i][c] = s.defaults[i][c]
    BY <2>4 DEF GoneFrom
  <2>6. AllNamed("expiry", hit, o.rows)
    BY <2>4 DEF AllNamed
  <2> QED BY <2>3, <2>5, <2>6, GoneAreNamed
<1> QED BY <1>1, <1>2, <1>3, <1>4, <1>5, <1>6, <1>7 DEF Requested

(* The resolver's answer for an identity and a capability depends on what  *)
(* the store holds about them and on nothing else.                         *)
LEMMA SameAnswer ==
    ASSUME NEW s, NEW t, ~s.corrupt, ~t.corrupt, NEW i, NEW c, SameFor(s, t, i, c),
           NEW d, NEW ses, NEW now
    PROVE  OverlayDecision(ProjectView(t), i, d, c, ses, now, "kAsk")
               = OverlayDecision(ProjectView(s), i, d, c, ses, now, "kAsk")
<1> DEFINE Given(x) == \E g \in ProjectView(x).grants :
                          /\ g.identity = i /\ g.domain = d /\ g.capability = c
                          /\ OverlayGrantActive(g, ses, now)
<1>1. Given(s) <=> Given(t)
  BY DEF ProjectView, SameFor
<1> HIDE DEF Given
<1>2. \A x : ~x.corrupt =>
         OverlayDecision(ProjectView(x), i, d, c, ses, now, "kAsk") =
             IF i \in x.denied THEN "kDeny"
             ELSE IF Given(x) THEN "kAllow"
             ELSE IF x.defaults[i][c] # NoDefault THEN x.defaults[i][c] ELSE "kAsk"
  BY DEF OverlayDecision, ProjectView, Given
<1> QED BY <1>1, <1>2 DEF SameFor

(* Every change of an answer is announced: a write changes the resolver's  *)
(* answer for an identity and a capability only if its rows name them, and *)
(* no operation reaches another identity.                                  *)
THEOREM ChangesAreAnnounced == ASSUME OneCaller PROVE Spec => ChangedAnswersAreNamed
<1> DEFINE A == store' # store /\ ~store'.corrupt =>
                  \A i \in Identities, c \in Capabilities : AnswerChanges(i, c) => NamedInRows(i, c)
<1>1. TypeInv /\ TimeInv /\ [Next]_vars => [A]_store
  <2> SUFFICES ASSUME TypeInv, TimeInv, Next, store' # store, ~store'.corrupt,
                      NEW i \in Identities, NEW c \in Capabilities, ~NamedInRows(i, c)
               PROVE  ~AnswerChanges(i, c)
    BY DEF vars
  <2>1. PICK p \in Procs : WriteStore(p)
    <3>1. ASSUME NEW p \in Procs, Request(p) PROVE store' = store
      BY <3>1, RequestApplies DEF Apply, files, TypeInv, TypeOK
    <3>2. ASSUME NEW p \in Procs, WriteClock(p) \/ Emit(p) \/ Failure(p) PROVE store' = store
      BY <3>2 DEF WriteClock, Emit, Failure, StoreWriteFails, ClockWriteFails, Kill, Die, files
    <3>3. ~DamageStore /\ ~DamageClock
      BY DEF DamageStore, DamageClock, CorruptStore, EmptyStore
    <3> QED BY <3>1, <3>2, <3>3 DEF Next, Progress
  <2>2. pc[p] = "write_store" /\ store' = job[p].store
    BY <2>1 DEF WriteStore
  <2>3. job[p].now \in Times /\ job[p].swept \in BOOLEAN
    BY DEF TypeInv, TypeOK, Job
  <2>4. PICK o : /\ Requested(store, job[p].now, job[p].swept, o) /\ o.ok
                 /\ o.store = job[p].store /\ o.rows = job[p].rows
    BY <2>2 DEF TimeInv, InTime
  <2>5. ~store.corrupt
    BY <2>3, <2>4, RequestExplained DEF TypeInv
  <2>6. SameFor(store, o.store, i, c) \/ NamedIn(o.rows, i, c)
    BY <2>3, <2>4, ChangeIsNamed DEF TypeInv
  <2>7. ~NamedIn(o.rows, i, c)
    BY <2>2, <2>4 DEF NamedInRows, NamedIn
  <2>8. SameFor(store, o.store, i, c) /\ ~o.store.corrupt
    BY <2>2, <2>4, <2>6, <2>7
  <2>9. \A d, ses, t : OverlayDecision(ProjectView(o.store), i, d, c, ses, t, "kAsk")
                           = OverlayDecision(ProjectView(store), i, d, c, ses, t, "kAsk")
    BY <2>5, <2>8, SameAnswer
  <2>10. store' = o.store
    BY <2>2, <2>4
  <2>11. ASSUME NEW d, NEW ses, NEW t
         PROVE  Decision(i, d, c, ses, t)' = Decision(i, d, c, ses, t)
    <3>1. Decision(i, d, c, ses, t) = OverlayDecision(ProjectView(store), i, d, c, ses, t, "kAsk")
      BY DEF Decision
    <3>2. Decision(i, d, c, ses, t)' = OverlayDecision(ProjectView(store'), i, d, c, ses, t, "kAsk")
      BY DEF Decision, OverlayDecision, OverlayGrantActive, ProjectView, Live, NoDefault
    <3> QED BY <2>9, <2>10, <3>1, <3>2
  <2> QED BY <2>11 DEF AnswerChanges
<1> QED BY <1>1, TypeCorrect, TimeInvariant, PTL DEF Spec, ChangedAnswersAreNamed

=============================================================================
