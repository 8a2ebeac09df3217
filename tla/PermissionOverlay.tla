------------------------- MODULE PermissionOverlay -------------------------
(***************************************************************************)
(* What the permissions host promises about its store file: the file only  *)
(* ever goes from one whole generation to the next, by one operation of    *)
(* the core applied to the generation that is there, at a time no earlier  *)
(* than any time the clock file has recorded.  Audit rows, processes,      *)
(* crashes and failed writes are not visible at this level.                *)
(***************************************************************************)
EXTENDS PermissionOps

VARIABLES
    store,      \* the store file, as LoadStore reads it
    last_seen,  \* the clock file: the high-water mark
    damaged     \* something outside the program damaged the store file

overlayVars == <<store, last_seen, damaged>>

(* One core operation, applied to the current generation.                  *)
Operation(o) == o.ok /\ store' = o.store

NowOrLater == {t \in Times : t >= last_seen}

Step ==
    /\ store' # store      \* an idempotent operation is a stutter
    /\ \/ \E i \in Identities, c \in Capabilities, s \in CapStates :
             Operation(SetDefault(store, i, c, s))
       \/ \E i \in Identities, d \in Domains, c \in Capabilities, s \in Scopes,
             ses \in Sessions \cup {NoSession}, now \in NowOrLater :
             Operation(GrantTemp(store, i, d, c, s, ses, now))
       \/ \E i \in Identities, b \in BOOLEAN : Operation(SetDenied(store, i, b))
       \/ \E id \in GrantIds : Operation(ConsumeOnce(store, id))
       \/ \E ses \in Sessions \cup {NoSession}, now \in NowOrLater :
             Operation(SweepExpired(store, now, ses))
       \/ \E i \in Identities, d \in Domains : Operation(RevokeSite(store, i, d))
       \/ \E i \in Identities : Operation(RevokeAll(store, i))
    /\ UNCHANGED <<last_seen, damaged>>

(* The high-water mark moves forward.                                      *)
Tick == last_seen' > last_seen /\ UNCHANGED <<store, damaged>>

(* Only something outside the program makes the file unreadable.           *)
Damage == store' = CorruptStore /\ damaged' = TRUE /\ UNCHANGED last_seen

OverlayInit == store = EmptyStore /\ last_seen = 0 /\ damaged = FALSE
OverlayNext == Tick \/ Damage \/ Step
OverlaySpec == OverlayInit /\ [][OverlayNext]_overlayVars
=============================================================================
