------------------------------ MODULE MCServing ------------------------------
(***************************************************************************)
(* The components that answer callers, checked side by side.  They share   *)
(* no state, so a behaviour belongs to one of them: part is chosen at the  *)
(* start, its component runs and the others stay in their initial state.   *)
(* A property of a component holds of the others' behaviours because it    *)
(* holds in the initial state, and says nothing there.                     *)
(***************************************************************************)
EXTENDS ApprovalReview, AuditChain, BearerAccess, ForgottenWatch, Recall, RequestDoor,
        StatsWalk, WriteGate

CONSTANTS
    t1, t2, t3,                  \* bearers
    all, d1, d2, d3, d4, d5,     \* a scope, and drawers in the store's listing
    r1, r2, r3, r4, r5,          \* drawers that are searched
    k1, k2,                      \* search texts
    own, other, room,            \* wings and a room
    tenant, stranger             \* tenants

VARIABLE part

-----------------------------------------------------------------------------
(* Values of the components' constants *)

MCBearing == t1 :> "owner" @@ t2 :> "other" @@ t3 :> "unknown"

MCFirstListing == <<d1, d2, d3>>
MCSees == all :> {d1, d2, d3, d4}

\* r1 and r2 say the same at different times, r3 much the same of unknown
\* date, r4 is another tenant's, and r5 lies in a denied room.
MCFirstMarks == [r \in {r1, r2, r3, r4, r5} |-> IF r = r3 THEN {} ELSE {"active"}]
MCRelevance == k1 :> (r1 :> 5 @@ r2 :> 4 @@ r3 :> 3 @@ r4 :> 6 @@ r5 :> 2)
            @@ k2 :> (r1 :> 1 @@ r2 :> 2 @@ r3 :> 4 @@ r4 :> 0 @@ r5 :> 7)
MCEpoch == r1 :> 1 @@ r2 :> 2 @@ r3 :> Undated @@ r4 :> 3 @@ r5 :> 2
MCAlike == {<<r1, r2>>, <<r2, r1>>, <<r2, r3>>, <<r3, r2>>}
MCPathOf == r1 :> <<own, room>> @@ r2 :> <<own, room>> @@ r3 :> <<other, room>>
         @@ r4 :> <<own, room>> @@ r5 :> <<own, "private">>
MCTenantOf == [r \in {r1, r2, r3, r4, r5} |-> IF r = r4 THEN stranger ELSE tenant]
MCReadAllowlist == {<<own, Star>>, <<other, room>>}
MCDeny == {<<Star, "private">>}
MCWingBoost == own :> 10 @@ other :> 30

-----------------------------------------------------------------------------
Parts == {"access", "chain", "door", "read", "review", "stats", "watch", "write"}

Init ==
    /\ part \in Parts
    /\ AccessInit /\ ChainInit /\ DoorInit /\ ReadInit /\ ReviewInit /\ StatsInit
    /\ WatchInit /\ WriteInit

Next ==
    /\ UNCHANGED part
    /\ IF part = "access" THEN AccessNext ELSE UNCHANGED accessVars
    /\ IF part = "chain" THEN ChainNext ELSE UNCHANGED chainVars
    /\ IF part = "door" THEN DoorNext ELSE UNCHANGED doorVars
    /\ IF part = "read" THEN ReadNext ELSE UNCHANGED readVars
    /\ IF part = "review" THEN ReviewNext ELSE UNCHANGED reviewVars
    /\ IF part = "stats" THEN StatsNext ELSE UNCHANGED statVars
    /\ IF part = "watch" THEN WatchNext ELSE UNCHANGED watchVars
    /\ IF part = "write" THEN WriteNext ELSE UNCHANGED writeVars

vars == <<part, accessVars, chainVars, doorVars, readVars, reviewVars, statVars,
          watchVars, writeVars>>

\* The fairness of the components' own specifications
Fairness ==
    /\ WF_doorVars(part = "door" /\ StartThread)
    /\ \A q \in Asks : WF_doorVars(part = "door" /\ ThreadReturns(q))
    /\ WF_reviewVars(part = "review" /\ WaitPasses)
    /\ WF_reviewVars(part = "review" /\ Resurface)
    /\ \A p \in Patrols :
         /\ WF_watchVars(part = "watch" /\ PatrolStep(p))
         /\ SF_watchVars(part = "watch" /\ DetectForgotten(p, TRUE))

Spec == Init /\ [][Next]_vars /\ Fairness

-----------------------------------------------------------------------------
\* Every variable of the eight components stays in its domain.
ServingTypeOK ==
    /\ part \in Parts
    /\ AccessTypeOK /\ ChainTypeOK /\ DoorTypeOK /\ ReadTypeOK
    /\ ReviewTypeOK /\ StatsTypeOK /\ WatchTypeOK /\ WriteTypeOK

=============================================================================
