----------------------------- MODULE BearerAccess -----------------------------
(***************************************************************************)
(* Bearer tokens and break-glass elevation of one box: the token table     *)
(* (http/tokens.py), the authentication of a request (http/auth.py), the   *)
(* elevation of the root operator (break_glass.py and its route) and the   *)
(* way a routed operation uses it (client.py).  A token outlives the       *)
(* process, an elevation lives in its memory: the token of an elevation is *)
(* an ordinary root token to the next process.                             *)
(***************************************************************************)
EXTENDS Naturals, FiniteSets

CONSTANTS
    Bearers,        \* labels an operator mints under
    SuccessorLabels, \* labels a rotation mints under
    Elevations,     \* labels of break-glass tokens
    Threads,        \* requests served at a time
    Ttl, Grace,     \* lifetime of an elevation, grace of a rotation
    Never,          \* a time that does not come
    MaxHours, MaxOutages    \* bounds: the clock, failures and crashes

ASSUME AccessAssumption ==
    /\ Ttl \in Nat \ {0} /\ Grace \in Nat /\ MaxHours \in Nat /\ MaxOutages \in Nat
    /\ Never \in Nat /\ Never > MaxHours + Ttl + Grace
    /\ Elevations \cap (Bearers \cup SuccessorLabels) = {}
    /\ "nobody" \notin Bearers \cup SuccessorLabels \cup Elevations

VARIABLES
    token,      \* the token table: [labels -> row], or NoToken
    hour,       \* the time
    elevated,   \* [Elevations -> expiry of the elevated principal] of this process
    thread,     \* [Threads -> record]: the request each thread serves
    rotation,   \* the rotation an operator has begun
    audited,    \* records of the audit log: openings, closings, operations
    crossed,    \* the last cross-tenant operation under each elevation, unless it
                \* was interrupted or answered with an error
    outages,
    \* For the properties:
    cut,        \* labels whose revocation was reported
    overtaken   \* those whose last revocation fell between the read of a rotation
                \* of the label and its stamp

accessVars == <<token, hour, elevated, thread, rotation, audited, crossed, cut, overtaken, outages>>

Labels == Bearers \cup SuccessorLabels \cup Elevations
NoToken == [revoked |-> 0, expires |-> 0]
IdleThread == [pc |-> "idle", label |-> "nobody", until |-> 0]
NoRotation == [pc |-> "none", label |-> "nobody"]

ThreadStages == {"idle", "routed", "client_audit", "route_audit", "mint"}

AccessTypeOK ==
    /\ token \in [Labels -> [revoked : Nat, expires : Nat]]
    /\ hour \in 1..(MaxHours + 1)
    /\ elevated \in [Elevations -> Nat]
    /\ thread \in [Threads -> [pc : ThreadStages, label : Labels \cup {"nobody"}, until : Nat]]
    /\ rotation \in [pc : {"none", "stamp", "mint"}, label : Labels \cup {"nobody"}]
    /\ audited \subseteq [op : {"open", "close", "operation"}, of : Elevations, at : Nat]
    /\ crossed \subseteq [of : Elevations, at : Nat]
    /\ outages \in 0..MaxOutages
    /\ cut \subseteq Labels /\ overtaken \subseteq cut

AccessInit ==
    /\ token = [l \in Labels |-> NoToken]
    /\ hour = 1
    /\ elevated = [e \in Elevations |-> 0]
    /\ thread = [t \in Threads |-> IdleThread]
    /\ rotation = NoRotation
    /\ audited = {} /\ crossed = {} /\ cut = {} /\ overtaken = {}
    /\ outages = 0

Minted(l) == token[l] # NoToken
AccessOutage == outages < MaxOutages /\ outages' = outages + 1

-----------------------------------------------------------------------------
(* The token table.                                                        *)

\* Labels are unique: a second mint of one fails.
MintBearer(l) ==
    /\ ~Minted(l)
    /\ token' = [token EXCEPT ![l] = [revoked |-> Never, expires |-> Never]]
    /\ UNCHANGED <<hour, elevated, thread, rotation, audited, crossed, cut, overtaken, outages>>

Overtakes(l) == rotation.pc = "stamp" /\ rotation.label = l

\* Mutant: the grace of an earlier rotation is left to run out.
RevokeUnstamped(l) ==
    /\ Minted(l)
    /\ token' = [token EXCEPT ![l].revoked = IF @ = Never THEN hour ELSE @]
    /\ cut' = cut \cup {l}
    /\ overtaken' = IF Overtakes(l) THEN overtaken \cup {l} ELSE overtaken \ {l}
    /\ UNCHANGED <<hour, elevated, thread, rotation, audited, crossed, outages>>

\* A revocation takes effect at once and never moves an earlier one.  A rotation
\* that has read the row before will stamp it again.
Revoke(l) ==
    /\ Minted(l)
    /\ token' = [token EXCEPT ![l].revoked = IF @ > hour THEN hour ELSE @]
    /\ cut' = cut \cup {l}
    /\ overtaken' = IF Overtakes(l) THEN overtaken \cup {l} ELSE overtaken \ {l}
    /\ UNCHANGED <<hour, elevated, thread, rotation, audited, crossed, outages>>

\* rotate() reads the row, stamps it without looking again, and mints the
\* successor in a transaction of its own.
RotateRead(l) ==
    /\ rotation = NoRotation
    /\ Minted(l) /\ token[l].revoked = Never
    /\ rotation' = [pc |-> "stamp", label |-> l]
    /\ UNCHANGED <<token, hour, elevated, thread, audited, crossed, cut, overtaken, outages>>

RotateStamp ==
    /\ rotation.pc = "stamp"
    /\ token' = [token EXCEPT ![rotation.label].revoked = hour + Grace]
    /\ rotation' = [rotation EXCEPT !.pc = "mint"]
    /\ UNCHANGED <<hour, elevated, thread, audited, crossed, cut, overtaken, outages>>

\* The successor has no expiry, whatever the old token had.
RotateMint ==
    /\ rotation.pc = "mint"
    /\ \E s \in SuccessorLabels :
        /\ ~Minted(s)
        /\ token' = [token EXCEPT ![s] = [revoked |-> Never, expires |-> Never]]
    /\ rotation' = NoRotation
    /\ UNCHANGED <<hour, elevated, thread, audited, crossed, cut, overtaken, outages>>

RotateDies ==
    /\ rotation # NoRotation /\ AccessOutage
    /\ rotation' = NoRotation
    /\ UNCHANGED <<token, hour, elevated, thread, audited, crossed, cut, overtaken>>

-----------------------------------------------------------------------------
(* A request.                                                              *)

ThreadAt(t, stage) == thread[t].pc = stage
ThreadGoes(t, stage) == thread' = [thread EXCEPT ![t].pc = stage]

\* resolve_bearer: revoked first, then expired.
ResolvesBearer(l) == Minted(l) /\ token[l].revoked > hour /\ token[l].expires > hour

\* A token that this process elevated stands for the elevated principal, and for
\* nobody once that has expired; any other token for its own principal.
Principal(l) == IF l \in Elevations THEN elevated[l] ELSE 0
Authenticates(l) == ResolvesBearer(l) /\ (Principal(l) # 0 => Principal(l) > hour)

Authenticate(t, l) ==
    /\ ThreadAt(t, "idle")
    /\ Authenticates(l)
    /\ thread' = [thread EXCEPT ![t] =
                    [pc |-> "routed", label |-> l, until |-> Principal(l)]]
    /\ UNCHANGED <<token, hour, elevated, rotation, audited, crossed, cut, overtaken, outages>>

\* The operation.  For an elevated principal its expiry is checked again
\* (_enforce_break_glass_ttl), and past it the operation is forbidden.
StillElevated(t) == thread[t].until > hour

IsElevated(t) == thread[t].until # 0

CrossedByOthers(l) == {c \in crossed : c.of # l}

Operate(t) ==
    /\ ThreadAt(t, "routed")
    /\ IF IsElevated(t) /\ StillElevated(t)
       THEN /\ crossed' = CrossedByOthers(thread[t].label)
                            \cup {[of |-> thread[t].label, at |-> hour]}
            /\ ThreadGoes(t, "client_audit")
       ELSE ThreadGoes(t, "route_audit") /\ UNCHANGED crossed
    /\ UNCHANGED <<token, hour, elevated, rotation, audited, cut, overtaken, outages>>

OperationRecord(l) == [op |-> "operation", of |-> l, at |-> 0]

\* _audit_if_cross_tenant: a principal that has expired by now is no longer
\* recorded by the client.  When the audit fails the route still has its own.
ClientAudit(t) ==
    /\ ThreadAt(t, "client_audit")
    /\ ThreadGoes(t, "route_audit")
    /\ \/ /\ audited' = IF StillElevated(t)
                       THEN audited \cup {OperationRecord(thread[t].label)} ELSE audited
          /\ UNCHANGED outages
       \/ StillElevated(t) /\ AccessOutage /\ UNCHANGED audited
    /\ UNCHANGED <<token, hour, elevated, rotation, crossed, cut, overtaken>>

\* audit_http of the route, after success, refusal and error alike: it names the
\* tenant of the principal.  When it fails the caller gets an error.
RouteAudit(t) ==
    /\ ThreadAt(t, "route_audit")
    /\ thread' = [thread EXCEPT ![t] = IdleThread]
    /\ \/ /\ audited' = IF IsElevated(t)
                       THEN audited \cup {OperationRecord(thread[t].label)} ELSE audited
          /\ UNCHANGED <<crossed, outages>>
       \/ /\ AccessOutage
          /\ crossed' = CrossedByOthers(thread[t].label)
          /\ UNCHANGED audited
    /\ UNCHANGED <<token, hour, elevated, rotation, cut, overtaken>>

-----------------------------------------------------------------------------
(* Break-glass.                                                            *)

OpeningRecord(e) == [op |-> "open", of |-> e, at |-> hour]
ClosingRecord(e) == [op |-> "close", of |-> e, at |-> 0]

\* The root operator asks for an elevation: its opening is on record before it
\* exists, and when that fails there is none.
OpenElevation(t, e) ==
    /\ ThreadAt(t, "routed") /\ ~Minted(e)
    /\ \A u \in Threads \ {t} : thread[u].label # e
    /\ \/ /\ audited' = audited \cup {OpeningRecord(e)}
          /\ thread' = [thread EXCEPT ![t] = [pc |-> "mint", label |-> e, until |-> hour + Ttl]]
          /\ UNCHANGED outages
       \/ /\ AccessOutage
          /\ thread' = [thread EXCEPT ![t] = IdleThread]
          /\ UNCHANGED audited
    /\ UNCHANGED <<token, hour, elevated, rotation, crossed, cut, overtaken>>

\* The token's lifetime begins when it is minted, the elevation's has begun with
\* its opening.  When the mint fails the context is dropped, which closes it.
MintElevation(t) ==
    LET e == thread[t].label
    IN  /\ ThreadAt(t, "mint")
        /\ \/ /\ token' = [token EXCEPT ![e] = [revoked |-> Never, expires |-> hour + Ttl]]
              /\ elevated' = [elevated EXCEPT ![e] = thread[t].until]
              /\ UNCHANGED <<audited, outages>>
           \/ /\ AccessOutage
              /\ audited' = audited \cup {ClosingRecord(e)}
              /\ UNCHANGED <<token, elevated>>
        /\ thread' = [thread EXCEPT ![t] = IdleThread]
        /\ UNCHANGED <<hour, rotation, crossed, cut, overtaken>>

\* The contexts are closed when the server stops, not when they expire.
ShutDown ==
    /\ \A t \in Threads : ThreadAt(t, "idle")
    /\ \E e \in Elevations : elevated[e] # 0
    /\ audited' = audited \cup {ClosingRecord(e) : e \in {d \in Elevations : elevated[d] # 0}}
    /\ elevated' = [e \in Elevations |-> 0]
    /\ UNCHANGED <<token, hour, thread, rotation, crossed, cut, overtaken, outages>>

ProcessDies ==
    /\ AccessOutage
    /\ elevated' = [e \in Elevations |-> 0]
    /\ thread' = [t \in Threads |-> IdleThread]
    /\ crossed' = {c \in crossed : \A t \in Threads : thread[t].label # c.of}
    /\ UNCHANGED <<token, hour, rotation, audited, cut, overtaken>>

HourPasses ==
    /\ hour < MaxHours /\ hour' = hour + 1
    /\ UNCHANGED <<token, elevated, thread, rotation, audited, crossed, cut, overtaken, outages>>

AccessNext ==
    \/ \E l \in Bearers : MintBearer(l) \/ RotateRead(l)
    \/ \E l \in Labels : Revoke(l)
    \/ RotateStamp \/ RotateMint \/ RotateDies
    \/ \E t \in Threads :
        \/ \E l \in Labels : Authenticate(t, l)
        \/ \E e \in Elevations : OpenElevation(t, e)
        \/ Operate(t) \/ ClientAudit(t) \/ RouteAudit(t) \/ MintElevation(t)
    \/ ShutDown \/ ProcessDies \/ HourPasses

AccessSpec == AccessInit /\ [][AccessNext]_accessVars

-----------------------------------------------------------------------------
(* What access promises.                                                   *)

\* A revoked bearer is rejected ("An operator revoke is IMMEDIATE", TokenStore.revoke),
\* with one exception: a rotation that had read the row before stamps it afterwards and
\* so revives it, for no longer than the grace, and revoking it again is final.  No
\* rotation that begins later, no grace of an earlier one and no restart revives it.
RevocationHolds ==
    \A l \in cut : /\ ResolvesBearer(l) => l \in overtaken
                   /\ token[l].revoked <= hour + Grace

\* A cross-tenant operation falls between the recorded opening of its elevation
\* and its expiry, before its closing, also when the process is a later one, and
\* it is on record itself, also when the elevation expires while it runs.
CrossTenantIsOnRecord ==
    \A c \in crossed :
        /\ \E o \in audited : o.op = "open" /\ o.of = c.of /\ o.at <= c.at /\ c.at < o.at + Ttl
        /\ \/ OperationRecord(c.of) \in audited
           \/ \E t \in Threads : /\ thread[t].label = c.of
                                  /\ thread[t].pc \in {"client_audit", "route_audit"}

=============================================================================
