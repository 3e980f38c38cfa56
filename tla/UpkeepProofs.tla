----------------------------- MODULE UpkeepProofs -----------------------------
(***************************************************************************)
(* What backups, the health of the bridges, the resolver of preferences    *)
(* and the sync of sources keep, for any number of bridges, wings, runs,   *)
(* slots, threads, sources, atoms, syncers, edits and faults.              *)
(***************************************************************************)
EXTENDS BoxBackup, BridgeHealth, Resolver, SourceSync, FiniteSetTheorems, TLAPS

-----------------------------------------------------------------------------
(* The bridges: a mark follows a delivery of the same outage, or leads to  *)
(* the log of a run that has nothing else.                                 *)

HealthRows == [streak : Nat, mark : Nat]
WingRows == [written : Nat, mark : Nat]
RunRecords == [pc : {"idle", "deliver", "log"}, env : SinkSettings \cup {{}}, now : Nat,
               level : Nat, todo : SUBSET AlertKinds, sent : SUBSET AlertKinds]
Hearings == [levels : SUBSET Nat, wings : SUBSET Wings]

BridgeShape ==
    /\ health \in [Bridges -> HealthRows]
    /\ wingFresh \in [Bridges -> [Wings -> WingRows]]
    /\ bridgeRun \in [Bridges -> RunRecords]
    /\ heard \in [Bridges -> Hearings] /\ unlogged \in [Bridges -> Hearings]
    /\ bridgeClock \in Nat \ {0}

\* What a run has posted was heard since: no other run of the bridge begins before it ends.
SentWasHeard(b) ==
    AlertPosts(bridgeRun[b].env) =>
        /\ "streak" \in bridgeRun[b].sent => bridgeRun[b].level \in heard[b].levels
        /\ \A w \in Wings : w \in bridgeRun[b].sent => w \in heard[b].wings
\* The property of one bridge.
MutedIs(b) ==
    /\ health[b].mark # 0 =>
         \/ health[b].mark \in heard[b].levels \cup unlogged[b].levels
         \/ "streak" \in ToBeLogged(b) /\ health[b].mark = bridgeRun[b].level
    /\ \A w \in Wings : Mutes(wingFresh[b][w]) =>
         w \in heard[b].wings \cup unlogged[b].wings \cup ToBeLogged(b)
IdleSentNothing(b) == bridgeRun[b].pc = "idle" => bridgeRun[b].sent = {}

BridgeInv ==
    BridgeShape /\ \A b \in Bridges : SentWasHeard(b) /\ MutedIs(b) /\ IdleSentNothing(b)

LEMMA NoRunIsRecord == /\ NoBridgeRun \in RunRecords /\ NoBridgeRun.sent = {}
                       /\ NoBridgeRun.pc = "idle" /\ NoHearing \in Hearings
  BY DEF NoBridgeRun, RunRecords, NoHearing, Hearings

\* Until it comes to the log a run has nothing to write there.
LEMMA NothingToLog ==
  ASSUME NEW b \in Bridges, bridgeRun[b].pc # "log"
  PROVE  ToBeLogged(b) = {}
  BY DEF ToBeLogged, LogOnly

LEMMA AddedHears ==
  ASSUME NEW h \in Hearings, NEW alerts \in SUBSET AlertKinds, NEW level \in Nat
  PROVE  /\ Added(h, alerts, level) \in Hearings
         /\ h.levels \subseteq Added(h, alerts, level).levels
         /\ h.wings \subseteq Added(h, alerts, level).wings
         /\ "streak" \in alerts => level \in Added(h, alerts, level).levels
         /\ \A w \in Wings : w \in alerts => w \in Added(h, alerts, level).wings
  BY DEF Added, Hearings

LEMMA BridgeStarts == BridgeInit => BridgeInv
  <1> SUFFICES ASSUME BridgeInit PROVE BridgeInv
    OBVIOUS
  <1>1. BridgeShape
    BY NoRunIsRecord DEF BridgeInit, BridgeShape, HealthRows, WingRows
  <1>2. ASSUME NEW b \in Bridges PROVE SentWasHeard(b) /\ MutedIs(b) /\ IdleSentNothing(b)
    <2>1. bridgeRun[b].sent = {} /\ health[b].mark = 0
      BY NoRunIsRecord DEF BridgeInit
    <2>2. \A w \in Wings : wingFresh[b][w].written = 0
      BY DEF BridgeInit
    <2>3. QED
      BY <2>1, <2>2 DEF SentWasHeard, MutedIs, Mutes, IdleSentNothing
  <1>3. QED
    BY <1>1, <1>2 DEF BridgeInv

\* A step of one bridge, for the others.
LEMMA OtherBridges ==
  ASSUME BridgeInv, NEW b \in Bridges, BridgeShape',
         \A d \in Bridges \ {b} : /\ health'[d] = health[d] /\ wingFresh'[d] = wingFresh[d]
                                  /\ bridgeRun'[d] = bridgeRun[d] /\ heard'[d] = heard[d]
                                  /\ unlogged'[d] = unlogged[d],
         SentWasHeard(b)', MutedIs(b)', IdleSentNothing(b)'
  PROVE  BridgeInv'
  BY DEF BridgeInv, SentWasHeard, MutedIs, Mutes, ToBeLogged, LogOnly, IdleSentNothing

\* A new run: a clean one clears the mark and what was heard, a fresh write the wing's.
LEMMA RecordKeeps ==
  ASSUME BridgeInv, NEW b \in Bridges, NEW env \in SinkSettings, NEW errors \in BOOLEAN,
         NEW wrote \in BOOLEAN, NEW wings \in SUBSET Wings, NEW maintenance \in BOOLEAN,
         RecordRun(b, env, errors, wrote, wings, maintenance)
  PROVE  BridgeInv'
  <1> DEFINE streak == NextStreak(b, errors, wrote)
             rows == TouchedWings(b, IF wrote THEN wings ELSE {}, bridgeClock)
             clean == ~errors /\ wrote
             mark == IF clean THEN 0 ELSE health[b].mark
             h == Still(heard[b], clean, b, rows)
             n == Still(unlogged[b], clean, b, rows)
  <1>1. /\ bridgeRun[b].pc = "idle" /\ bridgeClock' = bridgeClock
        /\ health' = [health EXCEPT ![b] = [streak |-> streak, mark |-> mark]]
        /\ wingFresh' = [wingFresh EXCEPT ![b] = rows]
        /\ heard' = [heard EXCEPT ![b] = h] /\ unlogged' = [unlogged EXCEPT ![b] = n]
    BY DEF RecordRun, BridgeInv, BridgeShape
  <1>2. PICK due \in SUBSET AlertKinds :
          bridgeRun' \in {bridgeRun,
                          [bridgeRun EXCEPT ![b] = [pc |-> "deliver", env |-> env,
                                                    now |-> bridgeClock, level |-> streak,
                                                    todo |-> due, sent |-> {}]]}
    BY DEF RecordRun
  <1>3. /\ health[b] \in HealthRows /\ wingFresh[b] \in [Wings -> WingRows]
        /\ heard[b] \in Hearings /\ unlogged[b] \in Hearings
        /\ bridgeRun[b] \in RunRecords /\ bridgeClock \in Nat \ {0}
    BY DEF BridgeInv, BridgeShape
  <1>4. streak \in Nat /\ mark \in Nat /\ h \in Hearings /\ n \in Hearings
    BY <1>3 DEF NextStreak, HealthRows, Hearings, Still
  <1>5. /\ rows \in [Wings -> WingRows]
        /\ \A w \in Wings : \/ rows[w] = wingFresh[b][w]
                            \/ /\ rows[w].mark = 0 /\ rows[w].written = bridgeClock
    BY <1>3 DEF TouchedWings, WingRows
  <1>6. /\ bridgeRun' \in [Bridges -> RunRecords] /\ bridgeRun'[b].sent = {}
        /\ bridgeRun'[b].pc # "log"
        /\ \A d \in Bridges \ {b} : bridgeRun'[d] = bridgeRun[d]
    <2> DEFINE r == [pc |-> "deliver", env |-> env, now |-> bridgeClock, level |-> streak,
                     todo |-> due, sent |-> {}]
    <2>1. r \in RunRecords /\ r.sent = {} /\ r.pc # "log"
      BY <1>3, <1>4 DEF RunRecords
    <2> HIDE DEF r, streak
    <2>2. bridgeRun \in [Bridges -> RunRecords] /\ bridgeRun[b].sent = {}
      BY <1>1 DEF BridgeInv, BridgeShape, IdleSentNothing
    <2>3. bridgeRun' = bridgeRun \/ bridgeRun' = [bridgeRun EXCEPT ![b] = r]
      BY <1>2 DEF r
    <2>4. QED
      BY <1>1, <2>1, <2>2, <2>3
  <1>7. /\ mark # 0 => mark \in h.levels \cup n.levels
        /\ \A w \in Wings : (w \in heard[b].wings \cup unlogged[b].wings
                               /\ rows[w] = wingFresh[b][w]) => w \in h.wings \cup n.wings
    <2>1. ToBeLogged(b) = {}
      BY <1>1, NothingToLog
    <2>2. mark # 0 => mark \in h.levels \cup n.levels
      BY <2>1 DEF BridgeInv, MutedIs, Still
    <2>3. QED
      BY <1>3, <2>2 DEF Still, Hearings
  <1> HIDE DEF streak, rows, clean, mark, h, n
  <1>8. /\ BridgeShape'
        /\ health'[b].mark = mark /\ wingFresh'[b] = rows
        /\ heard'[b] = h /\ unlogged'[b] = n
        /\ \A d \in Bridges \ {b} : /\ health'[d] = health[d] /\ wingFresh'[d] = wingFresh[d]
                                    /\ heard'[d] = heard[d] /\ unlogged'[d] = unlogged[d]
    BY <1>1, <1>4, <1>5, <1>6 DEF BridgeInv, BridgeShape, HealthRows
  <1>9. SentWasHeard(b)' /\ IdleSentNothing(b)'
    BY <1>6 DEF SentWasHeard, IdleSentNothing
  <1>10. MutedIs(b)'
    <2>1. ASSUME NEW w \in Wings, Mutes(rows[w]) PROVE w \in h.wings \cup n.wings
      <3>1. rows[w] = wingFresh[b][w]
        BY <1>3, <1>5, <2>1 DEF Mutes
      <3>2. w \in heard[b].wings \cup unlogged[b].wings
        BY <1>1, <2>1, <3>1, NothingToLog DEF BridgeInv, MutedIs
      <3>3. QED
        BY <1>7, <3>1, <3>2
    <2>2. QED
      BY <1>7, <1>8, <2>1 DEF MutedIs, Mutes
  <1>11. QED
    BY <1>6, <1>8, <1>9, <1>10, OtherBridges

LEMMA DeliverKeeps ==
  ASSUME BridgeInv, NEW b \in Bridges, NEW a \in AlertKinds, DeliverAlert(b, a)
  PROVE  BridgeInv'
  <1> DEFINE r == [bridgeRun[b] EXCEPT !.todo = @ \ {a}, !.sent = @ \cup {a}]
             posts == AlertPosts(bridgeRun[b].env)
             h == IF posts THEN Added(heard[b], {a}, bridgeRun[b].level) ELSE heard[b]
  <1>1. /\ bridgeRun[b].pc = "deliver"
        /\ bridgeRun' = [bridgeRun EXCEPT ![b] = r]
        /\ heard' = [heard EXCEPT ![b] = h]
        /\ UNCHANGED <<health, wingFresh, bridgeClock, unlogged>>
    BY DEF DeliverAlert, BridgeInv, BridgeShape
  <1>2. bridgeRun[b] \in RunRecords /\ heard[b] \in Hearings
    BY DEF BridgeInv, BridgeShape
  <1>3. /\ r \in RunRecords /\ r.pc = "deliver" /\ r.level = bridgeRun[b].level
        /\ r.env = bridgeRun[b].env /\ r.sent = bridgeRun[b].sent \cup {a}
    BY <1>1, <1>2 DEF RunRecords
  <1>4. /\ h \in Hearings /\ heard[b].levels \subseteq h.levels /\ heard[b].wings \subseteq h.wings
        /\ (posts /\ a = "streak") => bridgeRun[b].level \in h.levels
        /\ (posts /\ a \in Wings) => a \in h.wings
    <2>1. bridgeRun[b].level \in Nat /\ {a} \in SUBSET AlertKinds
      BY <1>2 DEF RunRecords
    <2>2. QED
      BY <1>2, <2>1, AddedHears
  <1> HIDE DEF r, h
  <1>5. /\ BridgeShape' /\ bridgeRun'[b] = r /\ heard'[b] = h
        /\ \A d \in Bridges \ {b} : bridgeRun'[d] = bridgeRun[d] /\ heard'[d] = heard[d]
    BY <1>1, <1>3, <1>4 DEF BridgeInv, BridgeShape
  <1>6. "streak" \notin Wings
    BY BridgeAssumption
  <1>7. IdleSentNothing(b)' /\ SentWasHeard(b)'
    BY <1>3, <1>4, <1>5, <1>6 DEF BridgeInv, SentWasHeard, IdleSentNothing
  <1>8. MutedIs(b)'
    BY <1>1, <1>4, <1>5, NothingToLog DEF BridgeInv, MutedIs
  <1>9. QED
    BY <1>1, <1>5, <1>7, <1>8, OtherBridges

LEMMA RaiseKeeps ==
  ASSUME BridgeInv, NEW b \in Bridges, NEW a \in AlertKinds, DeliveryRaises(b, a)
  PROVE  BridgeInv'
  <1> DEFINE r == [bridgeRun[b] EXCEPT !.todo = @ \ {a}]
  <1>1. /\ bridgeRun[b].pc = "deliver" /\ bridgeRun' = [bridgeRun EXCEPT ![b] = r]
        /\ UNCHANGED <<health, wingFresh, heard, unlogged, bridgeClock>>
    BY DEF DeliveryRaises, BridgeInv, BridgeShape
  <1>2. /\ r \in RunRecords /\ r.pc = "deliver" /\ r.level = bridgeRun[b].level
        /\ r.env = bridgeRun[b].env /\ r.sent = bridgeRun[b].sent
    BY <1>1 DEF RunRecords, BridgeInv, BridgeShape
  <1> HIDE DEF r
  <1>3. /\ BridgeShape' /\ bridgeRun'[b] = r
        /\ \A d \in Bridges \ {b} : bridgeRun'[d] = bridgeRun[d]
    BY <1>1, <1>2 DEF BridgeInv, BridgeShape
  <1>4. SentWasHeard(b)' /\ IdleSentNothing(b)'
    BY <1>1, <1>2, <1>3 DEF BridgeInv, SentWasHeard, IdleSentNothing
  <1>5. MutedIs(b)'
    BY <1>1, NothingToLog DEF BridgeInv, MutedIs
  <1>6. QED
    BY <1>1, <1>3, <1>4, <1>5, OtherBridges

\* The marks are moved for what was sent: it was heard, or the log is next.
LEMMA MarkKeeps ==
  ASSUME BridgeInv, NEW b \in Bridges, MarkAlerted(b)
  PROVE  BridgeInv'
  <1> DEFINE r == bridgeRun[b]
             mark == IF "streak" \in r.sent THEN r.level ELSE health[b].mark
             rows == [w \in Wings |-> IF w \in r.sent
                                      THEN [wingFresh[b][w] EXCEPT !.mark = r.now]
                                      ELSE wingFresh[b][w]]
             q == [r EXCEPT !.pc = "log"]
  <1>1. /\ bridgeRun' = [bridgeRun EXCEPT ![b] = q] /\ r.pc = "deliver"
        /\ wingFresh' = [wingFresh EXCEPT ![b] = rows]
        /\ UNCHANGED <<heard, unlogged, bridgeClock>>
    BY DEF MarkAlerted, BridgeInv, BridgeShape
  <1>2. r \in RunRecords /\ health[b] \in HealthRows /\ wingFresh[b] \in [Wings -> WingRows]
    BY DEF BridgeInv, BridgeShape
  <1>3. /\ health' \in [Bridges -> HealthRows] /\ health'[b].mark = mark
        /\ \A d \in Bridges \ {b} : health'[d] = health[d]
    <2>1. health \in [Bridges -> HealthRows]
      BY DEF BridgeInv, BridgeShape
    <2>2. CASE "streak" \in r.sent
      <3>1. health' = [health EXCEPT ![b].mark = r.level]
        BY <2>2 DEF MarkAlerted
      <3>2. QED
        BY <1>2, <2>1, <2>2, <3>1 DEF HealthRows, RunRecords
    <2>3. CASE "streak" \notin r.sent
      <3>1. health' = health
        BY <2>3 DEF MarkAlerted
      <3>2. QED
        BY <2>1, <2>3, <3>1
    <2>4. QED
      BY <2>2, <2>3
  <1>4. /\ rows \in [Wings -> WingRows]
        /\ \A w \in Wings : w \notin r.sent => rows[w] = wingFresh[b][w]
    BY <1>2 DEF WingRows, RunRecords
  <1>5. /\ q \in RunRecords /\ q.pc = "log" /\ q.sent = r.sent /\ q.level = r.level
        /\ q.env = r.env
    BY <1>2 DEF RunRecords
  <1> HIDE DEF rows, mark, q
  <1>6. /\ BridgeShape' /\ bridgeRun'[b] = q /\ wingFresh'[b] = rows
        /\ \A d \in Bridges \ {b} : /\ bridgeRun'[d] = bridgeRun[d]
                                    /\ wingFresh'[d] = wingFresh[d]
    BY <1>1, <1>3, <1>4, <1>5 DEF BridgeInv, BridgeShape
  <1>7. SentWasHeard(b)' /\ IdleSentNothing(b)'
    BY <1>1, <1>5, <1>6 DEF BridgeInv, SentWasHeard, IdleSentNothing
  <1>8. AlertPosts(r.env) \/ ToBeLogged(b)' = r.sent
    BY <1>5, <1>6 DEF ToBeLogged, LogOnly
  <1>9. ToBeLogged(b) = {}
    BY <1>1, NothingToLog
  <1>10. MutedIs(b)'
    <2>1. mark # 0 => \/ mark \in heard[b].levels \cup unlogged[b].levels
                      \/ "streak" \in ToBeLogged(b)' /\ mark = r.level
      BY <1>8, <1>9 DEF BridgeInv, SentWasHeard, MutedIs, mark
    <2>2. ASSUME NEW w \in Wings, Mutes(rows[w])
          PROVE  w \in heard[b].wings \cup unlogged[b].wings \cup ToBeLogged(b)'
      <3>1. CASE w \in r.sent
        BY <1>8, <3>1 DEF BridgeInv, SentWasHeard
      <3>2. CASE w \notin r.sent
        <4>1. Mutes(wingFresh[b][w])
          BY <1>4, <2>2, <3>2
        <4>2. QED
          BY <1>9, <4>1 DEF BridgeInv, MutedIs
      <3>3. QED
        BY <3>1, <3>2
    <2>3. QED
      BY <1>1, <1>3, <1>5, <1>6, <2>1, <2>2 DEF MutedIs, Mutes
  <1>11. QED
    BY <1>1, <1>3, <1>6, <1>7, <1>10, OtherBridges

\* What ends a run, its log or its death, accounts for what it had not logged yet.
LEMMA EndKeeps ==
  ASSUME BridgeInv, NEW b \in Bridges, bridgeRun' = [bridgeRun EXCEPT ![b] = NoBridgeRun],
         UNCHANGED <<health, wingFresh, bridgeClock>>,
         NEW h \in Hearings, NEW n \in Hearings,
         heard' = [heard EXCEPT ![b] = h], unlogged' = [unlogged EXCEPT ![b] = n],
         heard[b].levels \subseteq h.levels, heard[b].wings \subseteq h.wings,
         unlogged[b].levels \subseteq n.levels, unlogged[b].wings \subseteq n.wings,
         "streak" \in ToBeLogged(b) => bridgeRun[b].level \in h.levels \cup n.levels,
         \A w \in Wings : w \in ToBeLogged(b) => w \in h.wings \cup n.wings
  PROVE  BridgeInv'
  <1>1. /\ BridgeShape' /\ bridgeRun'[b] = NoBridgeRun /\ heard'[b] = h /\ unlogged'[b] = n
        /\ \A d \in Bridges \ {b} : /\ bridgeRun'[d] = bridgeRun[d] /\ heard'[d] = heard[d]
                                    /\ unlogged'[d] = unlogged[d]
    BY NoRunIsRecord DEF BridgeInv, BridgeShape
  <1>2. SentWasHeard(b)' /\ IdleSentNothing(b)'
    BY <1>1, NoRunIsRecord DEF SentWasHeard, IdleSentNothing
  <1>3. MutedIs(b)'
    BY <1>1 DEF BridgeInv, MutedIs
  <1>4. QED
    BY <1>1, <1>2, <1>3, OtherBridges

LEMMA LogKeeps ==
  ASSUME BridgeInv, NEW b \in Bridges, LogAlerts(b)
  PROVE  BridgeInv'
  <1> DEFINE h == Added(heard[b], ToBeLogged(b), bridgeRun[b].level)
  <1>1. /\ bridgeRun[b] \in RunRecords /\ heard[b] \in Hearings /\ unlogged[b] \in Hearings
        /\ unlogged' = [unlogged EXCEPT ![b] = unlogged[b]]
        /\ heard' = [heard EXCEPT ![b] = h]
    BY DEF BridgeInv, BridgeShape, LogAlerts
  <1>2. ToBeLogged(b) \in SUBSET AlertKinds /\ bridgeRun[b].level \in Nat
    BY <1>1 DEF ToBeLogged, RunRecords
  <1>3. /\ h \in Hearings /\ heard[b].levels \subseteq h.levels /\ heard[b].wings \subseteq h.wings
        /\ "streak" \in ToBeLogged(b) => bridgeRun[b].level \in h.levels
        /\ \A w \in Wings : w \in ToBeLogged(b) => w \in h.wings
    BY <1>1, <1>2, AddedHears
  <1> HIDE DEF h
  <1>4. QED
    BY <1>1, <1>3, EndKeeps DEF LogAlerts

LEMMA DeathKeeps ==
  ASSUME BridgeInv, NEW b \in Bridges, RunDies(b)
  PROVE  BridgeInv'
  <1> DEFINE n == Added(unlogged[b], ToBeLogged(b), bridgeRun[b].level)
  <1>1. /\ bridgeRun[b] \in RunRecords /\ heard[b] \in Hearings /\ unlogged[b] \in Hearings
        /\ heard' = [heard EXCEPT ![b] = heard[b]]
        /\ unlogged' = [unlogged EXCEPT ![b] = n]
    BY DEF BridgeInv, BridgeShape, RunDies
  <1>2. ToBeLogged(b) \in SUBSET AlertKinds /\ bridgeRun[b].level \in Nat
    BY <1>1 DEF ToBeLogged, RunRecords
  <1>3. /\ n \in Hearings
        /\ unlogged[b].levels \subseteq n.levels /\ unlogged[b].wings \subseteq n.wings
        /\ "streak" \in ToBeLogged(b) => bridgeRun[b].level \in n.levels
        /\ \A w \in Wings : w \in ToBeLogged(b) => w \in n.wings
    BY <1>1, <1>2, AddedHears
  <1> HIDE DEF n
  <1>4. QED
    BY <1>1, <1>3, EndKeeps DEF RunDies

LEMMA BridgeMoves == BridgeInv /\ [BridgeNext]_bridgeVars => BridgeInv'
  <1> SUFFICES ASSUME BridgeInv, [BridgeNext]_bridgeVars PROVE BridgeInv'
    OBVIOUS
  <1>1. CASE /\ UNCHANGED <<health, wingFresh, bridgeRun, heard, unlogged>>
             /\ bridgeClock' \in {bridgeClock, bridgeClock + 1}
    BY <1>1
    DEF BridgeInv, BridgeShape, SentWasHeard, MutedIs, Mutes, ToBeLogged, LogOnly,
        IdleSentNothing
  <1>2. CASE UNCHANGED bridgeVars \/ BridgeTick
    BY <1>1, <1>2 DEF bridgeVars, BridgeTick
  <1>3. ASSUME NEW b \in Bridges, HealthyRun(b) \/ MaintenanceRun(b) PROVE BridgeInv'
    BY <1>3, RecordKeeps DEF HealthyRun, MaintenanceRun
  <1>4. ASSUME NEW b \in Bridges, Recording(b) PROVE BridgeInv'
    BY <1>4, DeliverKeeps, MarkKeeps, LogKeeps DEF Recording
  <1>5. QED
    BY <1>2, <1>3, <1>4, RaiseKeeps, DeathKeeps DEF BridgeNext

\* Every mark that mutes an outage or a stale wing was heard of, is about to be logged by
\* the run that set it, or was set by a run without a sink that died before its log: for
\* any number of bridges and wings and wherever deliveries raise and runs die.
THEOREM MarksFollowHearing == BridgeSpec => []MutedIsAccountedFor
  <1>1. BridgeInv => MutedIsAccountedFor
    BY DEF BridgeInv, MutedIs, MutedIsAccountedFor
  <1>2. QED
    BY <1>1, BridgeStarts, BridgeMoves, PTL DEF BridgeSpec

\* Where every script posts its alerts, nothing is left to the log.
PostingInv ==
    /\ BridgeInv
    /\ \A b \in Bridges : /\ unlogged[b] = NoHearing
                          /\ bridgeRun[b].pc # "idle" => bridgeRun[b].env \in SinkSettings

LEMMA PostingMoves ==
  ASSUME \A env \in SinkSettings : AlertPosts(env), PostingInv, [BridgeNext]_bridgeVars
  PROVE  PostingInv'
  <1>1. BridgeInv'
    BY BridgeMoves DEF PostingInv
  <1>2. /\ bridgeRun \in [Bridges -> RunRecords] /\ unlogged \in [Bridges -> Hearings]
        /\ NoBridgeRun.pc = "idle"
    BY NoRunIsRecord DEF PostingInv, BridgeInv, BridgeShape
  <1>3. ASSUME NEW b \in Bridges
        PROVE  /\ Added(unlogged[b], ToBeLogged(b), bridgeRun[b].level) = NoHearing
               /\ \A clean \in BOOLEAN : \A rows :
                    Still(unlogged[b], clean, b, rows) = NoHearing
    <2>1. ToBeLogged(b) = {} /\ unlogged[b] = NoHearing
      BY DEF PostingInv, ToBeLogged, LogOnly
    <2>2. QED
      BY <2>1 DEF Added, Still, NoHearing
  <1>4. ASSUME NEW b \in Bridges, NEW env \in SinkSettings, NEW errors \in BOOLEAN,
               NEW wrote \in BOOLEAN, NEW wings \in SUBSET Wings, NEW maintenance \in BOOLEAN,
               RecordRun(b, env, errors, wrote, wings, maintenance)
        PROVE  PostingInv'
    <2>1. PICK rows : unlogged' = [unlogged EXCEPT ![b] =
                                     Still(unlogged[b], ~errors /\ wrote, b, rows)]
      BY <1>2, <1>4 DEF RecordRun
    <2>2. unlogged' = unlogged
      <3>1. (~errors /\ wrote) \in BOOLEAN
        OBVIOUS
      <3>2. Still(unlogged[b], ~errors /\ wrote, b, rows) = NoHearing
        BY <1>3, <3>1
      <3>3. QED
        BY <1>2, <2>1, <3>2 DEF PostingInv
    <2>3. \A d \in Bridges : /\ bridgeRun'[d].pc # "idle" => \/ bridgeRun'[d] = bridgeRun[d]
                                                            \/ bridgeRun'[d].env = env
      <3> DEFINE started(due) == [pc |-> "deliver", env |-> env, now |-> bridgeClock,
                                  level |-> NextStreak(b, errors, wrote), todo |-> due,
                                  sent |-> {}]
      <3>1. PICK due : bridgeRun' \in {bridgeRun, [bridgeRun EXCEPT ![b] = started(due)]}
        BY <1>4 DEF RecordRun
      <3>2. started(due).env = env
        OBVIOUS
      <3> HIDE DEF started
      <3>3. QED
        BY <1>2, <3>1, <3>2
    <2>4. QED
      BY <1>1, <2>2, <2>3 DEF PostingInv
  <1>5. ASSUME NEW b \in Bridges, Recording(b) \/ (\E a \in AlertKinds : DeliveryRaises(b, a))
        PROVE  PostingInv'
    <2>1. bridgeRun[b] \in RunRecords /\ unlogged' = unlogged
      BY <1>2, <1>5 DEF Recording, DeliverAlert, DeliveryRaises, MarkAlerted, LogAlerts
    <2>2. PICK r : /\ bridgeRun' = [bridgeRun EXCEPT ![b] = r]
                   /\ r = NoBridgeRun \/ (bridgeRun[b].pc # "idle" /\ r.env = bridgeRun[b].env)
      <3>1. CASE LogAlerts(b)
        BY <3>1 DEF LogAlerts
      <3>2. CASE MarkAlerted(b)
        <4>1. bridgeRun' = [bridgeRun EXCEPT ![b] = [bridgeRun[b] EXCEPT !.pc = "log"]]
          BY <1>2, <3>2 DEF MarkAlerted
        <4>2. QED
          BY <2>1, <3>2, <4>1 DEF MarkAlerted, RunRecords
      <3>3. ASSUME NEW a \in AlertKinds, DeliverAlert(b, a) \/ DeliveryRaises(b, a)
            PROVE  \E r : /\ bridgeRun' = [bridgeRun EXCEPT ![b] = r]
                          /\ bridgeRun[b].pc # "idle" /\ r.env = bridgeRun[b].env
        <4>1. \/ bridgeRun' = [bridgeRun EXCEPT ![b] = [bridgeRun[b] EXCEPT !.todo = @ \ {a}]]
              \/ bridgeRun' = [bridgeRun EXCEPT ![b] =
                                  [bridgeRun[b] EXCEPT !.todo = @ \ {a}, !.sent = @ \cup {a}]]
          BY <1>2, <3>3 DEF DeliverAlert, DeliveryRaises
        <4>2. QED
          BY <2>1, <3>3, <4>1 DEF DeliverAlert, DeliveryRaises, RunRecords
      <3>4. QED
        BY <1>5, <3>1, <3>2, <3>3 DEF Recording
    <2>3. \A d \in Bridges : bridgeRun'[d].pc # "idle" =>
             bridgeRun[d].pc # "idle" /\ bridgeRun'[d].env = bridgeRun[d].env
      BY <1>2, <2>2
    <2>4. QED
      BY <1>1, <2>1, <2>3 DEF PostingInv
  <1>6. ASSUME NEW b \in Bridges, RunDies(b) PROVE PostingInv'
    <2>1. unlogged' = unlogged
      BY <1>2, <1>3, <1>6 DEF RunDies, PostingInv
    <2>2. QED
      BY <1>1, <1>2, <1>6, <2>1 DEF RunDies, PostingInv
  <1>7. CASE UNCHANGED bridgeVars \/ BridgeTick
    BY <1>1, <1>7 DEF bridgeVars, BridgeTick, PostingInv
  <1>8. ASSUME NEW b \in Bridges, HealthyRun(b) \/ MaintenanceRun(b) PROVE PostingInv'
    BY <1>4, <1>8 DEF HealthyRun, MaintenanceRun
  <1>9. QED
    BY <1>5, <1>6, <1>7, <1>8 DEF BridgeNext

\* If every environment a script is started in leads to a sink that posts, the comment is
\* right: between runs no mark mutes an outage or a stale wing that nobody heard of.
THEOREM PostedMarksWereHeard ==
  (\A env \in SinkSettings : AlertPosts(env)) => (BridgeSpec => []MutedWasHeard)
  <1> SUFFICES ASSUME \A env \in SinkSettings : AlertPosts(env)
               PROVE  BridgeSpec => []MutedWasHeard
    OBVIOUS
  <1>1. BridgeInit => PostingInv
    BY BridgeStarts, NoRunIsRecord DEF BridgeInit, PostingInv
  <1>2. PostingInv /\ [BridgeNext]_bridgeVars => PostingInv'
    BY PostingMoves
  <1>3. PostingInv => MutedWasHeard
    <2> SUFFICES ASSUME PostingInv, NEW b \in Bridges, bridgeRun[b].pc = "idle"
                 PROVE  /\ health[b].mark # 0 => health[b].mark \in heard[b].levels
                        /\ \A w \in Wings : Mutes(wingFresh[b][w]) => w \in heard[b].wings
      BY DEF MutedWasHeard
    <2>1. ToBeLogged(b) = {} /\ unlogged[b].levels = {} /\ unlogged[b].wings = {}
      BY NothingToLog DEF PostingInv, NoHearing
    <2>2. QED
      BY <2>1 DEF PostingInv, BridgeInv, MutedIs
  <1>4. QED
    BY <1>1, <1>2, <1>3, PTL DEF BridgeSpec

-----------------------------------------------------------------------------
(* The resolver: what a decision rests on, and how many threads it costs.  *)

Texts == [target : Slots \cup {NoSlot}, matched : SUBSET HighRisk]
ThreadStates == {"none", "running", "ended"}
CallBound == IF MaxCalls > 0 THEN MaxCalls - 1 ELSE 0

\* The requests for which a first thread was started.
Started == {u \in Uids : legThreads[<<u, 1>>] # "none"}

ResolverShape ==
    /\ legThreads \in [Uids \X (1..2) -> ThreadStates]
    /\ decided = [u \in Uids |-> decided[u]]
    /\ engineConfig.benign.tau \in Nat /\ engineConfig.hr.tau \in Nat
    /\ budgetCalls \in Nat

\* What is being resolved had a thread started, and all its evidence is among the choices.
WaitingIsForced ==
    resolving # NotResolving =>
        /\ resolving.uid \in Started
        /\ resolving.text \in Texts /\ resolving.choices \subseteq Slots
        /\ Forced(resolving.text) \subseteq resolving.choices
        /\ Cardinality(resolving.choices) <= ChoiceK
        /\ resolving.text.target = NoSlot \/ GuardFires(resolving.text)

\* A second thread follows a first one, and each first one cost a call.
ThreadsAreCounted ==
    /\ \A u \in Uids : legThreads[<<u, 2>>] # "none" => u \in Started
    /\ IsFiniteSet(Started) /\ Cardinality(Started) <= budgetCalls
    /\ budgetCalls <= CallBound

ResolverInv == ResolverShape /\ WaitingIsForced /\ ThreadsAreCounted /\ HighRiskIsArbitrated

LEMMA ResolverStarts == ResolverInit => ResolverInv
  <1> SUFFICES ASSUME ResolverInit PROVE ResolverInv
    OBVIOUS
  <1>1. \A t \in Uids \X (1..2) : legThreads[t] = "none"
    BY DEF ResolverInit
  <1>2. Started = {}
    BY <1>1 DEF Started
  <1>3. ResolverShape
    BY DEF ResolverInit, ResolverShape, ThreadStates, NoConfig
  <1>4. WaitingIsForced
    BY DEF ResolverInit, WaitingIsForced
  <1>5. ThreadsAreCounted
    <2>1. \A u \in Uids : legThreads[<<u, 2>>] = "none"
      BY <1>1
    <2>2. IsFiniteSet(Started) /\ Cardinality(Started) = 0
      BY <1>2, FS_EmptySet
    <2>3. budgetCalls = 0 /\ 0 <= CallBound
      BY ResolverAssumption DEF ResolverInit, CallBound, LegsReserved
    <2>4. QED
      BY <2>1, <2>2, <2>3 DEF ThreadsAreCounted
  <1>6. HighRiskIsArbitrated
    BY DEF ResolverInit, HighRiskIsArbitrated
  <1>7. QED
    BY <1>3, <1>4, <1>5, <1>6 DEF ResolverInv

\* The property for one decision.
ArbitratedIs(d) ==
    (d # NotDecided /\ d.outcome \in {"selected", "deterministic_hit"}
       /\ (d.slot \in HighRisk \/ d.matched # {})) =>
        /\ d.highRisk
        /\ \/ d.matched = {d.slot}
           \/ /\ d.outcome = "selected"
              /\ d.matched \cup ({d.target} \ {NoSlot}) \subseteq d.choices
              /\ Cardinality(d.choices) <= ChoiceK
              /\ d.confidence >= engineConfig.hr.tau
              /\ d.matched = {} => d.confidence >= engineConfig.benign.tau

LEMMA DecidingKeeps ==
  ASSUME ResolverInv, NEW u \in Uids, NEW d, Decides(u, d), ArbitratedIs(d),
         UNCHANGED engineConfig
  PROVE  HighRiskIsArbitrated' /\ decided' = [v \in Uids |-> decided'[v]]
  <1>1. decided = [v \in Uids |-> decided[v]]
    BY DEF ResolverInv, ResolverShape
  <1>2. decided' = [v \in Uids |-> IF v = u THEN d ELSE decided[v]]
    BY <1>1 DEF Decides
  <1>3. HighRiskIsArbitrated'
    <2>1. ASSUME NEW v \in Uids PROVE ArbitratedIs(decided[v])
      BY DEF ResolverInv, HighRiskIsArbitrated, ArbitratedIs
    <2>2. \A v \in Uids : ArbitratedIs(decided'[v])
      BY <1>2, <2>1
    <2>3. QED
      BY <2>2 DEF HighRiskIsArbitrated, ArbitratedIs
  <1>4. QED
    BY <1>2, <1>3

\* Whoever abstains touches no slot.
LEMMA AbstainingIsArbitrated ==
  ASSUME NEW r, NEW choices, NEW why, why \notin {"selected", "deterministic_hit"}
  PROVE  ArbitratedIs(Decision(r, choices, NoSlot, 0, why))
  BY DEF ArbitratedIs, Decision

LEMMA HitIsArbitrated ==
  ASSUME NEW r \in Texts, Sensible(r), r.target # NoSlot, ~GuardFires(r)
  PROVE  ArbitratedIs(Decision(r, {}, r.target, TopConfidence, "deterministic_hit"))
  <1>1. r.matched = {} \/ r.matched = {r.target}
    BY DEF GuardFires
  <1>2. r.target \in HighRisk => r.matched = {r.target}
    BY <1>1 DEF Sensible
  <1>3. QED
    BY <1>1, <1>2 DEF ArbitratedIs, Decision

LEMMA ChoiceIsArbitrated ==
  ASSUME ResolverShape, NEW r \in Texts, NEW choices \in SUBSET Slots,
         Forced(r) \subseteq choices, Cardinality(choices) <= ChoiceK,
         r.target = NoSlot \/ GuardFires(r),
         NEW slot \in choices, NEW c \in Nat, c >= Tau(r, choices)
  PROVE  ArbitratedIs(Decision(r, choices, slot, c, "selected"))
  <1> DEFINE d == Decision(r, choices, slot, c, "selected")
  <1>1. /\ d.slot = slot /\ d.matched = r.matched /\ d.target = r.target
        /\ d.choices = choices /\ d.confidence = c /\ d.outcome = "selected"
        /\ (choices # {} /\ SliceOf(r, choices) = "hr") => d.highRisk
    BY DEF Decision
  <1> HIDE DEF d
  <1>2. r.matched \cup ({r.target} \ {NoSlot}) \subseteq choices
    BY DEF Forced
  <1>3. ASSUME slot \in HighRisk \/ r.matched # {}
        PROVE  /\ SliceOf(r, choices) = "hr"
               /\ c >= engineConfig.hr.tau
               /\ r.matched = {} => c >= engineConfig.benign.tau
    <2>1. SliceOf(r, choices) = "hr"
      BY <1>3 DEF SliceOf
    <2>2. Tau(r, choices) = IF r.matched = {} /\ engineConfig.benign.tau > engineConfig.hr.tau
                            THEN engineConfig.benign.tau ELSE engineConfig.hr.tau
      BY <2>1 DEF Tau, PureTopUp
    <2>3. engineConfig.benign.tau \in Nat /\ engineConfig.hr.tau \in Nat
      BY DEF ResolverShape
    <2>4. QED
      BY <2>1, <2>2, <2>3
  <1>4. QED
    BY <1>1, <1>2, <1>3 DEF ArbitratedIs, d

LEMMA BuildKeeps ==
  ASSUME ResolverInv, NEW m \in Manifests, BuildEngine(m)
  PROVE  ResolverInv'
  <1>1. /\ engineConfig' = m /\ UNCHANGED <<budgetCalls, resolving, legThreads, decided>>
        /\ \A u \in Uids : decided[u] = NotDecided
    BY DEF BuildEngine
  <1>2. m.benign.tau \in Nat /\ m.hr.tau \in Nat
    BY ResolverAssumption
  <1>3. HighRiskIsArbitrated'
    BY <1>1 DEF HighRiskIsArbitrated
  <1>4. QED
    BY <1>1, <1>2, <1>3
    DEF ResolverInv, ResolverShape, WaitingIsForced, ThreadsAreCounted, Started

\* A request that starts its first thread has one call less to give.
LEMMA FirstThreadKeeps ==
  ASSUME ResolverInv, NEW u \in Uids, NEW r \in Texts, NEW choices \in SUBSET Slots,
         Forced(r) \subseteq choices, Cardinality(choices) <= ChoiceK,
         r.target = NoSlot \/ GuardFires(r),
         MaxCalls >= budgetCalls + LegsReserved, budgetCalls' = budgetCalls + 1,
         resolving' = [pc |-> "wait", uid |-> u, text |-> r, choices |-> choices, attempt |-> 1],
         legThreads' = [legThreads EXCEPT ![<<u, 1>>] = "running"],
         UNCHANGED <<engineConfig, decided>>
  PROVE  ResolverInv'
  <1>1. /\ legThreads \in [Uids \X (1..2) -> ThreadStates] /\ <<u, 1>> \in Uids \X (1..2)
        /\ budgetCalls \in Nat
    BY DEF ResolverInv, ResolverShape
  <1>2. /\ legThreads' \in [Uids \X (1..2) -> ThreadStates]
        /\ legThreads'[<<u, 1>>] = "running"
        /\ \A v \in Uids : /\ v # u => legThreads'[<<v, 1>>] = legThreads[<<v, 1>>]
                           /\ legThreads'[<<v, 2>>] = legThreads[<<v, 2>>]
    BY <1>1 DEF ThreadStates
  <1>3. Started' = Started \cup {u}
    BY <1>2 DEF Started
  <1>4. ResolverShape'
    BY <1>1, <1>2 DEF ResolverInv, ResolverShape
  <1>5. WaitingIsForced'
    <2>1. u \in Started'
      BY <1>3
    <2>2. /\ resolving'.uid = u /\ resolving'.text = r /\ resolving'.choices = choices
      OBVIOUS
    <2>3. QED
      BY <2>1, <2>2 DEF WaitingIsForced, Forced, GuardFires
  <1>6. ThreadsAreCounted'
    <2>1. IsFiniteSet(Started) /\ Cardinality(Started) <= budgetCalls
      BY DEF ResolverInv, ThreadsAreCounted
    <2>2. /\ IsFiniteSet(Started') /\ Cardinality(Started) \in Nat
          /\ Cardinality(Started') <= Cardinality(Started) + 1
      <3>1. /\ IsFiniteSet(Started \cup {u})
            /\ Cardinality(Started \cup {u}) =
                 IF u \in Started THEN Cardinality(Started) ELSE Cardinality(Started) + 1
        BY <2>1, FS_AddElement
      <3>2. Cardinality(Started) \in Nat
        BY <2>1, FS_CardinalityType
      <3>3. QED
        BY <1>3, <3>1, <3>2
    <2>3. Cardinality(Started') <= budgetCalls'
      <3>1. Cardinality(Started') \in Nat
        BY <2>2, FS_CardinalityType
      <3>2. QED
        BY <1>1, <2>1, <2>2, <3>1
    <2>4. budgetCalls' <= CallBound
      BY <1>1, ResolverAssumption DEF CallBound, LegsReserved
    <2>5. \A v \in Uids : legThreads'[<<v, 2>>] # "none" => v \in Started'
      BY <1>2, <1>3 DEF ResolverInv, ThreadsAreCounted
    <2>6. QED
      BY <2>2, <2>3, <2>4, <2>5 DEF ThreadsAreCounted, CallBound
  <1>7. HighRiskIsArbitrated'
    BY DEF ResolverInv, HighRiskIsArbitrated
  <1>8. QED
    BY <1>4, <1>5, <1>6, <1>7 DEF ResolverInv

LEMMA DecisionKeeps ==
  ASSUME ResolverInv, NEW u \in Uids, NEW d, Decides(u, d), ArbitratedIs(d),
         UNCHANGED <<engineConfig, budgetCalls, legThreads>>,
         resolving' \in {resolving, NotResolving}
  PROVE  ResolverInv'
  <1>1. HighRiskIsArbitrated' /\ decided' = [v \in Uids |-> decided'[v]]
    BY DecidingKeeps
  <1>2. ResolverShape' /\ ThreadsAreCounted' /\ Started' = Started
    BY <1>1 DEF ResolverInv, ResolverShape, ThreadsAreCounted, Started
  <1>3. WaitingIsForced'
    BY <1>2 DEF ResolverInv, WaitingIsForced
  <1>4. QED
    BY <1>1, <1>2, <1>3 DEF ResolverInv

\* What is ranked behind the forced slots fits, unless those alone are too many.
LEMMA ChoicesFit ==
  ASSUME NEW r \in Texts, NEW top \in TopRanked(r), ~Overflows(r), Forced(r) \subseteq Slots
  PROVE  Cardinality(Forced(r) \cup top) <= ChoiceK
  <1>1. top \subseteq Slots /\ Cardinality(top) <= ChoiceK - Cardinality(Forced(r))
    BY DEF TopRanked
  <1>2. IsFiniteSet(Slots)
    BY ResolverAssumption
  <1>3. IsFiniteSet(Forced(r)) /\ IsFiniteSet(top)
    BY <1>1, <1>2, FS_Subset
  <1>4. Cardinality(Forced(r) \cup top) =
          Cardinality(Forced(r)) + Cardinality(top) - Cardinality(Forced(r) \cap top)
    BY <1>3, FS_Union
  <1>5. /\ Cardinality(Forced(r)) \in Nat /\ Cardinality(top) \in Nat
        /\ Cardinality(Forced(r) \cap top) \in Nat
    <2>1. IsFiniteSet(Forced(r) \cap top)
      BY <1>3, FS_Subset
    <2>2. QED
      BY <1>3, <2>1, FS_CardinalityType
  <1>6. ChoiceK \in Nat
    BY ResolverAssumption
  <1>7. QED
    BY <1>1, <1>4, <1>5, <1>6

LEMMA ResolveKeeps ==
  ASSUME ResolverInv, NEW u \in Uids, NEW r \in Candidates, NEW top \in SUBSET Slots,
         Resolve(u, r, top)
  PROVE  ResolverInv'
  <1> DEFINE choices == Forced(r) \cup top
  <1>1. r \in Texts /\ Sensible(r) /\ engineConfig' = engineConfig
    BY DEF Resolve, Candidates, Texts
  <1>2. HighRisk \subseteq Slots /\ NoSlot \notin Slots
    BY ResolverAssumption
  <1>3. Forced(r) \subseteq Slots
    BY <1>1, <1>2 DEF Forced, GuardFires, Texts
  <1>4. CASE /\ r.target # NoSlot /\ ~GuardFires(r)
             /\ Decides(u, Decision(r, {}, r.target, TopConfidence, "deterministic_hit"))
             /\ UNCHANGED <<resolving, budgetCalls, legThreads>>
    <2>1. ArbitratedIs(Decision(r, {}, r.target, TopConfidence, "deterministic_hit"))
      BY <1>1, <1>4, HitIsArbitrated
    <2>2. QED
      BY <1>1, <1>4, <2>1, DecisionKeeps
  <1>5. ASSUME NEW cs, NEW why \in {"disabled", "budget_exhausted", "forced_set_overflow",
                                    "empty_choice_set"},
               Abstains(u, r, cs, why), UNCHANGED <<resolving, budgetCalls, legThreads>>
        PROVE  ResolverInv'
    <2>1. ArbitratedIs(Decision(r, cs, NoSlot, 0, why))
      BY <1>5, AbstainingIsArbitrated
    <2>2. QED
      BY <1>1, <1>5, <2>1, DecisionKeeps DEF Abstains
  <1>6. CASE /\ r.target = NoSlot \/ GuardFires(r)
             /\ ~Overflows(r)
             /\ ~(MaxCalls < budgetCalls + LegsReserved)
             /\ budgetCalls' = budgetCalls + 1
             /\ resolving' = [pc |-> "wait", uid |-> u, text |-> r,
                              choices |-> choices, attempt |-> 1]
             /\ legThreads' = [legThreads EXCEPT ![<<u, 1>>] = "running"]
             /\ UNCHANGED decided
    <2>1. MaxCalls >= budgetCalls + LegsReserved
      BY <1>6, ResolverAssumption DEF ResolverInv, ResolverShape, LegsReserved
    <2>2. choices \in SUBSET Slots /\ Forced(r) \subseteq choices
      BY <1>3
    <2>3. Cardinality(choices) <= ChoiceK
      <3>1. top \in TopRanked(r)
        BY DEF Resolve
      <3>2. QED
        BY <1>1, <1>3, <1>6, <3>1, ChoicesFit
    <2>4. QED
      BY <1>1, <1>6, <2>1, <2>2, <2>3, FirstThreadKeeps
  <1>7. \/ /\ r.target # NoSlot /\ ~GuardFires(r)
           /\ Decides(u, Decision(r, {}, r.target, TopConfidence, "deterministic_hit"))
           /\ UNCHANGED <<resolving, budgetCalls, legThreads>>
        \/ /\ \E cs \in {{}, choices},
                 why \in {"disabled", "budget_exhausted", "forced_set_overflow",
                          "empty_choice_set"} : Abstains(u, r, cs, why)
           /\ UNCHANGED <<resolving, budgetCalls, legThreads>>
        \/ /\ r.target = NoSlot \/ GuardFires(r)
           /\ ~Overflows(r)
           /\ ~(MaxCalls < budgetCalls + LegsReserved)
           /\ budgetCalls' = budgetCalls + 1
           /\ resolving' = [pc |-> "wait", uid |-> u, text |-> r,
                            choices |-> choices, attempt |-> 1]
           /\ legThreads' = [legThreads EXCEPT ![<<u, 1>>] = "running"]
           /\ UNCHANGED decided
    BY DEF Resolve
  <1>8. QED
    BY <1>4, <1>5, <1>6, <1>7

LEMMA ThreadEndKeeps ==
  ASSUME ResolverInv, NEW t \in DOMAIN legThreads, ThreadEnds(t)
  PROVE  ResolverInv'
  <1>1. /\ legThreads[t] = "running" /\ legThreads' = [legThreads EXCEPT ![t] = "ended"]
        /\ UNCHANGED <<engineConfig, budgetCalls, resolving, decided>>
    BY DEF ThreadEnds
  <1>2. legThreads \in [Uids \X (1..2) -> ThreadStates]
    BY DEF ResolverInv, ResolverShape
  <1>3. /\ legThreads' \in [Uids \X (1..2) -> ThreadStates]
        /\ \A x \in Uids \X (1..2) : legThreads'[x] # "none" <=> legThreads[x] # "none"
    BY <1>1, <1>2 DEF ThreadStates
  <1>4. \A v \in Uids : <<v, 1>> \in Uids \X (1..2) /\ <<v, 2>> \in Uids \X (1..2)
    OBVIOUS
  <1>5. Started' = Started
    BY <1>3, <1>4 DEF Started
  <1>6. ResolverShape' /\ WaitingIsForced' /\ HighRiskIsArbitrated'
    BY <1>1, <1>3, <1>5
    DEF ResolverInv, ResolverShape, WaitingIsForced, HighRiskIsArbitrated
  <1>7. ThreadsAreCounted'
    BY <1>1, <1>3, <1>4, <1>5 DEF ResolverInv, ThreadsAreCounted, CallBound
  <1>8. QED
    BY <1>6, <1>7 DEF ResolverInv

LEMMA AnswerKeeps ==
  ASSUME ResolverInv, NEW t \in DOMAIN legThreads, AnswerInTime(t), TopConfidence \in Nat
  PROVE  ResolverInv'
  <1> DEFINE r == resolving.text
             u == resolving.uid
             choices == resolving.choices
  <1>1. /\ resolving # NotResolving /\ resolving' = NotResolving
        /\ UNCHANGED <<engineConfig, budgetCalls, legThreads>>
    BY DEF AnswerInTime, Waiting
  <1>2. /\ u \in Uids /\ r \in Texts /\ choices \in SUBSET Slots /\ Forced(r) \subseteq choices
        /\ Cardinality(choices) <= ChoiceK
        /\ r.target = NoSlot \/ GuardFires(r)
    BY <1>1 DEF ResolverInv, WaitingIsForced, Started
  <1>3. \/ \E slot \in choices, c \in 0..TopConfidence :
             c >= Tau(r, choices) /\ Decides(u, Decision(r, choices, slot, c, "selected"))
        \/ \E why \in {"low_confidence", "abstained", "invalid_output", "timeout"} :
             Abstains(u, r, choices, why)
    BY DEF AnswerInTime
  <1> HIDE DEF r, u, choices
  <1>4. CASE \E slot \in choices, c \in 0..TopConfidence :
               c >= Tau(r, choices) /\ Decides(u, Decision(r, choices, slot, c, "selected"))
    <2>1. PICK slot \in choices, c \in 0..TopConfidence :
               c >= Tau(r, choices) /\ Decides(u, Decision(r, choices, slot, c, "selected"))
      BY <1>4
    <2>2. c \in Nat /\ ResolverShape
      BY <2>1 DEF ResolverInv
    <2>3. ArbitratedIs(Decision(r, choices, slot, c, "selected"))
      BY <1>2, <2>1, <2>2, ChoiceIsArbitrated
    <2>4. QED
      BY <1>1, <1>2, <2>1, <2>3, DecisionKeeps
  <1>5. ASSUME NEW why \in {"low_confidence", "abstained", "invalid_output", "timeout"},
               Abstains(u, r, choices, why)
        PROVE  ResolverInv'
    <2>1. ArbitratedIs(Decision(r, choices, NoSlot, 0, why))
      BY <1>5, AbstainingIsArbitrated
    <2>2. QED
      BY <1>1, <1>2, <1>5, <2>1, DecisionKeeps DEF Abstains
  <1>6. QED
    BY <1>3, <1>4, <1>5

LEMMA FailureKeeps ==
  ASSUME ResolverInv, NEW t \in DOMAIN legThreads,
         NEW why \in {"transport_failed", "timeout"}, AttemptFails(t, why)
  PROVE  ResolverInv'
  <1>1. resolving # NotResolving /\ UNCHANGED <<engineConfig, budgetCalls>>
    BY DEF AttemptFails, Waiting
  <1>2. resolving.uid \in Uids /\ resolving.uid \in Started
    BY <1>1 DEF ResolverInv, WaitingIsForced, Started
  <1>3. CASE resolving.attempt = 1
    <2> DEFINE u == resolving.uid
    <2>1. /\ resolving' = [resolving EXCEPT !.attempt = 2] /\ decided' = decided
          /\ legThreads' = [legThreads EXCEPT ![<<u, 2>>] = "running"]
      BY <1>3 DEF AttemptFails
    <2>2. /\ resolving'.uid = resolving.uid /\ resolving'.text = resolving.text
          /\ resolving'.choices = resolving.choices
      BY <2>1
    <2>3. legThreads \in [Uids \X (1..2) -> ThreadStates] /\ <<u, 2>> \in Uids \X (1..2)
      BY <1>2 DEF ResolverInv, ResolverShape
    <2> HIDE DEF u
    <2>4. /\ legThreads' \in [Uids \X (1..2) -> ThreadStates]
          /\ \A v \in Uids : /\ legThreads'[<<v, 1>>] = legThreads[<<v, 1>>]
                             /\ v # u => legThreads'[<<v, 2>>] = legThreads[<<v, 2>>]
      BY <2>1, <2>3 DEF ThreadStates
    <2>5. Started' = Started
      BY <2>4 DEF Started
    <2>6. ResolverShape' /\ HighRiskIsArbitrated'
      BY <1>1, <2>1, <2>4 DEF ResolverInv, ResolverShape, HighRiskIsArbitrated
    <2>7. WaitingIsForced'
      BY <1>1, <2>2, <2>5 DEF ResolverInv, WaitingIsForced, Forced, GuardFires
    <2>8. ThreadsAreCounted'
      BY <1>1, <1>2, <2>4, <2>5 DEF ResolverInv, ThreadsAreCounted, CallBound, u
    <2>9. QED
      BY <2>6, <2>7, <2>8 DEF ResolverInv
  <1>4. CASE resolving.attempt # 1
    <2>1. /\ Abstains(resolving.uid, resolving.text, resolving.choices, why)
          /\ resolving' = NotResolving /\ legThreads' = legThreads
      BY <1>4 DEF AttemptFails
    <2>2. ArbitratedIs(Decision(resolving.text, resolving.choices, NoSlot, 0, why))
      BY AbstainingIsArbitrated
    <2>3. QED
      BY <1>1, <1>2, <2>1, <2>2, DecisionKeeps DEF Abstains
  <1>5. QED
    BY <1>3, <1>4

LEMMA ResolverMoves == ResolverInv /\ [ResolverNext]_resolverVars => ResolverInv'
  <1> SUFFICES ASSUME ResolverInv, [ResolverNext]_resolverVars PROVE ResolverInv'
    OBVIOUS
  <1>1. CASE UNCHANGED resolverVars
    BY <1>1
    DEF resolverVars, ResolverInv, ResolverShape, WaitingIsForced, ThreadsAreCounted, Started,
        CallBound, HighRiskIsArbitrated
  <1>2. TopConfidence \in Nat
    BY ResolverAssumption
  <1>3. QED
    BY <1>1, <1>2, BuildKeeps, ResolveKeeps, ThreadEndKeeps, AnswerKeeps, FailureKeeps
    DEF ResolverNext

\* No decision of the resolver touches a high-risk slot unmarked and unarbitrated, for
\* any registry, evidence and thresholds; a text whose evidence names more slots than a
\* choice set holds is decided too, and never by choosing among some of them.
THEOREM HighRiskNeedsArbitration == ResolverSpec => []HighRiskIsArbitrated
  <1>1. ResolverInv => HighRiskIsArbitrated
    BY DEF ResolverInv
  <1>2. QED
    BY <1>1, ResolverStarts, ResolverMoves, PTL DEF ResolverSpec

\* Two threads for each call: the running ones belong to requests that were started,
\* and each of those took a call from the budget.
THEOREM RunLeavesFewThreads == ResolverSpec => []ThreadsAreBounded
  <1>1. ResolverInv => ThreadsAreBounded
    <2> SUFFICES ASSUME ResolverInv PROVE ThreadsAreBounded
      OBVIOUS
    <2> DEFINE running == {t \in DOMAIN legThreads : legThreads[t] = "running"}
    <2>1. legThreads \in [Uids \X (1..2) -> ThreadStates]
      BY DEF ResolverInv, ResolverShape
    <2>2. running \subseteq Started \X (1..2)
      <3>1. ASSUME NEW t \in running PROVE t \in Started \X (1..2)
        <4>1. PICK u \in Uids, i \in 1..2 : t = <<u, i>>
          BY <2>1
        <4>2. i = 1 \/ i = 2
          OBVIOUS
        <4>3. u \in Started
          BY <4>1, <4>2 DEF ResolverInv, ThreadsAreCounted, Started
        <4>4. QED
          BY <4>1, <4>3
      <3>2. QED
        BY <3>1
    <2>3. /\ IsFiniteSet(Started) /\ Cardinality(Started) \in Nat
          /\ Cardinality(Started) <= CallBound
      <3>1. /\ IsFiniteSet(Started) /\ Cardinality(Started) <= budgetCalls
            /\ budgetCalls <= CallBound /\ budgetCalls \in Nat
        BY DEF ResolverInv, ResolverShape, ThreadsAreCounted
      <3>2. Cardinality(Started) \in Nat /\ CallBound \in Nat
        BY <3>1, FS_CardinalityType, ResolverAssumption DEF CallBound, LegsReserved
      <3>3. QED
        BY <3>1, <3>2
    <2>4. IsFiniteSet(1..2) /\ Cardinality(1..2) = 2
      <3>1. IsFiniteSet(1..2) /\ Cardinality(1..2) = IF 1 > 2 THEN 0 ELSE 2 - 1 + 1
        <4>1. 1 \in Int /\ 2 \in Int
          OBVIOUS
        <4>2. QED
          BY <4>1, FS_Interval, Zenon
      <3>2. QED
        BY <3>1
    <2>5. /\ IsFiniteSet(Started \X (1..2))
          /\ Cardinality(Started \X (1..2)) = Cardinality(Started) * 2
      BY <2>3, <2>4, FS_Product
    <2>6. /\ Cardinality(running) <= Cardinality(Started) * 2
          /\ IsFiniteSet(running)
      BY <2>2, <2>5, FS_Subset
    <2>7. Cardinality(running) \in Nat /\ CallBound \in Nat
      BY <2>6, FS_CardinalityType, ResolverAssumption DEF CallBound, LegsReserved
    <2>8. Cardinality(running) <= 2 * CallBound
      <3> HIDE DEF running
      <3>1. QED
        BY <2>3, <2>6, <2>7
    <2>9. QED
      BY <2>8 DEF ThreadsAreBounded, CallBound
  <1>2. QED
    BY <1>1, ResolverStarts, ResolverMoves, PTL DEF ResolverSpec

-----------------------------------------------------------------------------
(* The restore: nothing of a refused archive, all of an accepted one.      *)

FileContents == SUBSET (BoxDecisions \cup MissingFile)
Directories == [Roles -> FileContents]
Members == UNION {[there -> FileContents] : there \in SUBSET Roles}
Archives == [files : Members, damaged : SUBSET (Roles \cup {"manifest"}), clash : BOOLEAN]
BackupRecords == [pc : {"idle", "snapshot"}, todo : SUBSET Roles, tmp : Members,
                  clash : BOOLEAN]
RestoreRecords == [pc : {"idle", "stage", "place"}, from : Archives, todo : SUBSET Roles,
                   before : Directories,
                   said : {"-", "invalid", "refused", "passed", "do not trust", "killed"}]

BackupShape ==
    /\ liveFiles \in Directories /\ target \in Directories
    /\ archive \in Archives /\ backup \in BackupRecords /\ restore \in RestoreRecords

Placed(r) == target[r] = restore.from.files[r]

\* Nothing is touched before every member was staged, then every member that is
\* not in the list any more is in place.
RestoreGoesOn ==
    /\ restore.todo \subseteq DOMAIN restore.from.files
    /\ restore.pc = "stage" => target = restore.before
    /\ restore.pc = "place" => \A r \in DOMAIN restore.from.files \ restore.todo : Placed(r)

RestoreInv == BackupShape /\ RestoreGoesOn /\ RestoreIsAllOrNothing

\* The members of an archive are files of a box.
LEMMA MemberFacts ==
  /\ NoMembers \in Members /\ DOMAIN NoMembers = {} /\ NothingThere \in Directories
  /\ \A m \in Members : /\ DOMAIN m \subseteq Roles
                        /\ \A r \in DOMAIN m : m[r] \in FileContents
  <1>1. NoMembers \in [{} -> FileContents] /\ {} \in SUBSET Roles
    BY DEF NoMembers
  <1>2. NoMembers \in Members
    BY <1>1 DEF Members
  <1>3. ASSUME NEW m \in Members
        PROVE  DOMAIN m \subseteq Roles /\ \A r \in DOMAIN m : m[r] \in FileContents
    <2>1. PICK there \in SUBSET Roles : m \in [there -> FileContents]
      BY DEF Members
    <2> QED BY <2>1
  <1>4. NothingThere \in Directories
    BY DEF NothingThere, Directories, FileContents
  <1> QED BY <1>2, <1>3, <1>4 DEF NoMembers

LEMMA MembersGrow ==
  ASSUME NEW m \in Members, NEW r \in Roles, NEW x \in FileContents
  PROVE  [q \in DOMAIN m \cup {r} |-> IF q = r THEN x ELSE m[q]] \in Members
  <1> DEFINE there == DOMAIN m \cup {r}
             n == [q \in there |-> IF q = r THEN x ELSE m[q]]
  <1>1. there \in SUBSET Roles
    BY MemberFacts
  <1>2. n \in [there -> FileContents]
    BY MemberFacts
  <1> QED BY <1>1, <1>2 DEF Members

LEMMA RestoreStarts == BackupInit => RestoreInv
  <1> SUFFICES ASSUME BackupInit PROVE RestoreInv
    OBVIOUS
  <1>1. NoArchive \in Archives
    BY MemberFacts DEF NoArchive, Archives
  <1>2. NoBackup \in BackupRecords /\ NoRestore \in RestoreRecords
    BY <1>1, MemberFacts DEF NoBackup, NoRestore, BackupRecords, RestoreRecords
  <1>3. liveFiles \in Directories
    BY DEF BackupInit, Directories, FileContents
  <1>4. BackupShape
    BY <1>1, <1>2, <1>3, MemberFacts DEF BackupInit, BackupShape
  <1>5. restore.pc = "idle" /\ restore.todo = {} /\ restore.said = "-"
    BY DEF BackupInit, NoRestore
  <1> QED BY <1>4, <1>5 DEF RestoreInv, RestoreGoesOn, RestoreIsAllOrNothing

\* A restore ends as its stage allows it to.
LEMMA RestoreEnds ==
  ASSUME RestoreInv, NEW said \in {"refused", "passed", "do not trust", "killed"},
         EndRestore(said), UNCHANGED <<liveFiles, target, archive, backup>>,
         said = "refused" => target = restore.before,
         said = "passed" => \A r \in DOMAIN restore.from.files : Placed(r)
  PROVE  RestoreInv'
  <1>1. /\ restore'.pc = "idle" /\ restore'.todo = {} /\ restore'.said = said
        /\ restore'.from = restore.from /\ restore'.before = restore.before
        /\ restore' \in RestoreRecords
    BY DEF RestoreInv, BackupShape, EndRestore, RestoreRecords
  <1> QED BY <1>1 DEF RestoreInv, BackupShape, RestoreGoesOn, RestoreIsAllOrNothing, Placed

\* Every step of a backup, a restore or the box keeps that.
LEMMA RestoreMoves ==
  ASSUME RestoreInv, [BackupNext]_backupVars
  PROVE  RestoreInv'
  <1>1. /\ BackupShape /\ RestoreGoesOn /\ RestoreIsAllOrNothing
        /\ DOMAIN archive.files \subseteq Roles /\ DOMAIN restore.from.files \subseteq Roles
        /\ \A r \in DOMAIN restore.from.files : restore.from.files[r] \in FileContents
    BY MemberFacts DEF RestoreInv, BackupShape, RestoreRecords, Archives
  <1>2. ASSUME UNCHANGED <<target, restore>>, BackupShape'
        PROVE  RestoreInv'
    BY <1>1, <1>2 DEF RestoreInv, RestoreGoesOn, RestoreIsAllOrNothing, Placed
  <1>3. ASSUME NEW d \in BoxDecisions, NEW r \in {"audit", "outbox", "store"}, BoxWrites(d, r)
        PROVE  RestoreInv'
    <2>1. liveFiles' \in Directories
      BY <1>1, <1>3 DEF BoxWrites, BackupShape, Directories, FileContents, ContentOf
    <2> QED BY <1>1, <1>2, <1>3, <2>1 DEF BoxWrites, BackupShape
  <1>4. CASE BeginBackup \/ PublishArchive \/ CrashBackup \/ SnapshotNext
    <2>1. NoBackup \in BackupRecords
      BY MemberFacts DEF NoBackup, BackupRecords
    <2>2. CASE BeginBackup
      <3>1. backup' \in BackupRecords
        BY <2>2, MemberFacts DEF BeginBackup, BackupRecords
      <3> QED BY <1>1, <1>2, <2>2, <3>1 DEF BeginBackup, BackupShape
    <2>3. CASE PublishArchive
      <3>1. archive' \in Archives
        BY <1>1, <2>3 DEF PublishArchive, BackupShape, BackupRecords, Archives
      <3> QED BY <1>1, <1>2, <2>1, <2>3, <3>1 DEF PublishArchive, BackupShape
    <2>4. CASE CrashBackup
      BY <1>1, <1>2, <2>1, <2>4 DEF CrashBackup, BackupShape
    <2>5. CASE SnapshotNext
      <3>1. PICK r \in Roles :
              \/ backup' = [backup EXCEPT !.todo = @ \ {r},
                                          !.tmp = [q \in DOMAIN @ \cup {r} |->
                                                      IF q = r THEN liveFiles[r] ELSE @[q]]]
              \/ backup' = NoBackup
        BY <2>5 DEF SnapshotNext
      <3>2. PICK m : m = [q \in DOMAIN backup.tmp \cup {r} |->
                            IF q = r THEN liveFiles[r] ELSE backup.tmp[q]]
        OBVIOUS
      <3>3. m \in Members
        BY <1>1, <3>2, MembersGrow DEF BackupShape, BackupRecords, Directories
      <3>4. backup' = [backup EXCEPT !.todo = @ \ {r}, !.tmp = m] \/ backup' = NoBackup
        BY <3>1, <3>2
      <3>5. backup' \in BackupRecords
        BY <1>1, <2>1, <3>3, <3>4 DEF BackupShape, BackupRecords
      <3> QED BY <1>1, <1>2, <2>5, <3>5 DEF SnapshotNext, BackupShape
    <2> QED BY <1>4, <2>2, <2>3, <2>4, <2>5
  <1>5. CASE DamageArchive
    <2>1. archive' \in Archives
      BY <1>1, <1>5 DEF DamageArchive, BackupShape, Archives
    <2> QED BY <1>1, <1>2, <1>5, <2>1 DEF DamageArchive, BackupShape
  <1>6. ASSUME NEW force \in BOOLEAN, BeginRestore(force)
        PROVE  RestoreInv'
    <2>1. PICK said \in {"-", "invalid", "refused"} :
            restore' = [pc |-> IF said = "-" THEN "stage" ELSE "idle", from |-> archive,
                        todo |-> IF said = "-" THEN DOMAIN archive.files ELSE {},
                        before |-> target, said |-> said]
      BY <1>6 DEF BeginRestore
    <2>2. restore' \in RestoreRecords
      BY <1>1, <2>1 DEF BackupShape, RestoreRecords
    <2>3. UNCHANGED <<liveFiles, archive, backup, target>>
      BY <1>6 DEF BeginRestore
    <2>4. BackupShape'
      BY <1>1, <2>2, <2>3 DEF BackupShape
    <2>5. /\ restore'.pc \in {"stage", "idle"} /\ restore'.from = archive
          /\ restore'.before = target /\ restore'.said = said
          /\ restore'.todo \subseteq DOMAIN archive.files
      BY <2>1
    <2> QED BY <2>3, <2>4, <2>5 DEF RestoreInv, RestoreGoesOn, RestoreIsAllOrNothing
  <1>7. CASE StageNext
    <2>1. PICK r \in Roles : \/ EndRestore("refused")
                             \/ restore' = [restore EXCEPT !.todo = @ \ {r}]
      BY <1>7 DEF StageNext
    <2>2. restore.pc = "stage" /\ target = restore.before
      BY <1>1, <1>7 DEF StageNext, RestoreGoesOn
    <2>3. CASE EndRestore("refused")
      BY <1>7, <2>2, <2>3, RestoreEnds DEF StageNext
    <2>4. CASE restore' = [restore EXCEPT !.todo = @ \ {r}]
      <3>1. /\ restore'.pc = "stage" /\ restore'.todo = restore.todo \ {r}
            /\ restore'.from = restore.from /\ restore'.before = restore.before
            /\ restore' \in RestoreRecords
        BY <1>1, <2>2, <2>4 DEF BackupShape, RestoreRecords
      <3> QED BY <1>1, <1>7, <2>2, <3>1
         DEF StageNext, RestoreInv, BackupShape, RestoreGoesOn, RestoreIsAllOrNothing
    <2> QED BY <2>1, <2>3, <2>4
  <1>8. CASE AllStaged
    <2>1. /\ restore'.pc = "place" /\ restore'.todo = DOMAIN restore.from.files
          /\ restore'.from = restore.from /\ restore' \in RestoreRecords
      BY <1>1, <1>8 DEF AllStaged, BackupShape, RestoreRecords
    <2> QED BY <1>1, <1>8, <2>1
       DEF AllStaged, RestoreInv, BackupShape, RestoreGoesOn, RestoreIsAllOrNothing
  <1>9. CASE PlaceNext
    <2>1. PICK r \in Roles : /\ r \in restore.todo
                             /\ target' = [target EXCEPT ![r] = restore.from.files[r]]
                             /\ restore' = [restore EXCEPT !.todo = @ \ {r}]
      BY <1>9 DEF PlaceNext, ComesFirst
    <2>2. /\ restore'.pc = "place" /\ restore'.todo = restore.todo \ {r}
          /\ restore'.from = restore.from /\ restore' \in RestoreRecords
      BY <1>1, <1>9, <2>1 DEF PlaceNext, BackupShape, RestoreRecords
    <2>3. /\ target' \in Directories /\ target'[r] = restore.from.files[r]
          /\ \A q \in Roles \ {r} : target'[q] = target[q]
      BY <1>1, <2>1 DEF BackupShape, Directories, RestoreGoesOn
    <2>4. \A q \in DOMAIN restore.from.files \ restore.todo : target[q] = restore.from.files[q]
      BY <1>1, <1>9 DEF PlaceNext, RestoreGoesOn, Placed
    <2> QED BY <1>1, <1>9, <2>2, <2>3, <2>4
       DEF PlaceNext, RestoreInv, BackupShape, RestoreGoesOn, RestoreIsAllOrNothing, Placed
  <1>10. CASE PostRestoreVerify
    <2>1. /\ EndRestore("passed") \/ EndRestore("do not trust")
          /\ UNCHANGED <<liveFiles, target, archive, backup>>
      BY <1>10 DEF PostRestoreVerify
    <2>2. \A r \in DOMAIN restore.from.files : Placed(r)
      BY <1>1, <1>10 DEF PostRestoreVerify, RestoreGoesOn
    <2> QED BY <2>1, <2>2, RestoreEnds
  <1>11. CASE CrashRestore
    BY <1>11, RestoreEnds DEF CrashRestore
  <1>12. CASE UNCHANGED backupVars
    BY <1>1, <1>2, <1>12 DEF backupVars, BackupShape
  <1> QED BY <1>3, <1>4, <1>5, <1>6, <1>7, <1>8, <1>9, <1>10, <1>11, <1>12 DEF BackupNext

\* Wherever an archive is damaged and wherever backups, restores and the box
\* stop or go on: a restore that refused has touched nothing, and one that
\* passed has put every member of its archive in place.
THEOREM RestoreIsAtomic == BackupSpec => []RestoreIsAllOrNothing
  <1>1. RestoreInv => RestoreIsAllOrNothing
    BY DEF RestoreInv
  <1> QED BY <1>1, RestoreStarts, RestoreMoves, PTL DEF BackupSpec

-----------------------------------------------------------------------------
(* SourceSync: the quota never stops a sync between the old set and the    *)
(* new one, and nothing is written beside an old set.                      *)

SyncStages == {"idle", "check", "preflight", "find", "delete", "write"}
SyncOutcomes == {"none", "unchanged", "quota", "failed", "written"}
SyncRecords == [pc : SyncStages, source : Sources \cup {NoSource}, atoms : Seq(Atoms),
                todo : SUBSET Atoms, deleted : BOOLEAN, written : Nat,
                outcome : SyncOutcomes, alone : BOOLEAN]

SyncShape ==
    /\ sync \in [Syncers -> SyncRecords]
    /\ today \in [Syncers -> Nat] /\ burst \in [Syncers -> Nat]
    /\ owner \in [Atoms -> Sources \cup {NoSource}]
    /\ onDisk \in [Sources -> Seq(Atoms)]
    /\ batch \in [Syncers -> SUBSET Sources]

Busy(c) == sync[c].pc # "idle"

\* A call that has begun has a source, and no outcome yet.
BusyHasSource == \A c \in Syncers : Busy(c) => sync[c].source \in Sources /\ sync[c].outcome = "none"

\* Before the preflight nothing is deleted or written; after it the rest of the set fits.
NothingYetOf(c) ==
    sync[c].pc \in {"check", "preflight"} => ~sync[c].deleted /\ sync[c].written = 0
RestFitsOf(c) ==
    sync[c].pc \in {"find", "delete", "write"} =>
        LET rest == Len(sync[c].atoms) - sync[c].written
        IN  /\ rest >= 0 /\ today[c] + rest <= DailyMax /\ burst[c] + rest <= BurstMax
            /\ sync[c].pc # "write" => sync[c].written = 0
NothingYet == \A c \in Syncers : NothingYetOf(c)
RestFits == \A c \in Syncers : RestFitsOf(c)

AloneIsAlone ==
    \A c, d \in Syncers :
        (c # d /\ Busy(c) /\ Busy(d) /\ sync[c].source = sync[d].source) => ~sync[c].alone

SyncInv ==
    /\ SyncShape /\ BusyHasSource /\ NothingYet /\ RestFits /\ AloneIsAlone
    /\ NoWriteBesideAPrior

LEMMA CallIsRecord ==
  ASSUME NEW stage \in SyncStages, NEW s \in Sources \cup {NoSource}, NEW list \in Seq(Atoms),
         NEW how \in SyncOutcomes, NEW isAlone \in BOOLEAN
  PROVE  LET r == SyncCall(stage, s, list, how, isAlone)
         IN  /\ r \in SyncRecords
             /\ r.pc = stage /\ r.source = s /\ r.atoms = list /\ r.outcome = how
             /\ r.alone = isAlone /\ ~r.deleted /\ r.written = 0
  BY DEF SyncRecords, SyncCall

LEMMA IdleIsRecord ==
  ASSUME NEW how \in SyncOutcomes
  PROVE  LET r == SyncCall("idle", NoSource, <<>>, how, TRUE)
         IN  r \in SyncRecords /\ r.pc = "idle" /\ r.outcome = how
  <1>1. "idle" \in SyncStages /\ <<>> \in Seq(Atoms) /\ NoSource \in Sources \cup {NoSource}
    BY DEF SyncStages
  <1>2. QED
    BY <1>1, CallIsRecord

\* Nobody syncs.
LEMMA SyncStarts == SyncInit => SyncInv
  <1> SUFFICES ASSUME SyncInit PROVE SyncInv
    OBVIOUS
  <1> USE QuotaAssumption
  <1>1. IdleSync \in SyncRecords /\ IdleSync.pc = "idle"
    BY IdleIsRecord DEF IdleSync, SyncOutcomes
  <1>2. \A s \in Sources : (CHOOSE v \in Versions[s] : TRUE) \in Seq(Atoms)
    <2>1. \A s \in Sources : (CHOOSE v \in Versions[s] : TRUE) \in Versions[s]
      OBVIOUS
    <2>2. QED
      BY <2>1
  <1>3. SyncShape
    BY <1>1, <1>2 DEF SyncInit, SyncShape
  <1>4. \A c \in Syncers : sync[c].pc = "idle"
    BY <1>1 DEF SyncInit
  <1>5. QED
    BY <1>3, <1>4
    DEF SyncInv, BusyHasSource, NothingYet, NothingYetOf, RestFits, RestFitsOf, AloneIsAlone,
        NoWriteBesideAPrior, Busy

-----------------------------------------------------------------------------
(* One step of one call *)

\* What a step of c may do to the rows: leave them, free them, or give a free one that
\* is among its atoms to its source.
OwnersMove(c) ==
    \A a \in Atoms : \/ owner'[a] \in {owner[a], NoSource}
                     \/ /\ sync[c].pc = "write" /\ a \in Expected(c)
                        /\ owner'[a] = sync[c].source

\* What it may do to its own record: end it, or go on with the same set.
GoesOn(c) ==
    /\ Busy(c)
    /\ sync'[c].source = sync[c].source /\ sync'[c].atoms = sync[c].atoms
    /\ sync'[c].alone = sync[c].alone /\ sync'[c].outcome = "none"
    /\ sync'[c].pc = "write" => \/ sync[c].pc = "write"
                                \/ ActiveOf(sync[c].source) = {} /\ owner' = owner

LEMMA OneSyncMoves ==
  ASSUME SyncInv, NEW c \in Syncers, SyncShape', OwnersMove(c),
         \A d \in Syncers \ {c} : sync'[d] = sync[d],
         sync'[c].pc = "idle" \/ GoesOn(c)
  PROVE  BusyHasSource' /\ AloneIsAlone' /\ NoWriteBesideAPrior'
  <1> USE DEF SyncInv, Busy
  <1>1. BusyHasSource'
    BY DEF BusyHasSource, GoesOn
  <1>2. AloneIsAlone'
    BY DEF AloneIsAlone, GoesOn
  <1>3. ASSUME NEW d \in Syncers, sync'[d].pc = "write", sync'[d].alone,
               NEW a \in Atoms, owner'[a] = sync'[d].source
        PROVE  a \in Range(sync'[d].atoms)
    <2>1. sync'[d].source = sync[d].source /\ sync'[d].atoms = sync[d].atoms /\ sync[d].alone
          /\ Busy(d)
      BY <1>3 DEF GoesOn
    <2>2. sync[d].source \in Sources
      BY <2>1 DEF BusyHasSource
    <2>3. owner'[a] # NoSource
      BY <1>3, <2>1, <2>2, QuotaAssumption
    <2>4. CASE owner'[a] = owner[a]
      <3>1. a \in ActiveOf(sync[d].source)
        BY <1>3, <2>1, <2>4 DEF ActiveOf
      <3>2. sync[d].pc = "write"
        BY <1>3, <3>1 DEF GoesOn
      <3>3. QED
        BY <2>1, <3>1, <3>2 DEF NoWriteBesideAPrior, Expected
    <2>5. CASE /\ sync[c].pc = "write" /\ a \in Expected(c)
               /\ owner'[a] = sync[c].source
      <3>1. d = c
        BY <1>3, <2>1, <2>5 DEF AloneIsAlone
      <3>2. QED
        BY <2>1, <2>5, <3>1 DEF Expected
    <2>6. QED
      BY <2>3, <2>4, <2>5 DEF OwnersMove
  <1>4. NoWriteBesideAPrior'
    BY <1>3 DEF NoWriteBesideAPrior, ActiveOf, Expected
  <1>5. QED
    BY <1>1, <1>2, <1>4

\* The quota stops a call before it has deleted or written anything.
QuotaStep ==
    \A c \in Syncers :
        (Busy(c) /\ sync'[c].outcome = "quota") => ~sync[c].deleted /\ sync[c].written = 0

\* All that one step of a call has to show.
LEMMA OneSyncKeeps ==
  ASSUME SyncInv, NEW c \in Syncers, SyncShape', OwnersMove(c),
         \A d \in Syncers \ {c} :
             sync'[d] = sync[d] /\ today'[d] = today[d] /\ burst'[d] = burst[d],
         sync'[c].pc = "idle" \/ (GoesOn(c) /\ NothingYetOf(c)' /\ RestFitsOf(c)'),
         sync'[c].outcome = "quota" => ~sync[c].deleted /\ sync[c].written = 0
  PROVE  SyncInv' /\ QuotaStep
  <1>1. BusyHasSource' /\ AloneIsAlone' /\ NoWriteBesideAPrior'
    BY OneSyncMoves
  <1>2. NothingYet'
    BY DEF SyncInv, NothingYet, NothingYetOf
  <1>3. RestFits'
    BY DEF SyncInv, RestFits, RestFitsOf
  <1>4. QuotaStep
    BY DEF QuotaStep, SyncInv, BusyHasSource
  <1>5. QED
    BY <1>1, <1>2, <1>3, <1>4 DEF SyncInv

LEMMA EndingKeeps ==
  ASSUME SyncInv, NEW c \in Syncers, NEW how \in SyncOutcomes, SyncEnds(c, how),
         OwnersMove(c), owner' \in [Atoms -> Sources \cup {NoSource}],
         UNCHANGED <<onDisk, today, burst, batch>>,
         how = "quota" => ~sync[c].deleted /\ sync[c].written = 0
  PROVE  SyncInv' /\ QuotaStep
  <1>1. /\ SyncCall("idle", NoSource, <<>>, how, TRUE) \in SyncRecords
        /\ SyncCall("idle", NoSource, <<>>, how, TRUE).pc = "idle"
        /\ SyncCall("idle", NoSource, <<>>, how, TRUE).outcome = how
    BY IdleIsRecord
  <1>2. /\ sync' \in [Syncers -> SyncRecords]
        /\ sync'[c].pc = "idle" /\ sync'[c].outcome = how
        /\ \A d \in Syncers \ {c} : sync'[d] = sync[d]
    BY <1>1 DEF SyncEnds, SyncInv, SyncShape
  <1>3. SyncShape'
    BY <1>2 DEF SyncInv, SyncShape
  <1>4. QED
    BY <1>2, <1>3, OneSyncKeeps

\* A call goes on to its next stage with a new record of the same set.
LEMMA GoingKeeps ==
  ASSUME SyncInv, NEW c \in Syncers, Busy(c), NEW r \in SyncRecords,
         sync' = [sync EXCEPT ![c] = r],
         r.source = sync[c].source, r.atoms = sync[c].atoms, r.alone = sync[c].alone,
         r.outcome = sync[c].outcome,
         OwnersMove(c), owner' \in [Atoms -> Sources \cup {NoSource}],
         UNCHANGED <<onDisk, batch>>,
         today' \in [Syncers -> Nat], burst' \in [Syncers -> Nat],
         \A d \in Syncers \ {c} : today'[d] = today[d] /\ burst'[d] = burst[d],
         r.pc = "write" => \/ sync[c].pc = "write"
                           \/ ActiveOf(sync[c].source) = {} /\ owner' = owner,
         NothingYetOf(c)', RestFitsOf(c)'
  PROVE  SyncInv' /\ QuotaStep
  <1>1. /\ sync' \in [Syncers -> SyncRecords] /\ sync'[c] = r
        /\ \A d \in Syncers \ {c} : sync'[d] = sync[d]
    BY DEF SyncInv, SyncShape
  <1>2. SyncShape'
    BY <1>1 DEF SyncInv, SyncShape
  <1>3. sync[c].outcome = "none"
    BY DEF SyncInv, BusyHasSource
  <1>4. GoesOn(c)
    BY <1>1, <1>3 DEF GoesOn
  <1>5. QED
    BY <1>1, <1>2, <1>3, <1>4, OneSyncKeeps

\* The rest of a call's set fits when it begins to look for the old one, and after that
\* no stage but the write changes anything it depends on.
LEMMA StageKeeps ==
  ASSUME SyncInv, NEW c \in Syncers, Busy(c), NEW stage \in SyncStages, SyncGoes(c, stage),
         UNCHANGED <<onDisk, owner, today, burst, batch>>,
         \/ stage = "preflight" /\ sync[c].pc = "check"
         \/ /\ stage = "find" /\ sync[c].pc = "preflight"
            /\ FitsQuota(c, Len(sync[c].atoms))
         \/ stage = "write" /\ sync[c].pc = "delete" /\ ActiveOf(sync[c].source) = {}
  PROVE  SyncInv' /\ QuotaStep
  <1> DEFINE r == [sync[c] EXCEPT !.pc = stage]
  <1>1. sync[c] \in SyncRecords
    BY DEF SyncInv, SyncShape
  <1>2. /\ r \in SyncRecords /\ r.pc = stage
        /\ r.source = sync[c].source /\ r.atoms = sync[c].atoms /\ r.alone = sync[c].alone
        /\ r.outcome = sync[c].outcome /\ r.deleted = sync[c].deleted
        /\ r.written = sync[c].written
    BY <1>1 DEF SyncRecords
  <1>3. sync' = [sync EXCEPT ![c] = r] /\ sync'[c] = r
    BY DEF SyncGoes, SyncInv, SyncShape
  <1> HIDE DEF r
  <1>4. OwnersMove(c) /\ owner' \in [Atoms -> Sources \cup {NoSource}]
    BY DEF OwnersMove, SyncInv, SyncShape
  <1>5. NothingYetOf(c)'
    BY <1>2, <1>3 DEF SyncInv, NothingYet, NothingYetOf
  <1>6. RestFitsOf(c)'
    <2>1. CASE stage = "preflight"
      BY <2>1, <1>2, <1>3 DEF RestFitsOf
    <2>2. CASE stage = "find"
      <3>1. sync[c].written = 0 /\ Len(sync[c].atoms) \in Nat
        BY <2>2, <1>1 DEF SyncInv, NothingYet, NothingYetOf, SyncRecords
      <3>2. today[c] \in Nat /\ burst[c] \in Nat
        BY DEF SyncInv, SyncShape
      <3>3. FitsQuota(c, Len(sync[c].atoms))
        BY <2>2
      <3>4. QED
        BY <2>2, <3>1, <3>2, <3>3, <1>2, <1>3 DEF RestFitsOf, FitsQuota
    <2>3. CASE stage = "write"
      BY <2>3, <1>2, <1>3 DEF SyncInv, RestFits, RestFitsOf
    <2>4. QED
      BY <2>1, <2>2, <2>3
  <1>7. today' \in [Syncers -> Nat] /\ burst' \in [Syncers -> Nat]
    BY DEF SyncInv, SyncShape
  <1>8. r.pc = "write" => sync[c].pc = "write" \/ (ActiveOf(sync[c].source) = {} /\ owner' = owner)
    BY <1>2
  <1>9. QED
    BY <1>2, <1>3, <1>4, <1>5, <1>6, <1>7, <1>8, GoingKeeps

LEMMA OwnersStay ==
  ASSUME SyncInv, NEW c \in Syncers, owner' = owner
  PROVE  OwnersMove(c) /\ owner' \in [Atoms -> Sources \cup {NoSource}]
  BY DEF OwnersMove, SyncInv, SyncShape

LEMMA CheckKeeps ==
  ASSUME SyncInv, NEW c \in Syncers, CheckUnchanged(c)
  PROVE  SyncInv' /\ QuotaStep
  <1>1. sync[c].pc = "check" /\ Busy(c) /\ UNCHANGED <<onDisk, owner, today, burst, batch>>
    BY DEF CheckUnchanged, SyncAt, Busy
  <1>2. SyncEnds(c, "unchanged") \/ SyncGoes(c, "preflight")
    BY DEF CheckUnchanged
  <1>3. CASE SyncEnds(c, "unchanged")
    BY <1>1, <1>3, OwnersStay, EndingKeeps DEF SyncOutcomes
  <1>4. CASE SyncGoes(c, "preflight")
    BY <1>1, <1>4, StageKeeps DEF SyncStages
  <1>5. QED
    BY <1>2, <1>3, <1>4

LEMMA PreflightKeeps ==
  ASSUME SyncInv, NEW c \in Syncers, Preflight(c)
  PROVE  SyncInv' /\ QuotaStep
  <1>1. sync[c].pc = "preflight" /\ Busy(c) /\ UNCHANGED <<onDisk, owner, today, burst, batch>>
    BY DEF Preflight, SyncAt, Busy
  <1>2. \/ SyncEnds(c, "quota")
        \/ SyncGoes(c, "find") /\ FitsQuota(c, Len(sync[c].atoms))
    BY DEF Preflight
  <1>3. ~sync[c].deleted /\ sync[c].written = 0
    BY <1>1 DEF SyncInv, NothingYet, NothingYetOf
  <1>4. CASE SyncEnds(c, "quota")
    BY <1>1, <1>3, <1>4, OwnersStay, EndingKeeps DEF SyncOutcomes
  <1>5. CASE SyncGoes(c, "find") /\ FitsQuota(c, Len(sync[c].atoms))
    BY <1>1, <1>5, StageKeeps DEF SyncStages
  <1>6. QED
    BY <1>2, <1>4, <1>5

LEMMA RecheckKeeps ==
  ASSUME SyncInv, NEW c \in Syncers, RecheckPriors(c)
  PROVE  SyncInv' /\ QuotaStep
  <1>1. sync[c].pc = "delete" /\ Busy(c) /\ UNCHANGED <<onDisk, owner, today, burst, batch>>
    BY DEF RecheckPriors, SyncAt, Busy
  <1>2. \/ SyncEnds(c, "failed")
        \/ SyncGoes(c, "write") /\ ActiveOf(sync[c].source) = {}
    BY DEF RecheckPriors
  <1>3. CASE SyncEnds(c, "failed")
    BY <1>1, <1>3, OwnersStay, EndingKeeps DEF SyncOutcomes
  <1>4. CASE SyncGoes(c, "write") /\ ActiveOf(sync[c].source) = {}
    BY <1>1, <1>4, StageKeeps DEF SyncStages
  <1>5. QED
    BY <1>2, <1>3, <1>4

LEMMA VerifyKeeps ==
  ASSUME SyncInv, NEW c \in Syncers, VerifySet(c)
  PROVE  SyncInv' /\ QuotaStep
  <1>1. UNCHANGED <<onDisk, owner, today, burst, batch>>
    BY DEF VerifySet
  <1>2. SyncEnds(c, "written") \/ SyncEnds(c, "failed")
    BY DEF VerifySet
  <1>3. CASE SyncEnds(c, "written")
    BY <1>1, <1>3, OwnersStay, EndingKeeps DEF SyncOutcomes
  <1>4. CASE SyncEnds(c, "failed")
    BY <1>1, <1>4, OwnersStay, EndingKeeps DEF SyncOutcomes
  <1>5. QED
    BY <1>2, <1>3, <1>4

\* A row that is freed, or stored for this source out of the call's own list.
LEMMA FreeingMoves ==
  ASSUME SyncInv, NEW c \in Syncers, NEW a \in Atoms,
         owner' \in {owner, [owner EXCEPT ![a] = NoSource]}
  PROVE  OwnersMove(c) /\ owner' \in [Atoms -> Sources \cup {NoSource}]
  BY DEF OwnersMove, SyncInv, SyncShape

LEMMA FindKeeps ==
  ASSUME SyncInv, NEW c \in Syncers, FindPriors(c)
  PROVE  SyncInv' /\ QuotaStep
  <1> DEFINE r == [sync[c] EXCEPT !.pc = "delete", !.todo = ActiveOf(sync[c].source)]
  <1>1. sync[c].pc = "find" /\ Busy(c) /\ UNCHANGED <<onDisk, owner, today, burst, batch>>
    BY DEF FindPriors, SyncAt, Busy
  <1>2. SyncEnds(c, "failed") \/ sync' = [sync EXCEPT ![c] = r]
    BY DEF FindPriors, SyncInv, SyncShape
  <1>3. CASE SyncEnds(c, "failed")
    BY <1>1, <1>3, OwnersStay, EndingKeeps DEF SyncOutcomes
  <1>4. CASE sync' = [sync EXCEPT ![c] = r]
    <2>1. sync[c] \in SyncRecords /\ ActiveOf(sync[c].source) \in SUBSET Atoms
      BY DEF SyncInv, SyncShape, ActiveOf
    <2>2. /\ r \in SyncRecords /\ r.pc = "delete"
          /\ r.source = sync[c].source /\ r.atoms = sync[c].atoms /\ r.alone = sync[c].alone
          /\ r.outcome = sync[c].outcome /\ r.written = sync[c].written
      BY <2>1 DEF SyncRecords, SyncStages
    <2> HIDE DEF r
    <2>3. sync'[c] = r
      BY <1>4 DEF SyncInv, SyncShape
    <2>4. NothingYetOf(c)'
      BY <2>2, <2>3 DEF NothingYetOf
    <2>5. RestFitsOf(c)'
      BY <1>1, <2>2, <2>3 DEF SyncInv, RestFits, RestFitsOf
    <2>6. today' \in [Syncers -> Nat] /\ burst' \in [Syncers -> Nat]
      BY <1>1 DEF SyncInv, SyncShape
    <2>7. OwnersMove(c) /\ owner' \in [Atoms -> Sources \cup {NoSource}]
      BY <1>1, OwnersStay
    <2>8. r.pc # "write"
      BY <2>2
    <2>9. QED
      BY <1>1, <1>4, <2>2, <2>4, <2>5, <2>6, <2>7, <2>8, GoingKeeps
  <1>5. QED
    BY <1>2, <1>3, <1>4

LEMMA DeleteKeeps ==
  ASSUME SyncInv, NEW c \in Syncers, DeletePrior(c)
  PROVE  SyncInv' /\ QuotaStep
  <1>1. sync[c].pc = "delete" /\ Busy(c) /\ UNCHANGED <<onDisk, today, burst, batch>>
    BY DEF DeletePrior, SyncAt, Busy
  <1>2. sync[c] \in SyncRecords
    BY DEF SyncInv, SyncShape
  <1>3. PICK a \in sync[c].todo :
            \/ /\ sync' = [sync EXCEPT ![c].todo = @ \ {a},
                                       ![c].deleted = @ \/ owner[a] # NoSource]
               /\ owner' = [owner EXCEPT ![a] = NoSource]
            \/ /\ sync' = [sync EXCEPT ![c].todo = @ \ {a}]
               /\ owner' = owner
            \/ /\ SyncEnds(c, "failed")
               /\ owner' \in {owner, [owner EXCEPT ![a] = NoSource]}
    BY DEF DeletePrior
  <1>4. a \in Atoms
    BY <1>2 DEF SyncRecords
  <1>5. owner' \in {owner, [owner EXCEPT ![a] = NoSource]}
    BY <1>3
  <1>6. OwnersMove(c) /\ owner' \in [Atoms -> Sources \cup {NoSource}]
    BY <1>4, <1>5, FreeingMoves
  <1>7. CASE SyncEnds(c, "failed")
    BY <1>1, <1>6, <1>7, EndingKeeps DEF SyncOutcomes
  <1>8. ASSUME NEW r \in SyncRecords, sync' = [sync EXCEPT ![c] = r], r.pc = "delete",
               r.source = sync[c].source, r.atoms = sync[c].atoms, r.alone = sync[c].alone,
               r.outcome = sync[c].outcome, r.written = sync[c].written
        PROVE  SyncInv' /\ QuotaStep
    <2>1. sync'[c] = r
      BY <1>8 DEF SyncInv, SyncShape
    <2>2. NothingYetOf(c)'
      BY <1>8, <2>1 DEF NothingYetOf
    <2>3. RestFitsOf(c)'
      BY <1>1, <1>8, <2>1 DEF SyncInv, RestFits, RestFitsOf
    <2>4. today' \in [Syncers -> Nat] /\ burst' \in [Syncers -> Nat]
      BY <1>1 DEF SyncInv, SyncShape
    <2>5. r.pc # "write"
      BY <1>8
    <2>6. QED
      BY <1>1, <1>6, <1>8, <2>2, <2>3, <2>4, <2>5, GoingKeeps
  <1>9. CASE sync' = [sync EXCEPT ![c].todo = @ \ {a}]
    <2> DEFINE r == [sync[c] EXCEPT !.todo = @ \ {a}]
    <2>1. /\ r \in SyncRecords /\ r.pc = "delete"
          /\ r.source = sync[c].source /\ r.atoms = sync[c].atoms /\ r.alone = sync[c].alone
          /\ r.outcome = sync[c].outcome /\ r.written = sync[c].written
      BY <1>1, <1>2 DEF SyncRecords
    <2>2. sync' = [sync EXCEPT ![c] = r]
      BY <1>9 DEF SyncInv, SyncShape
    <2>3. QED
      BY <1>8, <2>1, <2>2
  <1>10. CASE sync' = [sync EXCEPT ![c].todo = @ \ {a},
                                   ![c].deleted = @ \/ owner[a] # NoSource]
    <2> DEFINE r == [sync[c] EXCEPT !.todo = @ \ {a}, !.deleted = @ \/ owner[a] # NoSource]
    <2>1. /\ r \in SyncRecords /\ r.pc = "delete"
          /\ r.source = sync[c].source /\ r.atoms = sync[c].atoms /\ r.alone = sync[c].alone
          /\ r.outcome = sync[c].outcome /\ r.written = sync[c].written
      BY <1>1, <1>2 DEF SyncRecords
    <2>2. sync' = [sync EXCEPT ![c] = r]
      BY <1>10 DEF SyncInv, SyncShape
    <2>3. QED
      BY <1>8, <2>1, <2>2
  <1>11. QED
    BY <1>3, <1>7, <1>9, <1>10

LEMMA WriteKeeps ==
  ASSUME SyncInv, NEW c \in Syncers, WriteAtom(c)
  PROVE  SyncInv' /\ QuotaStep
  <1> DEFINE a == sync[c].atoms[sync[c].written + 1]
             stored == IF owner[a] = NoSource THEN [owner EXCEPT ![a] = sync[c].source]
                       ELSE owner
             r == [sync[c] EXCEPT !.written = @ + 1]
  <1>1. /\ sync[c].pc = "write" /\ Busy(c) /\ UNCHANGED <<onDisk, batch>>
        /\ sync[c].written < Len(sync[c].atoms)
    BY DEF WriteAtom, SyncAt, Busy
  <1>2. /\ sync[c] \in SyncRecords /\ today[c] \in Nat /\ burst[c] \in Nat
        /\ sync[c].written \in Nat /\ sync[c].atoms \in Seq(Atoms)
        /\ Len(sync[c].atoms) \in Nat
    BY DEF SyncInv, SyncShape, SyncRecords
  <1>3. a \in Atoms /\ a \in Expected(c)
    BY <1>1, <1>2 DEF Expected, Range
  <1>4. sync[c].source \in Sources
    BY <1>1 DEF SyncInv, BusyHasSource
  <1>5. OwnersMove(c) /\ owner' \in [Atoms -> Sources \cup {NoSource}]
    <2>1. owner' \in {owner, stored}
      BY DEF WriteAtom
    <2>2. owner \in [Atoms -> Sources \cup {NoSource}]
      BY DEF SyncInv, SyncShape
    <2>3. QED
      BY <1>1, <1>3, <1>4, <2>1, <2>2 DEF OwnersMove
  \* The preflight left room for this atom: the quota cannot stop the write.
  <1>6. MayWrite(c)
    <2>1. LET rest == Len(sync[c].atoms) - sync[c].written
          IN  today[c] + rest <= DailyMax /\ burst[c] + rest <= BurstMax
      BY <1>1 DEF SyncInv, RestFits, RestFitsOf
    <2>2. DailyMax \in Nat /\ BurstMax \in Nat
      BY QuotaAssumption
    <2>3. QED
      BY <1>1, <1>2, <2>1, <2>2 DEF MayWrite
  <1>7. CASE SyncEnds(c, "failed") /\ UNCHANGED <<today, burst>>
    BY <1>1, <1>5, <1>7, EndingKeeps DEF SyncOutcomes
  <1>8. CASE /\ sync' = [sync EXCEPT ![c].written = @ + 1]
             /\ \E fresh \in BOOLEAN : RecordWrite(c, fresh)
    <2>1. /\ r \in SyncRecords /\ r.pc = "write" /\ r.written = sync[c].written + 1
          /\ r.source = sync[c].source /\ r.atoms = sync[c].atoms /\ r.alone = sync[c].alone
          /\ r.outcome = sync[c].outcome
      BY <1>1, <1>2 DEF SyncRecords
    <2>2. sync' = [sync EXCEPT ![c] = r]
      BY <1>8 DEF SyncInv, SyncShape
    <2> HIDE DEF r
    <2>3. sync'[c] = r
      BY <2>2 DEF SyncInv, SyncShape
    <2>4. PICK n \in {0, 1} : /\ today' = [today EXCEPT ![c] = @ + n]
                              /\ burst' = [burst EXCEPT ![c] = @ + n]
      BY <1>8 DEF RecordWrite
    <2>5. /\ today' \in [Syncers -> Nat] /\ burst' \in [Syncers -> Nat]
          /\ today'[c] = today[c] + n /\ burst'[c] = burst[c] + n
          /\ \A d \in Syncers \ {c} : today'[d] = today[d] /\ burst'[d] = burst[d]
      BY <2>4 DEF SyncInv, SyncShape
    <2>6. NothingYetOf(c)'
      BY <2>1, <2>3 DEF NothingYetOf
    <2>7. RestFitsOf(c)'
      <3>1. LET rest == Len(sync[c].atoms) - sync[c].written
            IN  today[c] + rest <= DailyMax /\ burst[c] + rest <= BurstMax
        BY <1>1 DEF SyncInv, RestFits, RestFitsOf
      <3>2. DailyMax \in Nat /\ BurstMax \in Nat
        BY QuotaAssumption
      <3>3. LET rest == Len(sync[c].atoms) - (sync[c].written + 1)
            IN  rest >= 0 /\ today[c] + n + rest <= DailyMax /\ burst[c] + n + rest <= BurstMax
        <4> DEFINE left == Len(sync[c].atoms) - sync[c].written
        <4>1. left \in Nat /\ left >= 1
          BY <1>1, <1>2
        <4>2. Len(sync[c].atoms) - (sync[c].written + 1) = left - 1
          BY <1>2
        <4>3. today[c] + left <= DailyMax /\ burst[c] + left <= BurstMax
          BY <3>1
        <4> HIDE DEF left
        <4>4. n = 0 \/ n = 1
          OBVIOUS
        <4>5. left - 1 >= 0 /\ today[c] + n + (left - 1) <= DailyMax
              /\ burst[c] + n + (left - 1) <= BurstMax
          BY <1>2, <3>2, <4>1, <4>3, <4>4
        <4>6. QED
          BY <4>2, <4>5
      <3>4. QED
        BY <2>1, <2>3, <2>5, <3>3 DEF RestFitsOf
    <2>8. QED
      BY <1>1, <1>5, <2>1, <2>2, <2>5, <2>6, <2>7, GoingKeeps
  <1>9. QED
    <2>1. \/ ~MayWrite(c)
          \/ /\ sync' = [sync EXCEPT ![c].written = @ + 1]
             /\ RecordWrite(c, owner[a] = NoSource)
          \/ SyncEnds(c, "failed") /\ UNCHANGED <<today, burst>>
      BY DEF WriteAtom
    <2>2. QED
      BY <1>6, <1>7, <1>8, <2>1

LEMMA SyncStepKeeps ==
  ASSUME SyncInv, NEW c \in Syncers, SyncStep(c)
  PROVE  SyncInv' /\ QuotaStep
  BY CheckKeeps, PreflightKeeps, FindKeeps, DeleteKeeps, RecheckKeeps, WriteKeeps, VerifyKeeps
  DEF SyncStep

-----------------------------------------------------------------------------
(* The steps around a call *)

\* A process that dies, or is followed by the next one.
LEMMA FreshKeeps ==
  ASSUME SyncInv, NEW c \in Syncers, FreshProcess(c), sync' = [sync EXCEPT ![c] = IdleSync]
  PROVE  SyncInv' /\ QuotaStep
  <1>1. IdleSync \in SyncRecords /\ IdleSync.pc = "idle" /\ IdleSync.outcome = "none"
    BY IdleIsRecord DEF IdleSync, SyncOutcomes
  <1>2. /\ sync' \in [Syncers -> SyncRecords]
        /\ sync'[c].pc = "idle" /\ sync'[c].outcome = "none"
        /\ \A d \in Syncers \ {c} :
               sync'[d] = sync[d] /\ today'[d] = today[d] /\ burst'[d] = burst[d]
    BY <1>1 DEF FreshProcess, SyncInv, SyncShape
  <1>3. SyncShape'
    BY <1>2 DEF FreshProcess, SyncInv, SyncShape
  <1>4. OwnersMove(c)
    BY OwnersStay DEF FreshProcess
  <1>5. QED
    BY <1>2, <1>3, <1>4, OneSyncKeeps

LEMMA WindowKeeps ==
  ASSUME SyncInv, NEW c \in Syncers, WindowSlides(c)
  PROVE  SyncInv' /\ QuotaStep
  <1>1. PICK n \in 0..burst[c] - 1 : burst' = [burst EXCEPT ![c] = n]
    BY DEF WindowSlides
  <1>2. UNCHANGED <<onDisk, owner, sync, today, batch>>
    BY DEF WindowSlides
  <1>3. burst \in [Syncers -> Nat] /\ n \in Nat /\ n <= burst[c]
    BY <1>1 DEF SyncInv, SyncShape
  <1>4. burst' \in [Syncers -> Nat] /\ \A d \in Syncers : burst'[d] <= burst[d]
    BY <1>1, <1>3
  <1>5. SyncShape' /\ BusyHasSource' /\ NothingYet' /\ AloneIsAlone' /\ NoWriteBesideAPrior'
    BY <1>2, <1>4
    DEF SyncInv, SyncShape, BusyHasSource, NothingYet, NothingYetOf, AloneIsAlone, Busy,
        NoWriteBesideAPrior, ActiveOf, Expected
  <1>6. RestFits'
    <2>1. ASSUME NEW d \in Syncers, sync[d].pc \in {"find", "delete", "write"}
          PROVE  burst'[d] + (Len(sync[d].atoms) - sync[d].written) <= BurstMax
      <3>1. burst[d] + (Len(sync[d].atoms) - sync[d].written) <= BurstMax
        BY <2>1 DEF SyncInv, RestFits, RestFitsOf
      <3>2. sync[d].written \in Nat /\ Len(sync[d].atoms) \in Nat /\ BurstMax \in Nat
            /\ burst[d] \in Nat /\ burst'[d] \in Nat
        BY <1>3, <1>4, QuotaAssumption DEF SyncInv, SyncShape, SyncRecords
      <3>3. QED
        BY <1>4, <3>1, <3>2
    <2>2. QED
      BY <1>2, <2>1 DEF SyncInv, RestFits, RestFitsOf
  <1>7. QuotaStep
    BY <1>2 DEF QuotaStep, SyncInv, BusyHasSource
  <1>8. QED
    BY <1>5, <1>6, <1>7 DEF SyncInv

LEMMA EditKeeps ==
  ASSUME SyncInv, NEW s \in Sources, EditFile(s)
  PROVE  SyncInv' /\ QuotaStep
  <1>1. PICK v \in Versions[s] : onDisk' = [onDisk EXCEPT ![s] = v]
    BY DEF EditFile
  <1>2. v \in Seq(Atoms)
    BY QuotaAssumption
  <1>3. UNCHANGED <<owner, sync, today, burst, batch>>
    BY DEF EditFile
  <1>4. SyncShape'
    BY <1>1, <1>2, <1>3 DEF SyncInv, SyncShape
  <1>5. QED
    BY <1>3, <1>4
    DEF SyncInv, BusyHasSource, NothingYet, NothingYetOf, RestFits, RestFitsOf, AloneIsAlone,
        Busy, NoWriteBesideAPrior, ActiveOf, Expected, QuotaStep

\* A call that begins beside another one of its source takes that one's loneliness away.
LEMMA BeginKeeps ==
  ASSUME SyncInv, NEW c \in Syncers, NEW s \in Sources, BeginSync(c, s)
  PROVE  SyncInv' /\ QuotaStep
  <1> DEFINE others == {d \in Syncers \ {c} : Busy(d) /\ sync[d].source = s}
             r == SyncCall("check", s, onDisk[s], "none", others = {})
  <1>1. /\ sync[c].pc = "idle"
        /\ sync' = [d \in Syncers |-> IF d = c THEN r
                                      ELSE IF d \in others THEN [sync[d] EXCEPT !.alone = FALSE]
                                      ELSE sync[d]]
        /\ batch' = [batch EXCEPT ![c] = @ \ {s}]
        /\ UNCHANGED <<onDisk, owner, today, burst>>
    BY DEF BeginSync, SyncAt, Busy
  <1>2. sync \in [Syncers -> SyncRecords] /\ onDisk[s] \in Seq(Atoms)
    BY DEF SyncInv, SyncShape
  <1>3. /\ r \in SyncRecords /\ r.pc = "check" /\ r.source = s /\ r.outcome = "none"
        /\ r.alone = (others = {}) /\ ~r.deleted /\ r.written = 0
    <2>1. "check" \in SyncStages /\ "none" \in SyncOutcomes /\ (others = {}) \in BOOLEAN
      BY DEF SyncStages, SyncOutcomes
    <2>2. s \in Sources \cup {NoSource}
      OBVIOUS
    <2>3. SyncCall("check", s, onDisk[s], "none", others = {}) \in SyncRecords
      BY <1>2, <2>1, <2>2 DEF SyncCall, SyncRecords
    <2>4. QED
      BY <2>3 DEF SyncCall
  <1>4. ASSUME NEW d \in Syncers \ {c}
        PROVE  /\ sync'[d] \in SyncRecords
               /\ sync'[d].pc = sync[d].pc /\ sync'[d].source = sync[d].source
               /\ sync'[d].atoms = sync[d].atoms /\ sync'[d].outcome = sync[d].outcome
               /\ sync'[d].deleted = sync[d].deleted /\ sync'[d].written = sync[d].written
               /\ sync'[d].alone => sync[d].alone /\ d \notin others
    <2>1. sync[d] \in SyncRecords
      BY <1>2
    <2>2. CASE d \in others
      <3>1. sync'[d] = [sync[d] EXCEPT !.alone = FALSE]
        BY <1>1, <2>2
      <3>2. QED
        BY <2>1, <3>1 DEF SyncRecords
    <2>3. CASE d \notin others
      <3>1. sync'[d] = sync[d]
        BY <1>1, <2>3
      <3>2. QED
        BY <2>1, <2>3, <3>1
    <2>4. QED
      BY <2>2, <2>3
  <1>5. sync'[c] = r
    BY <1>1
  <1> HIDE DEF r
  <1>6. SyncShape'
    <2>1. sync' = [d \in Syncers |-> sync'[d]]
      BY <1>1
    <2>2. sync' \in [Syncers -> SyncRecords]
      BY <1>3, <1>4, <1>5, <2>1
    <2>3. QED
      BY <1>1, <2>2 DEF SyncInv, SyncShape
  <1>7. BusyHasSource'
    BY <1>3, <1>4, <1>5 DEF SyncInv, BusyHasSource, Busy
  <1>8. NothingYet'
    BY <1>3, <1>4, <1>5 DEF SyncInv, NothingYet, NothingYetOf
  <1>9. RestFits'
    BY <1>1, <1>3, <1>4, <1>5 DEF SyncInv, RestFits, RestFitsOf
  <1>10. AloneIsAlone'
    <2>1. \A d, e \in Syncers \ {c} :
            (d # e /\ Busy(d)' /\ Busy(e)' /\ sync'[d].source = sync'[e].source)
                => ~sync'[d].alone
      BY <1>4 DEF SyncInv, AloneIsAlone, Busy
    <2>2. \A d \in Syncers \ {c} :
            (Busy(d)' /\ sync'[d].source = s) => d \in others
      BY <1>4 DEF Busy
    <2>3. \A d \in Syncers \ {c} :
            (Busy(d)' /\ sync'[d].source = s) => ~sync'[d].alone /\ ~sync'[c].alone
      BY <1>3, <1>4, <1>5, <2>2
    <2>4. QED
      BY <1>3, <1>5, <2>1, <2>3 DEF AloneIsAlone
  <1>11. NoWriteBesideAPrior'
    BY <1>1, <1>3, <1>4, <1>5 DEF SyncInv, NoWriteBesideAPrior, ActiveOf, Expected
  <1>12. QuotaStep
    BY <1>1, <1>4 DEF QuotaStep, SyncInv, BusyHasSource, Busy
  <1>13. QED
    BY <1>6, <1>7, <1>8, <1>9, <1>10, <1>11, <1>12 DEF SyncInv

-----------------------------------------------------------------------------
(* The theorems *)

LEMMA SyncMoves == SyncInv /\ [SyncNext]_syncVars => SyncInv' /\ QuotaStep
  <1> SUFFICES ASSUME SyncInv, [SyncNext]_syncVars PROVE SyncInv' /\ QuotaStep
    OBVIOUS
  <1>1. CASE UNCHANGED syncVars
    BY <1>1
    DEF syncVars, SyncInv, SyncShape, BusyHasSource, NothingYet, NothingYetOf, RestFits,
        RestFitsOf, AloneIsAlone, Busy, NoWriteBesideAPrior, ActiveOf, Expected, QuotaStep
  <1>2. ASSUME NEW c \in Syncers, CrashSyncer(c) \/ NextBatch(c) PROVE SyncInv' /\ QuotaStep
    BY <1>2, FreshKeeps DEF CrashSyncer, NextBatch
  <1>3. QED
    BY <1>1, <1>2, SyncStepKeeps, WindowKeeps, BeginKeeps, EditKeeps DEF SyncNext

\* Nothing is written beside a row of an earlier version by a call that is alone on its source.
THEOREM SetsAreReplacedWhole == SyncSpec => []NoWriteBesideAPrior
  <1>1. SyncInv => NoWriteBesideAPrior
    BY DEF SyncInv
  <1>2. QED
    BY <1>1, SyncStarts, SyncMoves, PTL DEF SyncSpec

\* The quota never stops a call between the deletion of the old set and the end of the new one.
THEOREM QuotaKeepsSetsWhole == SyncSpec => QuotaNeverSplitsASet
  <1>1. QuotaStep =>
          \A c \in Syncers : (sync[c].pc # "idle" /\ sync'[c].outcome = "quota")
                                 => (~sync[c].deleted /\ sync[c].written = 0)
    BY DEF QuotaStep, Busy
  <1>2. QED
    BY <1>1, SyncStarts, SyncMoves, PTL DEF SyncSpec, QuotaNeverSplitsASet

=============================================================================
