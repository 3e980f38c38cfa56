---------------------------- MODULE BridgeHealth ----------------------------
(***************************************************************************)
(* The freshness tracking of the bridges (bridge_health.py).  After each   *)
(* run a bridge records how it went: a streak of runs with source errors,  *)
(* and when each wing was last written.  Crossing a threshold makes an     *)
(* alert.  A first transaction records the run and finds the alerts, each  *)
(* alert is then given to the hook of the run, a last transaction moves    *)
(* the marks that keep a delivered alert from being sent again, and only   *)
(* then are the alerts written to the log.  A delivery may raise and the   *)
(* process may die in between; an alert must not be lost by that.  A run   *)
(* without a sink has only the log, and its hook returns having done       *)
(* nothing: its marks are committed before anybody can hear of the alerts. *)
(***************************************************************************)
EXTENDS Naturals, FiniteSets

CONSTANTS
    Bridges, Wings,
    StreakThreshold,    \* STREAK_ALERT_THRESHOLD
    StaleAfter,         \* STALENESS_ALERT_THRESHOLD_DAYS, in ticks of the clock
    SinkSettings,       \* the environments a sync script may be started in
    MaxStreak, MaxTime,  \* bounds: failed runs in a row, and the clock
    MaxSlips            \* bound: raised deliveries, crashes, maintenance runs

ASSUME BridgeAssumption ==
    /\ StreakThreshold \in Nat \ {0} /\ StaleAfter \in Nat \ {0}
    /\ MaxStreak \in Nat /\ MaxTime \in Nat /\ MaxSlips \in Nat
    /\ "streak" \notin Wings

VARIABLES
    health,     \* bridge_health: streak and last_alerted_streak
    wingFresh,  \* wing_freshness: last_written_at and last_alerted_at, 0 for no row
    bridgeRun,  \* the run each bridge is recording
    bridgeClock, slips,
    \* For the properties, each since the last clean run, or fresh write of the wing:
    heard,      \* what reached a sink, or the log of a run that has no other
    unlogged    \* what such a run marked and died before it could log

bridgeVars == <<health, wingFresh, bridgeRun, bridgeClock, slips, heard, unlogged>>

AlertKinds == {"streak"} \cup Wings
NoBridgeRun ==
    [pc |-> "idle", env |-> {}, now |-> 0, level |-> 0, todo |-> {}, sent |-> {}]
NoHearing == [levels |-> {}, wings |-> {}]

BridgeInit ==
    /\ health = [b \in Bridges |-> [streak |-> 0, mark |-> 0]]
    /\ wingFresh = [b \in Bridges |-> [w \in Wings |-> [written |-> 0, mark |-> 0]]]
    /\ bridgeRun = [b \in Bridges |-> NoBridgeRun]
    /\ bridgeClock = 1 /\ slips = 0
    /\ heard = [b \in Bridges |-> NoHearing]
    /\ unlogged = [b \in Bridges |-> NoHearing]

-----------------------------------------------------------------------------
(* Where an alert goes: the first sink that is configured, else the log.   *)

AlertSink(env) ==
    CASE "webhook_url" \in env -> "webhook"
      [] "webhook_url" \notin env /\ "bridge_discord" \in env -> "discord"
      [] env \cap {"webhook_url", "bridge_discord"} = {} /\ "telegram" \in env -> "telegram"
      [] OTHER -> "log"

\* Does the hook make a request at all?  Telegram without its token and chat id
\* returns, as the hook of the log does, and record_run counts that as delivered.
AlertPosts(env) ==
    \/ AlertSink(env) \in {"webhook", "discord"}
    \/ AlertSink(env) = "telegram" /\ "telegram_credentials" \in env

-----------------------------------------------------------------------------
(* One run of a bridge.                                                    *)

NextStreak(b, errors, wrote) ==
    IF ~errors /\ wrote THEN 0
    ELSE IF errors THEN health[b].streak + 1 ELSE health[b].streak

TouchedWings(b, wings, now) ==
    [w \in Wings |->
        IF w \in wings /\ now > wingFresh[b][w].written THEN [written |-> now, mark |-> 0]
        ELSE wingFresh[b][w]]

StaleWings(rows, now) ==
    {w \in Wings : /\ rows[w].written > 0
                   /\ now >= rows[w].written + StaleAfter
                   /\ rows[w].mark < rows[w].written}

\* What is left of the hearings of a bridge when a run is recorded.
Still(hearings, clean, b, rows) ==
    [levels |-> IF clean THEN {} ELSE hearings.levels,
     wings  |-> {w \in hearings.wings : rows[w].written = wingFresh[b][w].written}]

\* Phase 1, in the environment the script was started in.  The candidate is held
\* against the mark of before the run; a clean run clears the mark.  Under
\* maintenance the state is recorded and no alert made.
RecordRun(b, env, errors, wrote, wings, maintenance) ==
    LET streak == NextStreak(b, errors, wrote)
        rows   == TouchedWings(b, IF wrote THEN wings ELSE {}, bridgeClock)
        due    == {a \in AlertKinds :
                      IF a = "streak"
                      THEN streak >= StreakThreshold /\ streak > health[b].mark
                      ELSE a \in StaleWings(rows, bridgeClock)}
        clean  == ~errors /\ wrote
    IN  /\ bridgeRun[b].pc = "idle"
        /\ streak <= MaxStreak
        /\ health' = [health EXCEPT ![b] =
                        [streak |-> streak, mark |-> IF clean THEN 0 ELSE @.mark]]
        /\ wingFresh' = [wingFresh EXCEPT ![b] = rows]
        /\ heard' = [heard EXCEPT ![b] = Still(@, clean, b, rows)]
        /\ unlogged' = [unlogged EXCEPT ![b] = Still(@, clean, b, rows)]
        /\ bridgeRun' = IF maintenance \/ due = {} THEN bridgeRun
                  ELSE [bridgeRun EXCEPT ![b] =
                          [pc |-> "deliver", env |-> env, now |-> bridgeClock,
                           level |-> streak, todo |-> due, sent |-> {}]]
        /\ UNCHANGED bridgeClock

HealthyRun(b) ==
    \E env \in SinkSettings, errors, wrote \in BOOLEAN, wings \in SUBSET Wings :
        RecordRun(b, env, errors, wrote, wings, FALSE) /\ UNCHANGED slips

MaintenanceRun(b) ==
    /\ slips < MaxSlips /\ slips' = slips + 1
    /\ \E env \in SinkSettings, errors, wrote \in BOOLEAN, wings \in SUBSET Wings :
        RecordRun(b, env, errors, wrote, wings, TRUE)

\* Hearings with the alerts of a run, or of its steps, added.
Added(hearings, alerts, level) ==
    [levels |-> IF "streak" \in alerts THEN hearings.levels \cup {level} ELSE hearings.levels,
     wings  |-> hearings.wings \cup (alerts \cap Wings)]

\* Phase 2, one alert: the hook returned, with or without having sent anything.
DeliverAlert(b, a) ==
    LET r == bridgeRun[b]
    IN  /\ r.pc = "deliver" /\ a \in r.todo
        /\ bridgeRun' = [bridgeRun EXCEPT ![b].todo = @ \ {a}, ![b].sent = @ \cup {a}]
        /\ heard' = IF AlertPosts(r.env)
                    THEN [heard EXCEPT ![b] = Added(@, {a}, r.level)] ELSE heard
        /\ UNCHANGED <<health, wingFresh, bridgeClock, slips, unlogged>>

DeliveryRaises(b, a) ==
    /\ bridgeRun[b].pc = "deliver" /\ a \in bridgeRun[b].todo
    /\ AlertPosts(bridgeRun[b].env)
    /\ slips < MaxSlips /\ slips' = slips + 1
    /\ bridgeRun' = [bridgeRun EXCEPT ![b].todo = @ \ {a}]
    /\ UNCHANGED <<health, wingFresh, bridgeClock, heard, unlogged>>

\* Mutant: an alert is marked whether or not it was delivered.
MarkEveryAlert(b) ==
    /\ bridgeRun[b].pc = "deliver" /\ bridgeRun[b].todo = {}
    /\ health' = [health EXCEPT ![b].mark = bridgeRun[b].level]
    /\ bridgeRun' = [bridgeRun EXCEPT ![b].pc = "log"]
    /\ UNCHANGED <<wingFresh, bridgeClock, slips, heard, unlogged>>

\* Phase 3: the marks of the alerts that count as delivered, in one transaction.
MarkAlerted(b) ==
    LET r == bridgeRun[b]
    IN  /\ r.pc = "deliver" /\ r.todo = {}
        /\ health' = IF "streak" \in r.sent
                     THEN [health EXCEPT ![b].mark = r.level] ELSE health
        /\ wingFresh' = [wingFresh EXCEPT ![b] =
                        [w \in Wings |-> IF w \in r.sent THEN [@[w] EXCEPT !.mark = r.now]
                                         ELSE @[w]]]
        /\ bridgeRun' = [bridgeRun EXCEPT ![b].pc = "log"]
        /\ UNCHANGED <<bridgeClock, slips, heard, unlogged>>

\* Only a run without a sink is heard through the log, which comes last.
LogOnly(r) == r.pc = "log" /\ ~AlertPosts(r.env)
ToBeLogged(b) == IF LogOnly(bridgeRun[b]) THEN bridgeRun[b].sent ELSE {}

LogAlerts(b) ==
    /\ bridgeRun[b].pc = "log"
    /\ heard' = [heard EXCEPT ![b] = Added(@, ToBeLogged(b), bridgeRun[b].level)]
    /\ bridgeRun' = [bridgeRun EXCEPT ![b] = NoBridgeRun]
    /\ UNCHANGED <<health, wingFresh, bridgeClock, slips, unlogged>>

\* The process dies, or the last transaction fails and the error is logged.
RunDies(b) ==
    /\ bridgeRun[b].pc # "idle"
    /\ slips < MaxSlips /\ slips' = slips + 1
    /\ unlogged' = [unlogged EXCEPT ![b] = Added(@, ToBeLogged(b), bridgeRun[b].level)]
    /\ bridgeRun' = [bridgeRun EXCEPT ![b] = NoBridgeRun]
    /\ UNCHANGED <<health, wingFresh, bridgeClock, heard>>

BridgeTick ==
    /\ bridgeClock < MaxTime /\ bridgeClock' = bridgeClock + 1
    /\ UNCHANGED <<health, wingFresh, bridgeRun, slips, heard, unlogged>>

Recording(b) ==
    MarkAlerted(b) \/ LogAlerts(b) \/ \E a \in AlertKinds : DeliverAlert(b, a)

BridgeNext ==
    \/ \E b \in Bridges :
        \/ HealthyRun(b) \/ MaintenanceRun(b) \/ Recording(b) \/ RunDies(b)
        \/ \E a \in AlertKinds : DeliveryRaises(b, a)
    \/ BridgeTick

\* A bridge is run again and again, and a run that has begun goes on.
BridgeFairness ==
    \A b \in Bridges :
        /\ WF_bridgeVars(HealthyRun(b))
        /\ WF_bridgeVars(Recording(b))

BridgeSpec == BridgeInit /\ [][BridgeNext]_bridgeVars /\ BridgeFairness

-----------------------------------------------------------------------------
(* What the tracking promises.                                             *)

Mutes(row) == row.written > 0 /\ row.mark >= row.written

\* What the comments say of the marks ("gated on the alert actually reaching its
\* sink"): between the runs of a bridge, the outage level that is marked, and a wing
\* whose staleness is marked, was heard of since the last clean run, or fresh write.
\* It needs a sink that posts: a run that has only the log may die before it logs.
MutedWasHeard ==
    \A b \in Bridges : bridgeRun[b].pc = "idle" =>
        /\ health[b].mark # 0 => health[b].mark \in heard[b].levels
        /\ \A w \in Wings : Mutes(wingFresh[b][w]) => w \in heard[b].wings

\* What the code keeps: at every moment a mark mutes only what was heard, what the
\* run in progress is about to log, or what a run without a sink left unlogged when
\* it died.  A delivery that raised and a run that posts and dies leave no mark.
MutedIsAccountedFor ==
    \A b \in Bridges :
        /\ health[b].mark # 0 =>
             \/ health[b].mark \in heard[b].levels \cup unlogged[b].levels
             \/ "streak" \in ToBeLogged(b) /\ health[b].mark = bridgeRun[b].level
        /\ \A w \in Wings : Mutes(wingFresh[b][w]) =>
             w \in heard[b].wings \cup unlogged[b].wings \cup ToBeLogged(b)

\* An outage that reaches the threshold is heard of, or ends, unless a run that has
\* only the log marked this very level and died before the log: no other crash between
\* the phases and no delivery that raised loses the alert for good.
OutageIsHeard ==
    \A b \in Bridges :
        (health[b].streak >= StreakThreshold)
            ~> \/ health[b].streak = 0 \/ heard[b].levels # {}
               \/ health[b].streak \in unlogged[b].levels

=============================================================================
