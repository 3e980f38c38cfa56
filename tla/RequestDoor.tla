---------------------------- MODULE RequestDoor ----------------------------
(***************************************************************************)
(* The two doors of the HTTP facade (http/app.py): the REST stack behind   *)
(* ServingGateMiddleware and AuthMiddleware, and the /mcp mount behind     *)
(* _handle_mcp, with the tools of mcp_tools.py that run on the event       *)
(* loop's default thread pool.                                             *)
(*                                                                         *)
(*   doorBoot - outcome of the startup self-check and receipt activation   *)
(*   buckets  - the RateLimiter of each door: admission times per token    *)
(*   admitted - every admission of this boot, per door and token           *)
(*   asks     - the requests, each sent once                               *)
(*   backlog  - tool calls waiting for a thread, oldest first              *)
(*   seconds  - the clock of the limiters, taken never to run backwards    *)
(*                                                                         *)
(* A REST handler runs in the server's own pool and answers at once here;  *)
(* what the handlers do is the subject of other modules.                   *)
(***************************************************************************)
EXTENDS Integers, Sequences, FiniteSets, SequencesExt

CONSTANTS
    Asks,               \* requests
    Tokens,             \* bearers presented
    Bearing,            \* what resolve_bearer and the owner check make of each
    SubmitRegistered,   \* the profile routes every write to the queue
    ApprovalRegistered, \* the transport is local_cli and can be built
    PerMinute, Minute,  \* requests_per_minute, and the window's length
    PoolSize,           \* threads of the default executor
    MaxSeconds,         \* bound: ticks of the clock
    MaxBoots            \* bound: restarts of the process

Doors == {"rest", "mcp"}

Decisions == {"list_pending", "approve", "reject"}
Tools == {"search", "submit"} \cup Decisions

ASSUME DoorAssumption ==
    /\ Bearing \in [Tokens -> {"owner", "other", "unknown"}]
    /\ SubmitRegistered \in BOOLEAN /\ ApprovalRegistered \in BOOLEAN
    /\ PerMinute \in Nat \ {0} /\ Minute \in Nat \ {0} /\ PoolSize \in Nat \ {0}
    /\ MaxSeconds \in Nat /\ MaxBoots \in Nat

VARIABLES doorBoot, buckets, admitted, asks, backlog, seconds

doorVars == <<doorBoot, buckets, admitted, asks, backlog, seconds>>

Unsent == [at |-> "unsent", tool |-> "search"]

NoTimes == [d \in Doors |-> [t \in Tokens |-> <<>>]]

DoorTypeOK ==
    /\ doorBoot \in [count : 0..MaxBoots, serving : {"pending", "yes", "no"}]
    /\ \A d \in Doors, t \in Tokens :
         /\ buckets[d][t] \in Seq(0..MaxSeconds) /\ Len(buckets[d][t]) =< PerMinute
         /\ admitted[d][t] \in Seq(0..MaxSeconds)
    /\ asks \in [Asks -> [at : {"unsent", "refused", "waiting", "running", "abandoned",
                                "answered", "lost"},
                          tool : Tools]]
    /\ backlog \in Seq(Asks)
    /\ seconds \in 0..MaxSeconds

DoorInit ==
    /\ doorBoot = [count |-> 0, serving |-> "pending"]
    /\ buckets = NoTimes
    /\ admitted = NoTimes
    /\ asks = [q \in Asks |-> Unsent]
    /\ backlog = <<>>
    /\ seconds = 0

-----------------------------------------------------------------------------
(* The process *)

\* lifespan: the gate is set once, by the self-check and the activation.
Boot(verdict) ==
    /\ doorBoot.serving = "pending"
    /\ doorBoot' = [doorBoot EXCEPT !.serving = verdict]
    /\ UNCHANGED <<buckets, admitted, asks, backlog, seconds>>

\* A restart forgets the limiters and everything under way.
RestartProcess ==
    /\ doorBoot.count < MaxBoots
    /\ doorBoot' = [count |-> doorBoot.count + 1, serving |-> "pending"]
    /\ buckets' = NoTimes
    /\ admitted' = NoTimes
    /\ asks' = [q \in Asks |-> IF asks[q].at \in {"waiting", "running", "abandoned"}
                               THEN [asks[q] EXCEPT !.at = "lost"] ELSE asks[q]]
    /\ backlog' = <<>>
    /\ UNCHANGED seconds

DoorTick ==
    /\ seconds < MaxSeconds
    /\ seconds' = seconds + 1
    /\ UNCHANGED <<doorBoot, buckets, admitted, asks, backlog>>

-----------------------------------------------------------------------------
(* The doors *)

Serving == doorBoot.serving = "yes"

\* What the limiter pops from the left: entries of some age, one after another.
Popped(age, times) == {i \in DOMAIN times : \A j \in 1..i : seconds - times[j] >= age}

WindowOf(age, times) == SubSeq(times, Cardinality(Popped(age, times)) + 1, Len(times))

\* Mutant: the limiter drops an entry a tick before its minute is over.
EagerWindow(times) == WindowOf(Minute - 1, times)

\* RateLimiter.allow: entries older than the window fall out first.
LiveWindow(times) == WindowOf(Minute, times)

\* Mutant: one more than the limit is let in.
HasOneMore(d, t) == Len(LiveWindow(buckets[d][t])) =< PerMinute

HasBudget(d, t) == Len(LiveWindow(buckets[d][t])) < PerMinute

SpendBudget(d, t) ==
    /\ buckets' = [buckets EXCEPT ![d][t] = Append(LiveWindow(@), seconds)]
    /\ admitted' = [admitted EXCEPT ![d][t] = Append(@, seconds)]

\* Refused at the gate or for its bearer: no budget is spent.
TurnAway(q, tool) ==
    /\ asks' = [asks EXCEPT ![q] = [at |-> "refused", tool |-> tool]]
    /\ UNCHANGED <<doorBoot, buckets, admitted, backlog, seconds>>

\* ServingGate and AuthMiddleware, or _handle_mcp with its owner check
Passes(d, t) == Serving /\ Bearing[t] \in (IF d = "mcp" THEN {"owner"} ELSE {"owner", "other"})

RefuseAtDoor(q, d, t, tool) ==
    /\ asks[q].at = "unsent"
    /\ ~Passes(d, t)
    /\ TurnAway(q, tool)

\* Over budget: the bucket is pruned, and nothing is entered.
RefuseOverBudget(q, d, t, tool) ==
    /\ asks[q].at = "unsent"
    /\ Passes(d, t)
    /\ ~HasBudget(d, t)
    /\ buckets' = [buckets EXCEPT ![d][t] = LiveWindow(@)]
    /\ asks' = [asks EXCEPT ![q] = [at |-> "refused", tool |-> tool]]
    /\ UNCHANGED <<doorBoot, admitted, backlog, seconds>>

\* A REST route: the approval routes want the owner and a transport.
ServeRest(q, t, tool) ==
    /\ asks[q].at = "unsent"
    /\ Passes("rest", t) /\ HasBudget("rest", t)
    /\ SpendBudget("rest", t)
    /\ asks' = [asks EXCEPT ![q] =
                  [at |-> IF tool \in Decisions /\ ~(Bearing[t] = "owner" /\ ApprovalRegistered)
                          THEN "refused" ELSE "answered",
                   tool |-> tool]]
    /\ UNCHANGED <<doorBoot, backlog, seconds>>

Registered(tool) ==
    /\ tool = "submit" => SubmitRegistered
    /\ tool \in Decisions => ApprovalRegistered

\* A tool call: queued for the executor, or refused as unknown.
DispatchTool(q, t, tool) ==
    /\ asks[q].at = "unsent"
    /\ Passes("mcp", t) /\ HasBudget("mcp", t)
    /\ SpendBudget("mcp", t)
    /\ asks' = [asks EXCEPT ![q] = [at |-> IF Registered(tool) THEN "waiting" ELSE "refused",
                                    tool |-> tool]]
    /\ backlog' = IF Registered(tool) THEN Append(backlog, q) ELSE backlog
    /\ UNCHANGED <<doorBoot, seconds>>

-----------------------------------------------------------------------------
(* The executor *)

Busy == {q \in Asks : asks[q].at \in {"running", "abandoned"}}

StartThread ==
    /\ backlog # <<>>
    /\ Cardinality(Busy) < PoolSize
    /\ asks' = [asks EXCEPT ![Head(backlog)].at = "running"]
    /\ backlog' = Tail(backlog)
    /\ UNCHANGED <<doorBoot, buckets, admitted, seconds>>

\* wait_for gives up on a search: one not started is cancelled, one under way
\* is answered with an error and keeps its thread.
SearchTimesOut(q) ==
    /\ asks[q].tool = "search"
    /\ \/ /\ asks[q].at = "waiting"
          /\ asks' = [asks EXCEPT ![q].at = "refused"]
          /\ \E i \in DOMAIN backlog : backlog[i] = q /\ backlog' = RemoveAt(backlog, i)
       \/ /\ asks[q].at = "running"
          /\ asks' = [asks EXCEPT ![q].at = "abandoned"]
          /\ UNCHANGED backlog
    /\ UNCHANGED <<doorBoot, buckets, admitted, seconds>>

\* Mutant: nothing ends the store call of a search that was given up.
HeldForGood(q) ==
    /\ asks[q].at = "running"
    /\ asks' = [asks EXCEPT ![q].at = "answered"]
    /\ UNCHANGED <<doorBoot, buckets, admitted, backlog, seconds>>

\* The handler's call returns or raises; the store's calls carry a timeout.
ThreadReturns(q) ==
    /\ asks[q].at \in {"running", "abandoned"}
    /\ asks' = [asks EXCEPT ![q].at = IF @ = "abandoned" THEN "refused" ELSE "answered"]
    /\ UNCHANGED <<doorBoot, buckets, admitted, backlog, seconds>>

DoorNext ==
    \/ \E verdict \in {"yes", "no"} : Boot(verdict)
    \/ RestartProcess
    \/ DoorTick
    \/ \E q \in Asks, t \in Tokens, tool \in Tools :
         \/ \E d \in Doors : RefuseAtDoor(q, d, t, tool) \/ RefuseOverBudget(q, d, t, tool)
         \/ ServeRest(q, t, tool)
         \/ DispatchTool(q, t, tool)
    \/ StartThread
    \/ \E q \in Asks : SearchTimesOut(q) \/ ThreadReturns(q)

DoorSpec ==
    /\ DoorInit /\ [][DoorNext]_doorVars
    /\ WF_doorVars(StartThread)
    /\ \A q \in Asks : WF_doorVars(ThreadReturns(q))

-----------------------------------------------------------------------------
(* Properties *)

\* Between two admissions of a token at one door that lie PerMinute apart in
\* their order, a whole window passes: no minute, wherever it starts, sees
\* more than the limit (RateLimiter.allow).
RateWindowHolds ==
    \A d \in Doors, t \in Tokens :
       LET times == admitted[d][t]
       IN \A i \in 1..(Len(times) - PerMinute) : times[i + PerMinute] - times[i] >= Minute

\* A decision that passed the door gets a thread and an answer, though timed
\* out searches keep theirs (mcp_tools._handle_search): the store calls end.
DecisionGetsAThread ==
    \A q \in Asks :
       (asks[q].at = "waiting" /\ asks[q].tool \in Decisions)
         ~> (asks[q].at \in {"answered", "lost"})

=============================================================================
