------------------------------ MODULE Resolver ------------------------------
(***************************************************************************)
(* The preference resolver (resolver/engine.py): it maps a candidate to a  *)
(* slot of the registry.  An exact or alias match decides at once, unless  *)
(* the text carries evidence of another high-risk slot; then, and without  *)
(* a match, a language model may choose from a small set of slots.  The    *)
(* model is called on a thread that is abandoned when its time is up       *)
(* (resolver/fallback.py), and its confidence must reach the threshold of  *)
(* the calibrated slice.  Names, scores and texts are abstracted to what   *)
(* they lead to: the match, the evidence and the best-ranked slots.        *)
(***************************************************************************)
EXTENDS Naturals, FiniteSets

CONSTANTS
    Slots,          \* slots of the registry
    HighRisk,       \* those of them marked high_risk
    Uids,           \* request uids of one run
    NoSlot,         \* no slot
    Manifests,      \* what the engine may be configured with
    TopConfidence,  \* calibrated confidences are 0..TopConfidence
    MaxCalls,       \* RunBudget.max_calls
    ChoiceK,        \* V1_CHOICE_SET_K
    MaxForced       \* MAX_FORCED

ASSUME ResolverAssumption ==
    /\ IsFiniteSet(Slots) /\ HighRisk \subseteq Slots /\ NoSlot \notin Slots
    /\ TopConfidence \in Nat /\ MaxCalls \in Nat
    /\ ChoiceK \in Nat /\ MaxForced \in Nat /\ MaxForced <= ChoiceK
    /\ Manifests \subseteq [llm : BOOLEAN, bound : BOOLEAN,
                            benign : [valid : BOOLEAN, tau : Nat],
                            hr : [valid : BOOLEAN, tau : Nat]]

VARIABLES
    engineConfig,  \* [llm, bound, benign, hr]: the configuration and its slices
    budgetCalls,  \* budget.calls_made
    resolving,  \* the request in progress
    legThreads,  \* [Uids \X 1..2 -> state of that attempt's thread]
    decided     \* [Uids -> decision]

resolverVars == <<engineConfig, budgetCalls, resolving, legThreads, decided>>

LegsReserved == 2       \* LLM_LEGS_RESERVED

NotResolving == [pc |-> "idle"]
NotDecided == [outcome |-> "-"]
NoConfig == [llm |-> FALSE, bound |-> FALSE, benign |-> [valid |-> FALSE, tau |-> 0],
             hr |-> [valid |-> FALSE, tau |-> 0]]

ResolverInit ==
    /\ engineConfig = NoConfig
    /\ budgetCalls = 0
    /\ resolving = NotResolving
    /\ legThreads = [t \in Uids \X (1..2) |-> "none"]
    /\ decided = [u \in Uids |-> NotDecided]

\* The engine is built with a manifest; an enabled one whose hashes do not bind to
\* this code, registry and model disables the language model, and never fails.
BuildEngine(m) ==
    /\ engineConfig = NoConfig /\ \A u \in Uids : decided[u] = NotDecided
    /\ resolving = NotResolving
    /\ engineConfig' = m
    /\ UNCHANGED <<budgetCalls, resolving, legThreads, decided>>

-----------------------------------------------------------------------------
(* The deterministic part.                                                 *)

\* An exact id, else an original alias, else a folded alias, which never names a
\* high-risk slot.  A high-risk slot that is named is evidence for itself.
Candidates ==
    {[target |-> t, matched |-> m] : t \in Slots \cup {NoSlot}, m \in SUBSET HighRisk}
Sensible(r) == r.target \in HighRisk => r.target \in r.matched

\* requires_hr_escalation
GuardFires(r) == r.target # NoSlot /\ r.matched # {} /\ r.matched # {r.target}

Forced(r) == r.matched \cup (IF GuardFires(r) THEN {r.target} ELSE {})

\* More slots are forced than a choice set may hold of them.
Overflows(r) == Cardinality(Forced(r)) > MaxForced

\* The slots that score, as many as fit behind the forced ones; an overflow is
\* returned before anything is ranked.
TopRanked(r) ==
    IF Overflows(r) THEN {{}}
    ELSE {top \in SUBSET (Slots \ Forced(r)) :
              Cardinality(top) <= ChoiceK - Cardinality(Forced(r))}

\* Mutant: only the evidence makes a choice a high-risk one.
SliceByEvidence(r, choices) == IF r.matched # {} THEN "hr" ELSE "benign"

SliceOf(r, choices) == IF r.matched # {} \/ choices \cap HighRisk # {} THEN "hr" ELSE "benign"

PureTopUp(r, choices) == SliceOf(r, choices) = "hr" /\ r.matched = {}
\* _slice_is_valid for every slice whose threshold is applied.
SlicesHold(r, choices) ==
    /\ engineConfig[SliceOf(r, choices)].valid
    /\ PureTopUp(r, choices) => engineConfig.benign.valid
Tau(r, choices) ==
    IF PureTopUp(r, choices) /\ engineConfig.benign.tau > engineConfig.hr.tau
    THEN engineConfig.benign.tau ELSE engineConfig[SliceOf(r, choices)].tau

Decision(r, choices, slot, confidence, outcome) ==
    [slot |-> slot, confidence |-> confidence, outcome |-> outcome,
     target |-> r.target, matched |-> r.matched, choices |-> choices,
     highRisk |-> \/ r.matched # {} \/ GuardFires(r) \/ slot \in HighRisk
                  \/ choices # {} /\ SliceOf(r, choices) = "hr"]
Decides(u, d) == decided' = [decided EXCEPT ![u] = d]
Abstains(u, r, choices, why) == Decides(u, Decision(r, choices, NoSlot, 0, why))

\* resolve up to the call of the provider.  A uid is resolved once.
Resolve(u, r, top) ==
    LET choices == Forced(r) \cup top
    IN  /\ resolving = NotResolving /\ decided[u] = NotDecided
        /\ Sensible(r) /\ top \in TopRanked(r)
        /\ \/ /\ r.target # NoSlot /\ ~GuardFires(r)
              /\ Decides(u, Decision(r, {}, r.target, TopConfidence, "deterministic_hit"))
              /\ UNCHANGED <<resolving, budgetCalls, legThreads>>
           \/ /\ r.target = NoSlot \/ GuardFires(r)
              /\ LET early == IF ~engineConfig.llm \/ ~engineConfig.bound THEN "disabled"
                              ELSE IF MaxCalls < budgetCalls + LegsReserved THEN "budget_exhausted"
                              ELSE "-"
                     blocked == IF Overflows(r) THEN "forced_set_overflow"
                                ELSE IF choices = {} THEN "empty_choice_set"
                                ELSE IF ~SlicesHold(r, choices) THEN "disabled"
                                ELSE "-"
                 IN  IF early # "-" \/ blocked # "-"
                     THEN /\ IF early # "-" THEN Abstains(u, r, {}, early)
                                            ELSE Abstains(u, r, choices, blocked)
                          /\ UNCHANGED <<resolving, budgetCalls, legThreads>>
                     ELSE /\ budgetCalls' = budgetCalls + 1
                          /\ resolving' = [pc |-> "wait", uid |-> u, text |-> r,
                                         choices |-> choices, attempt |-> 1]
                          /\ legThreads' = [legThreads EXCEPT ![<<u, 1>>] = "running"]
                          /\ UNCHANGED decided
        /\ UNCHANGED engineConfig

-----------------------------------------------------------------------------
(* The language model: two attempts, the second one only after a failure   *)
(* of the transport or a timeout.                                          *)

Waiting(t) == resolving # NotResolving /\ t = <<resolving.uid, resolving.attempt>>

\* The chat function returns or raises, in time or long after nobody waits for it.
ThreadEnds(t) ==
    /\ legThreads[t] = "running"
    /\ legThreads' = [legThreads EXCEPT ![t] = "ended"]
    /\ UNCHANGED <<engineConfig, budgetCalls, resolving, decided>>

\* The attempt answers within its time: a choice, ABSTAIN, or what does not parse;
\* an answer whose measured latency exceeds the limit counts as a timeout.
AnswerInTime(t) ==
    LET r == resolving.text
        u == resolving.uid
        choices == resolving.choices
    IN  /\ Waiting(t) /\ legThreads[t] = "ended"
        /\ \/ \E slot \in choices, c \in 0..TopConfidence :
                 IF c >= Tau(r, choices)
                 THEN Decides(u, Decision(r, choices, slot, c, "selected"))
                 ELSE Abstains(u, r, choices, "low_confidence")
           \/ \E why \in {"abstained", "invalid_output", "timeout"} :
                 Abstains(u, r, choices, why)
        /\ resolving' = NotResolving
        /\ UNCHANGED <<engineConfig, budgetCalls, legThreads>>

\* It raises, or its time is up: the thread is left to itself.
AttemptFails(t, why) ==
    /\ Waiting(t)
    /\ why = "transport_failed" => legThreads[t] = "ended"
    /\ IF resolving.attempt = 1
       THEN /\ resolving' = [resolving EXCEPT !.attempt = 2]
            /\ legThreads' = [legThreads EXCEPT ![<<resolving.uid, 2>>] = "running"]
            /\ UNCHANGED decided
       ELSE /\ Abstains(resolving.uid, resolving.text, resolving.choices, why)
            /\ resolving' = NotResolving /\ UNCHANGED legThreads
    /\ UNCHANGED <<engineConfig, budgetCalls>>

ResolverNext ==
    \/ \E m \in Manifests : BuildEngine(m)
    \/ \E u \in Uids, r \in Candidates, top \in SUBSET Slots : Resolve(u, r, top)
    \/ \E t \in DOMAIN legThreads :
        \/ ThreadEnds(t) \/ AnswerInTime(t)
        \/ \E why \in {"transport_failed", "timeout"} : AttemptFails(t, why)

ResolverSpec == ResolverInit /\ [][ResolverNext]_resolverVars

-----------------------------------------------------------------------------
(* What the resolver promises.                                             *)

\* A decision that touches a high-risk slot is marked, and is either backed by
\* that slot's own evidence alone, or was picked among all the evidence and the
\* named slot with a confidence that reaches the high-risk threshold: also when the
\* only high-risk slot was ranked into the choices of a harmless text, whose benign
\* threshold it must then reach too.  Evidence of more slots than a choice set holds
\* is never cut down to fit one (resolve, assemble_blocking).
HighRiskIsArbitrated ==
    \A u \in Uids :
        LET d == decided[u]
        IN  (d # NotDecided /\ d.outcome \in {"selected", "deterministic_hit"}
               /\ (d.slot \in HighRisk \/ d.matched # {})) =>
                /\ d.highRisk
                /\ \/ d.matched = {d.slot}
                   \/ /\ d.outcome = "selected"
                      /\ d.matched \cup ({d.target} \ {NoSlot}) \subseteq d.choices
                      /\ Cardinality(d.choices) <= ChoiceK
                      /\ d.confidence >= engineConfig.hr.tau
                      /\ d.matched = {} => d.confidence >= engineConfig.benign.tau

\* A run leaves a bounded number of threads behind, even if no call ever returns:
\* two for each call the budget allows, which keeps one leg in reserve (_call:
\* at most 2 * max_calls threads even under total outage).
ThreadsAreBounded ==
    Cardinality({t \in DOMAIN legThreads : legThreads[t] = "running"})
        <= 2 * (IF MaxCalls > 0 THEN MaxCalls - 1 ELSE 0)

=============================================================================
