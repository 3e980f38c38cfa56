---------------------------- MODULE GovernedMemory ----------------------------
(***************************************************************************)
(* What the box promises, without queue claims, leases, calls or crashes:  *)
(* a candidate becomes a memory only after somebody decided so on the      *)
(* record, for these very bytes; a decision is final; what was forgotten   *)
(* can be written once more by a call that was already past its decision,  *)
(* and by nobody else.                                                     *)
(***************************************************************************)
EXTENDS Naturals

CONSTANTS Ids, Contents, None

VARIABLES
    phase,      \* where each proposal stands
    bound,      \* the bytes an approval is bound to, None without a receipt
    ledger,     \* the decisions on record: <<id, decision, bytes>>
    memory      \* what is durable: the approval behind each content

memoryVars == <<phase, bound, ledger, memory>>

Phases == {"unproposed", "awaiting", "approved", "rejected", "forgotten"}
Verdicts == {"approve", "reject"}

Decided(i, verdict, c) == <<i, verdict, c>> \in ledger

MemoryTypeOK ==
    /\ phase \in [Ids -> Phases]
    /\ bound \in [Ids -> Contents \cup {None}]
    /\ ledger \subseteq Ids \X Verdicts \X (Contents \cup {None})
    /\ memory \in [Contents -> Ids \cup {None}]

MemoryInit ==
    /\ phase = [i \in Ids |-> "unproposed"]
    /\ bound = [i \in Ids |-> None]
    /\ ledger = {}
    /\ memory = [c \in Contents |-> None]

-----------------------------------------------------------------------------

Suggest(i) ==
    /\ phase[i] = "unproposed"
    /\ phase' = [phase EXCEPT ![i] = "awaiting"]
    /\ UNCHANGED <<bound, ledger, memory>>

\* Somebody decides; the decision may yet come too late to take effect.
PutOnRecord(i, verdict, c) ==
    /\ phase[i] # "unproposed"
    /\ ledger' = ledger \cup {<<i, verdict, c>>}
    /\ UNCHANGED <<phase, bound, memory>>

ApproveAs(i, c) ==
    /\ phase[i] = "awaiting"
    /\ Decided(i, "approve", c)
    /\ phase' = [phase EXCEPT ![i] = "approved"]
    /\ bound' = [bound EXCEPT ![i] = c]
    /\ UNCHANGED <<ledger, memory>>

\* An approval without a decision on record binds nothing.
ApproveUnrecorded(i) ==
    /\ phase[i] = "awaiting"
    /\ phase' = [phase EXCEPT ![i] = "approved"]
    /\ UNCHANGED <<bound, ledger, memory>>

Refuse(i) ==
    /\ phase[i] = "awaiting"
    /\ Decided(i, "reject", None)
    /\ phase' = [phase EXCEPT ![i] = "rejected"]
    /\ UNCHANGED <<bound, ledger, memory>>

\* The late write of a forgotten approval is the second alternative.
Remember(i, c) ==
    /\ memory[c] = None
    /\ \/ phase[i] = "approved" /\ bound[i] = c
       \/ phase[i] = "forgotten"
    /\ Decided(i, "approve", c)
    /\ memory' = [memory EXCEPT ![c] = i]
    /\ UNCHANGED <<phase, bound, ledger>>

Erase(c) ==
    /\ memory[c] # None
    /\ memory' = [memory EXCEPT ![c] = None]
    /\ UNCHANGED <<phase, bound, ledger>>

\* One forget may take several proposals of the same content.
ForgetAll(S) ==
    /\ \A i \in S : phase[i] \notin {"unproposed", "forgotten"}
    /\ phase' = [i \in Ids |-> IF i \in S THEN "forgotten" ELSE phase[i]]
    /\ bound' = [i \in Ids |-> IF i \in S THEN None ELSE bound[i]]
    /\ UNCHANGED <<ledger, memory>>

MemoryNext ==
    \/ \E i \in Ids : Suggest(i) \/ ApproveUnrecorded(i) \/ Refuse(i)
    \/ \E i \in Ids, c \in Contents : ApproveAs(i, c) \/ Remember(i, c)
    \/ \E i \in Ids, v \in Verdicts, c \in Contents \cup {None} : PutOnRecord(i, v, c)
    \/ \E c \in Contents : Erase(c)
    \/ \E S \in SUBSET Ids : ForgetAll(S)

MemorySpec == MemoryInit /\ [][MemoryNext]_memoryVars

=============================================================================
