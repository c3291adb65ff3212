---------------------------- MODULE CommandLog ----------------------------
(***************************************************************************)
(* What the command engine promises, without queue, worker, memory, faults  *)
(* or crashes: an append-only log to which each command id contributes at    *)
(* most once, all of its events in one step, decided against the state the   *)
(* log gives at that very point.                                            *)
(***************************************************************************)
EXTENDS OrchestrationDomain

CONSTANTS Commands

VARIABLES
    log,        \* every event, in sequence order
    state,      \* the read model after all of them
    verdicts    \* per command id: "none", "accepted" or "rejected"

logVars == <<log, state, verdicts>>

LogInit ==
    /\ log = <<>>
    /\ state = EmptyReadModel
    /\ verdicts = [id \in CommandIds |-> "none"]

\* The read model after a plan.
ApplyPlan(m, plan) ==
    LET after[i \in 0..Len(plan)] ==
          IF i = 0 THEN m ELSE ProjectEvent(after[i - 1], plan[i], m.snapshotSequence + i)
    IN  after[Len(plan)]

Accept(command) ==
    /\ verdicts[command.commandId] = "none"
    /\ \E plan \in DecidePlans(state, command) :
          /\ log' = log \o plan
          /\ state' = ApplyPlan(state, plan)
    /\ verdicts' = [verdicts EXCEPT ![command.commandId] = "accepted"]

Reject(command) ==
    /\ verdicts[command.commandId] = "none"
    /\ verdicts' = [verdicts EXCEPT ![command.commandId] = "rejected"]
    /\ UNCHANGED <<log, state>>

LogNext == \E command \in Commands : Accept(command) \/ Reject(command)

LogSpec == LogInit /\ [][LogNext]_logVars
=============================================================================
