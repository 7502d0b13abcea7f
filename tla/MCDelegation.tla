---------------------------- MODULE MCDelegation ----------------------------
(* A small instance of Delegation: one agent with tools, one whose skill and
   definition have no tool in common, two failures allowed, and budgets that
   two children of a batch can outspend together. *)
EXTENDS Delegation

B(s, r, c) == [steps |-> s, requests |-> r, calls |-> c]
MCAgentTools == [a \in Agents |-> {"Read"}]
MCSkillTools == [a \in Agents |-> IF a = "worker" THEN {"Read"} ELSE {"Edit"}]
MCAgentLimit == [a \in Agents |-> B(9, 9, 9)]
Ask(a, budget) == [agent |-> a, task |-> "task", asked |-> budget]
MCRequests == {Ask("worker", B(9, 9, 9)), Ask("worker", B(9, 0, 9)), Ask("mute", B(9, 9, 9)),
               Ask(Stranger, B(9, 9, 9))}
MCRootBudget == B(2, 2, 4)
MCChildBudget == B(1, 2, 2)
=============================================================================
