----------------------------- MODULE MCToolGate -----------------------------
(* An instance of ToolGate for TLC: one call of each kind the profiles tell *)
(* apart, two skills, a child that may edit, and two references that        *)
(* resolve to one credential.                                               *)
EXTENDS ToolGate

MCCalls ==
  {ReadCall("source"), WriteCall("source", FALSE), WriteCall("lockfile", TRUE),
   EditCall("kernel-policy"), MoveCall("source", "outside"),
   ShellCall("shell", <<>>, FALSE, <<>>), ShellCall("install", <<>>, TRUE, <<>>),
   ShellCall("dev", <<>>, FALSE, <<"token", "alias">>),
   McpCall, DelegateCall, SkillCall}

MCSkills ==
  {[name |-> "reviewing", tools |-> {"Shell", "Skill", "Delegate", "Mcp"}, profile |-> "review"],
   [name |-> "focus", tools |-> {"Write", "Edit", "Skill"}, profile |-> "none"]}

MCCredential == [token |-> "value", alias |-> "value"]
MCRegistered == [value |-> 0]
=============================================================================
