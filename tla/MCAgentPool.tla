----------------------------- MODULE MCAgentPool -----------------------------
(* Instances of AgentPool for TLC: every worktree is in the one distro.         *)
EXTENDS AgentPool

CONSTANT d1
OneDistro == [w \in Worktrees |-> d1]
=============================================================================
