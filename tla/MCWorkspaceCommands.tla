------------------------- MODULE MCWorkspaceCommands --------------------------
(* Instances of the workspace's commands for TLC.                          *)
EXTENDS WorkspaceCommandsProperties, TLC

CONSTANTS u1, u2  \* two members with the same rights

Everyone == {"olga", "adam", "vera"}
MCRoles == "olga" :> "owner" @@ "adam" :> "admin" @@ "vera" :> "none"

MCPair == {u1, u2}
MCMembers == [u \in MCPair |-> "member"]
MCSymmetry == Permutations(MCPair)
=============================================================================
