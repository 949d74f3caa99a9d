---------------------------- MODULE MCToolInstall ----------------------------
(* An instance of ToolInstall for TLC: an archive of two members.            *)
EXTENDS ToolInstall, TLC

CONSTANTS r1, r2

TwoMembers == <<"anvil", "cast">>
Either == Permutations(Runs)
=============================================================================
