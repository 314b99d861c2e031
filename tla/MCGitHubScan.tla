---------------------------- MODULE MCGitHubScan ----------------------------
(* Two access points: a code search, then issues and pull requests. *)
EXTENDS GitHubScan
MCPlan == <<"code", "issues", "issues", "code", "issues", "issues">>
=============================================================================
