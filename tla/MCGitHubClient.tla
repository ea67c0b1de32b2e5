--------------------------- MODULE MCGitHubClient ---------------------------
EXTENDS GitHubClient

(* Two releases of one repository. *)
MCMaxVersion == [u \in Urls |-> IF u = "release" THEN 2 ELSE 1]
=============================================================================
