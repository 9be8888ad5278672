----------------------------- MODULE MCFindings -----------------------------
(* Instances of FindingsIngestion for TLC. *)
EXTENDS FindingsIngestion, TLC

\* 1 and 2 have the same key, 1 and 3 the same snippet; 2 and 3 read alike.
Keys == 1 :> "overflow" @@ 2 :> "overflow" @@ 3 :> "leak"
Snippets == 1 :> "snippet" @@ 2 :> NoSnippet @@ 3 :> "snippet"
Alike == {{2, 3}}

=============================================================================
