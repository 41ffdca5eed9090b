---------------------------- MODULE MCSandboxMounts ----------------------------
(***************************************************************************)
(* Names: 1 the staging directory, 2 app, 3 usr, 4 home, 5 run, 6 proc.    *)
(* Host paths begin with 9: 9.1 the runtime, 9.2 home, 9.3 files, 9.4 the  *)
(* documents, 9.5 extensions, 9.6 the generated graphics tree, 9.7 the     *)
(* runtime directory.                                                      *)
(***************************************************************************)
EXTENDS SandboxMounts

File(source, target) == Nullfs(source, target, TRUE, TRUE)

\* A runtime with a file projected into it and a merged directory, of which the
\* deployment's entry 2 is left out and 3 is replaced.
RuntimePlan ==
    <<Nullfs(<<9, 1>>, <<3>>, TRUE, FALSE),
      File(<<9, 3>>, <<3, 4>>),
      [op |-> "merge", source |-> <<9, 1, 7>>, target |-> <<3, 7>>, base |-> {1, 2, 3},
       holes |-> {2}, entries |-> [n \in {3} |-> <<9, 5, 3>>], whole |-> TRUE],
      Nullfs(<<9, 6>>, <<3, 8>>, TRUE, FALSE),
      Special(<<2>>)>>

\* A home with a file in it, a directory and a file of its own shown again, and a
\* mask.
HomePlan ==
    <<Nullfs(<<9, 2>>, <<4>>, FALSE, FALSE),
      File(<<9, 3>>, <<4, 1>>),
      Nullfs(<<9, 2, 2>>, <<4, 2>>, TRUE, FALSE),
      File(<<9, 2, 5>>, <<4, 5>>),
      Tmpfs(<<4, 3>>)>>

\* The document directory, beside a home with a directory of its own shown again
\* and before another mount.
DocumentPlan ==
    <<Nullfs(<<9, 2>>, <<4>>, FALSE, FALSE),
      Nullfs(<<9, 2, 2>>, <<4, 2>>, TRUE, FALSE),
      Nullfs(<<9, 7>>, <<5>>, FALSE, FALSE),
      Nullfs(<<9, 4>>, DocDir, TRUE, FALSE),
      Attach,
      Special(<<6>>)>>

\* A merge of nothing, one whose entries are exactly one directory, and a mountpoint
\* in use.
DirectPlan ==
    <<[op |-> "merge", source |-> <<9, 1, 8>>, target |-> <<3>>, base |-> {1},
       holes |-> {}, entries |-> <<>>, whole |-> TRUE],
      [op |-> "merge", source |-> <<9, 1, 7>>, target |-> <<2>>, base |-> {},
       holes |-> {}, entries |-> [n \in {1, 2} |-> <<9, 5, n>>], whole |-> TRUE],
      Nullfs(<<9, 6>>, <<2>>, TRUE, FALSE)>>

MCPlans == {RuntimePlan, HomePlan, DocumentPlan, DirectPlan}

MCDocDir == <<5, 1>>

MCGrants == {<<5, 1, 1>>, <<5, 1, 2>>}

MCGenerated == <<9, 6>>
===============================================================================
