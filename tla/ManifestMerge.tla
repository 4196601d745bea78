---------------------------- MODULE ManifestMerge ----------------------------
(* The effect of the merge loop of run_sync_session as one operation.       *)
EXTENDS CrdtStore, Folds

\* {what becomes of es when all entries of a manifest are merged into it}, the
\* last one last; IsBefore is the order of their paths.
MergeAll(es, entries, IsBefore(_, _)) ==
  LET LastOf(rest) == CHOOSE e \in rest : \A f \in rest : f = e \/ IsBefore(f.path, e.path)
  IN MapThenFoldSet(LAMBDA e, merged : {merge_remote(m, e) : m \in merged},
                    {es}, LAMBDA e : e, LastOf, entries)
=============================================================================
