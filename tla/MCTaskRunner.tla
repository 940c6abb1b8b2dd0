---------------------------- MODULE MCTaskRunner ----------------------------
(* Small instances of TaskRunner for TLC.                                  *)
EXTENDS TaskRunner

\* Every exported operation on every scope.
AllUses == [s \in Scopes |-> {"read", "mutation", "exclusive", "cancel",
                               "invalidate", "close"}]
\* Two scopes that contend for the worker: the first replaces and cancels its
\* reads and mutations, the second has exclusive mutations.
ContendUses ==
  LET first == CHOOSE s \in Scopes : TRUE IN
  [s \in Scopes |-> IF s = first THEN {"read", "mutation", "cancel"}
                                 ELSE {"exclusive"}]
=============================================================================
