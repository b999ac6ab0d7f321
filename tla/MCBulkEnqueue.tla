--------------------------- MODULE MCBulkEnqueue ---------------------------
(***************************************************************************)
(* Instances of BulkEnqueue for TLC: c1 enqueues a batch with its own      *)
(* pipeline, c2 one for the group; both have the unique job s.             *)
(***************************************************************************)
EXTENDS BulkEnqueue, TLC

CONSTANTS a, b,             \* parents
          c1, c2,           \* clients
          s, p, d          \* jobs: unique, plain and dependent

MCUnique == c1 :> {s} @@ c2 :> {s}
MCPlain == c1 :> {} @@ c2 :> {p}
MCDependent == c1 :> {d} @@ c2 :> {}
MCDependsOn == d :> {a, b}

=============================================================================
