------------------------ MODULE MCIntegrationRunner ------------------------
(***************************************************************************)
(* A scenario and one other goroutine, with two clients and two threads.   *)
(***************************************************************************)
EXTENDS IntegrationRunner, TLC

CONSTANTS runner, other, c1, c2, t1, t2

MCHome == runner :> t1 @@ other :> t2

\* For the runner making a client, the script, one repeated call and Close; for the
\* other three operations, such as making, using and closing a client.
MCMaxUses == runner :> Len(Script) + 3 @@ other :> 3

ClientSymmetry == Permutations({c1, c2})
=============================================================================
