---------------------------- MODULE MCDeployment ----------------------------
(***************************************************************************)
(* Small instances of Deployment: five migrations, of which the first has  *)
(* no effect that matters here.                                            *)
(***************************************************************************)
EXTENDS Deployment

=============================================================================
