------------------------------ MODULE MCFileOps ------------------------------
(* Small instances of FileOps: two directories of the same shape. *)
EXTENDS FileOps

MCPaths ==
  {<<"ux0">>, <<"ux0", "a">>, <<"ux0", "a", "b">>, <<"ux0", "a", "b", "a">>, <<"ux0", "a", "a">>,
   <<"ux0", "b">>, <<"ux0", "b", "b">>, <<"ux0", "b", "b", "a">>, <<"ux0", "b", "a">>}

\* Every tree over these paths whose device is there.
MCTrees ==
  {t \in [MCPaths -> {None, Dir, <<"ux0">>}] : t[<<"ux0">>] = Dir /\ IsTree(t)}
==============================================================================
