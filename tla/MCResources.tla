---------------------------- MODULE MCResources ----------------------------
(* Resources over one slot of each kind: always read-only, always writable, *)
(* and either.                                                              *)
EXTENDS Resources

MCSlots ==
  {<<SourceTree, 1>>, <<BuildWorkspace, 0>>, <<ManagedTargetRoot, 0>>}
=============================================================================
