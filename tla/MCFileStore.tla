---------------------------- MODULE MCFileStore ----------------------------
EXTENDS FileStore

(* Directory d, its file a, and the numbered names restoring may give them. *)
MCPaths == {<<"d">>, <<"d", "a">>, <<"d (1)">>, <<"d (1)", "a">>}
MCCandidates ==
  [n \in {"d", "a", "d (1)"} |-> IF n = "d" THEN <<"d (1)">> ELSE <<>>]
MCSizeOf == [h \in Hashes |-> IF h = CHOOSE g \in Hashes : TRUE THEN 1 ELSE 2]
=============================================================================
