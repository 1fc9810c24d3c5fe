------------------------------- MODULE MCTools -------------------------------
(***************************************************************************)
(* Model-checking instance of Tools, with the names nothing forbids: two   *)
(* devices have one name and one has a name with an underscore; a native   *)
(* tool that devices may publish too and one they do not; two MCP servers  *)
(* share a tool, and one publishes a native one's name and a name that     *)
(* begins with a device's.                                                 *)
(***************************************************************************)
EXTENDS Tools

CONSTANTS pc, work, den, s1, s2

MCNameOf == (pc :> <<"pc">>) @@ (work :> <<"pc">>) @@ (den :> <<"living", "room">>)
MCCapabilities == {<<"open", "url">>, <<"search">>}
MCNatives == {<<"open", "url">>, <<"ping">>}
MCPublished == (s1 :> {<<"search">>}) @@ (s2 :> {<<"search">>, <<"ping">>, <<"pc", "search">>})
=============================================================================
