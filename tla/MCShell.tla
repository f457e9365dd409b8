------------------------------ MODULE MCShell ------------------------------
(* A feed of its own whose id holds a slash, and a group of two feeds. *)
EXTENDS Shell

MCDeclared == <<<<"rss", "geeknews">>, <<"weekly">>, <<"monthly">>>>
MCRowOf == <<"geeknews", "trendshift", "trendshift">>
MCGroup == {"trendshift"}
MCOrders == {<<"geeknews", "trendshift">>, <<"trendshift", "geeknews">>}
MCEntry == {"1", "2"}
MCRemembered == {NoFeed, <<"monthly">>}
MCTyped ==
  {<<>>, <<"feeds", "entries", "1">>, <<"feeds", "weekly", "entries", "1">>, <<"feeds", "rss", "geeknews", "entries", "x">>,
   <<"bookmarks", "entries", "1">>}
=============================================================================
