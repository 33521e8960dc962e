----------------------------- MODULE MCServing -----------------------------
(***************************************************************************)
(* A service with an API under /api, lists, a page shell and assets.       *)
(***************************************************************************)
EXTENDS Serving, TLC

CONSTANTS ana, ben

Route(pattern, method) == [pattern |-> pattern, method |-> method]

MCListing == Route(<<Static("lists"), Param("list")>>, "POST")

MCTables == {
  {MCListing,
   Route(<<Static("lists"), Param("name")>>, "GET"),
   Route(<<Static("lists"), Static("all")>>, "GET"),
   Route(<<Param("any"), Static("count")>>, "GET"),
   Route(<<Static("lists"), Param("list"), Static("count")>>, "GET"),
   Route(<<>>, "GET")},
  {MCListing,
   Route(<<Param("any")>>, "GET"),
   Route(<<Param("other")>>, "GET"),
   Route(<<Static("lists"), Static("one"), Param("row")>>, "POST")} }

MCMethods == {"GET", "POST", "HEAD"}

MCPaths == {
  <<>>, <<"lists">>, <<"lists", "one">>, <<"lists", "", "one">>, <<"lists", "all">>,
  <<"lists", "all", "count">>, <<"lists", "one", "count">>, <<"lists", "count">>,
  <<"x", "count">>, <<"readyz">>, <<"app", "gone.js">>, <<"app", "a", "view">>,
  <<"app", "api", "view">>, <<"app", "..", "secret">>, <<"app", "", "secret">>,
  <<"app">>, <<"", "main.js">>, <<"api", "">>, <<"app", ".", "", "main.js">> }

MCMounts == <<
  [at |-> <<"app">>, files |-> {<<"index.html">>, <<"main.js">>},
   fallback |-> <<"index.html">>, noFallback |-> {<<"api">>}],
  [at |-> <<>>, files |-> {<<"robots.txt">>, <<"main.js">>},
   fallback |-> <<"robots.txt">>, noFallback |-> {<<"api">>}] >>

MCAssets == {"index.html", "main.js", "gone.js", "robots.txt"}
MCBuiltIns == {<<"readyz">>}
MCLists == {<<"lists", "one">>, <<"lists", "two">>}
MCRows == 1..3
MCFirstRows == {{1, 2, 3}, {3}}
MCWalkers == {ana, ben}
MCSizes == {0, 9}

MCSymmetry == Permutations({ana, ben})

MCOrder == [all |-> <<1, 2, 3>>, newest |-> <<3, 1>>, pinned |-> <<2, 3>>]
MCUnkeyed == {<<2, "pinned">>}
MCOverlong == {<<1, "newest">>}

=============================================================================
