------------------------------- MODULE Router -------------------------------
(***************************************************************************)
(* The trie of crates/flatbed/src/hyper/router.rs: routes are added one by *)
(* one, a path is walked segment by segment, a child of that very name     *)
(* before the parameter child, and never back.  Patterns and paths are     *)
(* sequences of segments; what splitting at '/' leaves empty is dropped.   *)
(***************************************************************************)
EXTENDS Naturals, Sequences, SequencesExt

CONSTANT Wild  \* the edge to a parameter child

Static(text) == [param |-> FALSE, text |-> text]
Param(name) == [param |-> TRUE, text |-> name]

Edge(segment) == IF segment.param THEN Wild ELSE segment.text
Edges(pattern) == [i \in DOMAIN pattern |-> Edge(pattern[i])]

\* A sequence without the texts in `dropped`.
Without(texts, dropped) ==
  LET kept[i \in 0..Len(texts)] ==
        IF i = 0 THEN <<>>
        ELSE IF texts[i] \in dropped THEN kept[i - 1]
        ELSE Append(kept[i - 1], texts[i])
  IN  kept[Len(texts)]

\* What `split('/')` and the filter leave of a path.
Segments(path) == Without(path, {""})

\* `HashMap::insert`
Put(map, key, value) ==
  [k \in DOMAIN map \cup {key} |-> IF k = key THEN value ELSE map[k]]

\* A node is the sequence of edges that leads to it; `names` has a name for every
\* node with a parameter child.
EmptyTrie == [nodes |-> {<<>>}, names |-> <<>>, handlers |-> <<>>]

\* `add_route`: the first name a parameter child is given stays, the last handler
\* of a node and a method wins.
AddRoute(trie, route) ==
  LET leaf == Edges(route.pattern)
      params == {i \in DOMAIN route.pattern : route.pattern[i].param}
      forks == {SubSeq(leaf, 1, i - 1) : i \in params}
  IN  [nodes |-> trie.nodes \cup Prefixes(leaf),
       names |-> [node \in DOMAIN trie.names \cup forks |->
                    IF node \in DOMAIN trie.names THEN trie.names[node]
                    ELSE route.pattern[Len(node) + 1].text],
       handlers |-> Put(trie.handlers, <<leaf, route.method>>, route)]

ToText(at, text) == [at EXCEPT !.node = Append(@, text)]

ToParam(trie, at, text) ==
  [at EXCEPT !.node = Append(@, Wild), !.params = Put(@, trie.names[at.node], text)]

\* Mutant: the parameter child is tried first.
StepParamFirst(trie, at, text) ==
  CASE ~at.lost /\ Append(at.node, Wild) \in trie.nodes -> ToParam(trie, at, text)
    [] ~at.lost /\ Append(at.node, Wild) \notin trie.nodes
                /\ Append(at.node, text) \in trie.nodes -> ToText(at, text)
    [] OTHER -> [at EXCEPT !.lost = TRUE]

\* One round of the loop of `match_route` and `get_allowed_methods`.
Step(trie, at, text) ==
  CASE ~at.lost /\ Append(at.node, text) \in trie.nodes -> ToText(at, text)
    [] ~at.lost /\ Append(at.node, text) \notin trie.nodes
                /\ Append(at.node, Wild) \in trie.nodes -> ToParam(trie, at, text)
    [] OTHER -> [at EXCEPT !.lost = TRUE]

Walk(trie, path) ==
  LET s == Segments(path)
      at[i \in 0..Len(s)] ==
        IF i = 0 THEN [lost |-> FALSE, node |-> <<>>, params |-> <<>>]
        ELSE Step(trie, at[i - 1], s[i])
  IN  at[Len(s)]

\* `match_route`: the route at the end of the walk and the parameters met on it.
MatchRoute(trie, path, method) ==
  LET at == Walk(trie, path)
      key == <<at.node, method>>
  IN  IF ~at.lost /\ key \in DOMAIN trie.handlers
      THEN [found |-> TRUE, route |-> trie.handlers[key], params |-> at.params]
      ELSE [found |-> FALSE]

\* `get_allowed_methods`.
AllowedMethods(trie, path) ==
  LET at == Walk(trie, path)
      here == {key \in DOMAIN trie.handlers : key[1] = at.node}
  IN  IF at.lost THEN {} ELSE {key[2] : key \in here}

-----------------------------------------------------------------------------
(* What the routes say, whatever order they were added in *)

Fits(pattern, segments) ==
  /\ Len(pattern) = Len(segments)
  /\ \A i \in DOMAIN pattern : pattern[i].param \/ pattern[i].text = segments[i]

\* A parameter of the pattern stands where another route that begins alike has the
\* path's own text: the walk goes that way, and does not come back.
Shadowed(pattern, segments, table) ==
  \E i \in DOMAIN pattern : \E other \in table :
    /\ pattern[i].param
    /\ i <= Len(other.pattern) /\ other.pattern[i] = Static(segments[i])
    /\ SubSeq(Edges(other.pattern), 1, i - 1) = SubSeq(Edges(pattern), 1, i - 1)

\* The routes of a table a path leads to, one for each method.
Reached(table, path) ==
  {r \in table : LET s == Segments(path)
                 IN  Fits(r.pattern, s) /\ ~Shadowed(r.pattern, s, table)}

=============================================================================
