------------------------------ MODULE Serving ------------------------------
(***************************************************************************)
(* The HTTP service from the client's side: the router built from a table  *)
(* of routes in whatever order a hash map yields them (build_router,       *)
(* hyper/mod.rs), the dispatch of a request to a route, a 405, a static    *)
(* file or a 404 (hyper/service.rs, hyper/static_files.rs), and clients    *)
(* that walk a paginated list behind one of the routes while its rows come *)
(* and go (pagination.rs).                                                 *)
(*                                                                         *)
(* The answer to one request is one step: between its route and its `fetch`*)
(* dispatch reads nothing that changes.                                    *)
(***************************************************************************)
EXTENDS Router, FiniteSets

CONSTANTS
  Tables,       \* sets of routes a service may declare
  Methods,
  Paths,        \* the paths clients ask for
  Mounts,       \* the static mounts, in registration order; a no_fallback prefix
                \* ends in a slash
  Assets,       \* file names whose extension names an asset
  BuiltIns,     \* paths the service answers before any route: probes, schemas
  Lists,        \* the paths of lists, all led to by the route Listing
  Listing,
  Rows,
  FirstRows,    \* the sets of rows the lists may begin with
  Walkers,      \* callers, each with a client of its own
  Sizes,        \* the values of page_size clients send
  Order, Unfiltered, DefaultSize, MaxSize, Unkeyed, Overlong, None,   \* as in Pager
  MaxChanges    \* bound: rows inserted or deleted

P == INSTANCE Pager

ASSUME ServingAssumption ==
  /\ IsFiniteSet(Rows) /\ FirstRows \subseteq SUBSET Rows /\ MaxChanges \in Nat
  /\ DefaultSize \in Nat \ {0} /\ MaxSize \in Nat \ {0} /\ Sizes \subseteq Nat
  /\ \A set \in Tables : Listing \in set
  /\ \A f \in DOMAIN Order : Order[f] \in Seq(Rows) /\ IsInjective(Order[f])

\* None is no row, no list and no cursor.
ASSUME NoneAssumption ==
  /\ None \notin Rows /\ None \notin Lists
  /\ None \notin [direction : {"Forward", "Backward"}, key : Rows, filters : DOMAIN Order,
                  binding : [method : {Listing.method}, path : Lists, caller : Walkers]]

\* Routes and paths are made of texts, and Wild is none; a prefix without fallback is
\* taken without its leading slashes.
ASSUME TextAssumption ==
  /\ Wild \notin STRING
  /\ Paths \cup Lists \subseteq Seq(STRING)
  /\ \A set \in Tables : \A route \in set :
       route.pattern \in Seq([param : BOOLEAN, text : STRING])
  /\ Mounts \in Seq(ToSet(Mounts))
  /\ \A i \in DOMAIN Mounts :
       /\ Mounts[i].at \in Seq(STRING)
       /\ \A p \in Mounts[i].noFallback : p \in Seq(STRING) /\ p # <<>> /\ p[1] # ""

VARIABLES
  table,     \* the routes of this service
  unrouted,  \* those build_router has not added yet
  trie,
  rows,      \* per list: the rows at hand
  changes,
  walk       \* per walker: the page its client shows, and what it has seen

vars == <<table, unrouted, trie, rows, changes, walk>>

Idle == [path |-> None]

Init ==
  /\ table \in Tables /\ unrouted = table
  /\ trie = EmptyTrie
  /\ \E first \in FirstRows : rows = [list \in Lists |-> first]
  /\ changes = 0
  /\ walk = [w \in Walkers |-> Idle]

\* `build_router`: get_routes() is a hash map.
Register(route) ==
  /\ route \in unrouted
  /\ trie' = AddRoute(trie, route)
  /\ unrouted' = unrouted \ {route}
  /\ UNCHANGED <<table, rows, changes, walk>>

\* The server listens, and boot is done.
Serves == unrouted = {}

-----------------------------------------------------------------------------
(* Static files *)

IsGetOrHead(method) == method \in {"GET", "HEAD"}

\* `strip_mount`: the rest of a path under a mount, which ends on a path boundary; of
\* the root mount, what follows the leading slashes.
IsUnder(mount, path) == IsPrefix(mount, path)

StripMount(mount, path) ==
  LET first == CHOOSE i \in 1..(Len(path) + 1) :
                 /\ \A j \in 1..(i - 1) : path[j] = ""
                 /\ i <= Len(path) => path[i] # ""
  IN  IF mount = <<>> THEN SubSeq(path, first, Len(path))
      ELSE SubSeq(path, Len(mount) + 1, Len(path))

\* `sanitize`: no component leads out of the mount.
IsSane(rel) ==
  /\ \A i \in DOMAIN rel : rel[i] # ".."
  /\ ~(Len(rel) > 1 /\ rel[1] = "")

Sanitize(rel) == Without(rel, {"", "."})

File(mount, name) == [kind |-> "file", mount |-> mount, name |-> name]
NoFile == [kind |-> "404"]

\* `serve_one`: the file, or for a miss that names no asset the mount's fallback.
ServeOne(mount, path) ==
  LET rel == StripMount(mount.at, path)
      relative == Sanitize(rel)
      reads == relative # <<>> /\ relative \in mount.files
      fallsBack ==
        /\ relative # <<>> => Last(relative) \notin Assets
        /\ \A p \in mount.noFallback : ~IsStrictPrefix(p, rel)
        /\ mount.fallback # None /\ mount.fallback \in mount.files
  IN  IF ~IsUnder(mount.at, path) \/ ~IsSane(rel) THEN NoFile
      ELSE IF reads THEN File(mount, relative)
      ELSE IF fallsBack THEN File(mount, mount.fallback) ELSE NoFile

\* `serve`: the first mount that has something.
Serve(path) ==
  LET hits == {i \in DOMAIN Mounts : ServeOne(Mounts[i], path) # NoFile}
  IN  IF hits = {} THEN NoFile
      ELSE ServeOne(Mounts[CHOOSE i \in hits : \A j \in hits : i <= j], path)

-----------------------------------------------------------------------------
(* Dispatch *)

IsBuiltIn(method, path) == IsGetOrHead(method) /\ path \in BuiltIns

\* `dispatch`, up to the handler of the route.
Dispatch(method, path) ==
  LET hit == MatchRoute(trie, path, method)
      allowed == AllowedMethods(trie, path)
  IN  IF IsBuiltIn(method, path) THEN [kind |-> "built in"]
      ELSE IF hit.found THEN [kind |-> "route", route |-> hit.route, params |-> hit.params]
      ELSE IF allowed # {} THEN [kind |-> "405", allow |-> allowed]
      ELSE IF IsGetOrHead(method) THEN Serve(path) ELSE NoFile

-----------------------------------------------------------------------------
(* Lists and those who walk them *)

RowsChange(list, row) ==
  /\ Serves /\ changes < MaxChanges
  /\ rows' = [rows EXCEPT ![list] = IF row \in @ THEN @ \ {row} ELSE @ \cup {row}]
  /\ changes' = changes + 1
  \* Rows count as missed only if they were there all along.
  /\ walk' = [w \in Walkers |->
                IF walk[w].path = list THEN [walk[w] EXCEPT !.lasting = @ \ {row}]
                ELSE walk[w]]
  /\ UNCHANGED <<table, unrouted, trie>>

\* The list handler's answer to a caller's request for a path.
Listed(walker, path, request) ==
  P!Page(rows[path], request, P!Binding(Listing.method, path, walker))

IsListed(path) ==
  LET answer == Dispatch(Listing.method, path)
  IN  answer.kind = "route" /\ answer.route = Listing

\* The page a client shows, and how it came to it.
Shows(page, by, path, filters, seen, lasting) ==
  [path |-> path, filters |-> filters, by |-> by, items |-> page.items,
   previous |-> page.previous, next |-> page.next,
   seen |-> seen \cup ToSet(page.items), lasting |-> lasting]

\* A client asks for the first page of a list.  An error leaves it where it is.
Begin(w, path, filters, size) ==
  /\ Serves /\ IsListed(path)
  /\ LET page == Listed(w, path, [cursor |-> None, filters |-> filters, size |-> size])
         matching == rows[path] \cap ToSet(Order[filters])
     IN  /\ page.code = "OK"
         /\ walk' = [walk EXCEPT ![w] = Shows(page, "Begin", path, filters, {}, matching)]
  /\ UNCHANGED <<table, unrouted, trie, rows, changes>>

Cursors == {walk[w].next : w \in {v \in Walkers : walk[v].path # None}}
             \cup {walk[w].previous : w \in {v \in Walkers : walk[v].path # None}}

\* A client that shows a page asks with a cursor: its own, or one that was given to
\* another caller, or for another list.  A refusal leaves it where it is.
Turn(w, cursor, path, filters, size) ==
  /\ Serves /\ walk[w].path # None /\ cursor # None /\ IsListed(path)
  /\ LET was == walk[w]
         page == Listed(w, path, [cursor |-> cursor, filters |-> filters, size |-> size])
     IN  /\ page.code = "OK"
         /\ walk' = [walk EXCEPT ![w] = Shows(page, cursor.direction, was.path, was.filters,
                                             was.seen, was.lasting)]
  /\ UNCHANGED <<table, unrouted, trie, rows, changes>>

Walking ==
  \E w \in Walkers, path \in Lists, filters \in DOMAIN Order, size \in Sizes :
    \/ Begin(w, path, filters, size)
    \/ \E cursor \in Cursors : Turn(w, cursor, path, filters, size)

Next ==
  \/ \E route \in unrouted : Register(route)
  \/ \E list \in Lists, row \in Rows : RowsChange(list, row)
  \/ Walking

Spec == Init /\ [][Next]_vars

-----------------------------------------------------------------------------
(* Properties *)

ParamsOf(pattern, path) ==
  {Segments(path)[i] : i \in {j \in DOMAIN pattern : pattern[j].param}}

\* No parameter has the name of another one at another depth.
NamesApart(routes) ==
  \A r, q \in routes : \A i \in DOMAIN r.pattern, j \in DOMAIN q.pattern :
    /\ i # j /\ r.pattern[i].param /\ q.pattern[j].param
    => r.pattern[i].text # q.pattern[j].text

RouteDeclared(method, path, reached, answer) ==
  LET mine == {r \in reached : r.method = method}
  IN  /\ answer.kind = "route" <=> mine # {} /\ ~IsBuiltIn(method, path)
      /\ answer.kind = "route" =>
           /\ answer.route \in mine
           /\ Range(answer.params) \subseteq ParamsOf(answer.route.pattern, path)
           /\ NamesApart(table) =>
                Range(answer.params) = ParamsOf(answer.route.pattern, path)
      /\ answer.kind = "405" <=> mine = {} /\ reached # {} /\ ~IsBuiltIn(method, path)
      /\ answer.kind = "405" => answer.allow = {r.method : r \in reached}

FileDeclared(method, path, answer) ==
  LET plain == Sanitize(path)
      at == Sanitize(answer.mount.at)
  IN  answer.kind = "file" =>
        /\ IsGetOrHead(method) /\ answer.name \in answer.mount.files
        /\ \/ plain = at \o answer.name
           \/ /\ answer.name = answer.mount.fallback
              /\ Len(plain) > Len(at) => Last(plain) \notin Assets
              /\ \A p \in answer.mount.noFallback :
                   ~IsStrictPrefix(answer.mount.at \o p, path)

\* Whatever order the routes were added in, a request goes to a route its path leads
\* to, with what stands in the path at its parameters; it is told the methods of
\* these routes when it uses none of them; and only a path that leads to none gets a
\* file: the one its components name under a mount, or the shell, but never for an asset
\* that is missing or under a prefix that is to have none (add_route, match_route,
\* get_allowed_methods, dispatch, serve_one).
AnswersDeclared ==
  Serves => \A path \in Paths :
    LET reached == Reached(table, path)
    IN  \A method \in Methods :
          LET answer == Dispatch(method, path)
          IN  /\ RouteDeclared(method, path, reached, answer)
              /\ FileDeclared(method, path, answer)

\* A client that has come as far as a row has seen every row before it that was there
\* all along, and all of them once it is told that there is no next page: rows that
\* come and go around its cursors, pages of any size and pages back cost it nothing
\* (Pager::page, the contract of ListQuery).
NothingMissed ==
  \A w \in Walkers : walk[w].path # None =>
    LET s == walk[w]
    IN  /\ s.next = None /\ s.by # "Backward" => s.lasting \subseteq s.seen
        /\ s.items # <<>> => \A row \in s.lasting :
             P!Place(s.filters, row) <= P!Place(s.filters, Last(s.items)) => row \in s.seen

\* Nothing of a list lies between the page `old` and the page `new` turned to from it.
Adjoins(old, new, here) ==
  LET At(row) == P!Place(old.filters, row)
      Between(a, b, row) == At(a) < At(row) /\ At(row) < At(b)
      last == IF new.by = "Forward" THEN Last(old.items) ELSE Last(new.items)
      first == IF new.by = "Forward" THEN new.items[1] ELSE old.items[1]
  IN  /\ ToSet(new.items) \subseteq here
      /\ \A i, j \in DOMAIN new.items : i < j => At(new.items[i]) < At(new.items[j])
      /\ At(last) < At(first)
      /\ \A row \in here : ~ Between(last, first, row)

\* The page a cursor leads to lies against the page it was given with: in the order of
\* the walk's own filters and list, without a row of that list in between or in common
\* (Pager::page, mint, open; a cursor is good for its own route and caller only).
PagesAdjoin ==
  [][\A w \in Walkers :
       LET old == walk[w]
           new == walk'[w]
       IN  /\ new # old /\ rows' = rows /\ new.by \in {"Forward", "Backward"}
           /\ old.items # <<>> /\ new.items # <<>>
           => Adjoins(old, new, rows[old.path] \cap ToSet(Order[old.filters]))]_vars

=============================================================================
