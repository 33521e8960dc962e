------------------------------- MODULE Pager -------------------------------
(***************************************************************************)
(* Cursor pagination (crates/flatbed/src/pagination.rs).  A cursor carries *)
(* its direction, the key it continues from and the filters; its tag also  *)
(* covers the method, the concrete path and the caller, so a cursor is     *)
(* here the record of all of them, which nobody but `mint` can make.       *)
(*                                                                         *)
(* The service's part, `fetch`, keeps the contract of the module's         *)
(* documentation: the key of a row is the row, Order says for every filter *)
(* which rows it lets through and in which order, for rows that are gone   *)
(* as well, and the rows at hand are read in one go.                       *)
(***************************************************************************)
EXTENDS Naturals, Sequences, FiniteSets, SequencesExt

CONSTANTS
  Order,        \* per filters: the rows that match, in the request's order
  Unfiltered,   \* Req::default()
  DefaultSize,
  MaxSize,
  Unkeyed,      \* <<row, filters>> whose key does not serialize, or is too long to mint
  Overlong,     \* <<row, filters>> whose cursors have more than MAX_CURSOR_CHARS
  None

Place(filters, row) == CHOOSE i \in DOMAIN Order[filters] : Order[filters][i] = row

EffectivePageSize(requested) ==
  LET size == IF requested = 0 THEN DefaultSize ELSE requested
  IN  IF size < MaxSize THEN size ELSE MaxSize

Nearer(query, a, b) ==
  IF query.direction = "Forward"
  THEN Place(query.filters, a) < Place(query.filters, b)
  ELSE Place(query.filters, b) < Place(query.filters, a)

\* The rows at hand on the side of `after` the query reads.
Beyond(present, query) ==
  {row \in present \cap ToSet(Order[query.filters]) :
     query.after = None \/ Nearer(query, query.after, row)}

\* How many of some rows come before a row.
Rank(query, among, row) == Cardinality({other \in among : Nearer(query, other, row)})

\* What the service's `fetch` returns: at most `limit` rows beyond `after`, the nearest
\* first.
Fetch(present, query) ==
  LET beyond == Beyond(present, query)
      count == Cardinality(beyond)
  IN  [i \in 1..(IF count < query.limit THEN count ELSE query.limit) |->
         CHOOSE row \in beyond : Rank(query, beyond, row) = i - 1]

Binding(method, path, caller) == [method |-> method, path |-> path, caller |-> caller]

Mint(direction, key, filters, binding) ==
  [direction |-> direction, key |-> key, filters |-> filters, binding |-> binding]

\* `open`: a cursor of the length it may have, whose tag fits the request it comes with.
Opens(cursor, binding) ==
  /\ <<cursor.key, cursor.filters>> \notin Overlong
  /\ cursor.binding = binding

Refused(code) == [code |-> code]

\* Mutant: one row more is not asked for.
LimitOf(size) == size

\* One more than the page holds tells whether there is another.
Limit(size) == size + 1

\* Mutant: a page read backward is left in the order it was read in.
LeftFlipped(direction, rows) == rows

\* A backward page is read away from its cursor, and given in the list's order.
InOrder(direction, rows) == IF direction = "Backward" THEN Reverse(rows) ELSE rows

\* `Pager::page`.
Page(present, request, binding) ==
  LET cursor == request.cursor
      first == cursor = None
      size == EffectivePageSize(request.size)
      filters == IF first THEN request.filters ELSE cursor.filters
      direction == IF first THEN "Forward" ELSE cursor.direction
      rows == Fetch(present, [filters |-> filters, direction |-> direction,
                              after |-> IF first THEN None ELSE cursor.key,
                              limit |-> Limit(size)])
      hasMore == Len(rows) > size
      kept == SubSeq(rows, 1, IF hasMore THEN size ELSE Len(rows))
      items == InOrder(direction, kept)
      hasPrevious == IF direction = "Forward" THEN ~first ELSE hasMore
      hasNext == IF direction = "Forward" THEN hasMore ELSE TRUE
      minted ==
        items # <<>> =>
          /\ hasPrevious => <<items[1], filters>> \notin Unkeyed
          /\ hasNext => <<items[Len(items)], filters>> \notin Unkeyed
      MintAt(way, ends, wanted) ==
        IF items # <<>> /\ wanted THEN Mint(way, ends, filters, binding) ELSE None
  IN  CASE ~first /\ request.filters # Unfiltered -> Refused("CURSOR_WITH_FILTERS")
        [] ~first /\ request.filters = Unfiltered /\ ~Opens(cursor, binding) ->
             Refused("INVALID_CURSOR")
        [] OTHER ->
             IF ~minted THEN Refused("INTERNAL_SERVER_ERROR")
             ELSE [code |-> "OK", items |-> items,
                   previous |-> MintAt("Backward", items[1], hasPrevious),
                   next |-> MintAt("Forward", items[Len(items)], hasNext)]

=============================================================================
