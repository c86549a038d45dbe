----------------------------- MODULE EntityRest -----------------------------
(* The REST handlers the macros generate for an entity, and the router that    *)
(* picks one of them (macros/src/endpoint.rs, rest.rs and the endpoint of each *)
(* function; redbit/src/rest.rs).                                              *)
(* A request is [method, path, n, range, body]: the segments of its path are   *)
(* words or values (keys, column values), n and range come from the query      *)
(* string, and body is [kind, filter]. The response is [status, items].        *)
EXTENDS EntityQuery

CONSTANT IndexedTable  \* the column with a range index, <<entity, field>>

OK == 200
BAD_REQUEST == 400
NOT_FOUND == 404
METHOD_NOT_ALLOWED == 405
INTERNAL == 500
NO_ANSWER == 0  \* the handler panicked: the connection is closed

Response(status, items) == [status |-> status, items |-> items]

(* AppError::into_response: the error of a row that is missing is NotFound,    *)
(* every other error here an internal one.                                     *)
into_response(notFound) == Response(IF notFound THEN NOT_FOUND ELSE INTERNAL, <<>>)

(* MaybeJson: no body and a body that cannot be read mean no filter; one that  *)
(* does not parse is refused.                                                  *)
NoBody == [kind |-> "none", filter |-> <<>>]
Json(oq) == IF oq = <<>> THEN NoBody ELSE [kind |-> "json", filter |-> oq]
Malformed == [kind |-> "malformed", filter |-> <<>>]
MaybeJson(body) == IF body.kind \in {"none", "unreadable"} THEN <<>> ELSE body.filter

-----------------------------------------------------------------------------
(* One operator per handler.                                                   *)

(* An entity that is not there, or cannot be composed, is not found.           *)
Found(a) == IF a.err \/ a.items = <<>> THEN into_response(TRUE) ELSE Response(OK, a.items)
entity_get(view, e, pk) == Found(get(view, e, pk))


entity_exists(view, e, pk) == Response(IF exists(view, e, pk) THEN OK ELSE NOT_FOUND, <<>>)

Listed(a) == IF a.err THEN into_response(TRUE) ELSE Response(OK, a.items)
entity_first(view, e) == Listed(first(view, e))
entity_last(view, e) == Listed(last(view, e))
entity_take(view, e, n) == IF n > MaxTake THEN into_response(FALSE) ELSE Listed(take(view, e, n))
entity_tail(view, e, n) == IF n > MaxTake THEN into_response(FALSE) ELSE Listed(tail(view, e, n))

(* The number of rows of each of the entity's tables.                          *)
entity_table_info(view, e) ==
  Response(OK, [t \in {PkTable(e)} \union {Column(e, f) : f \in {f \in Fields(e) : f.kind = "column"}} |->
                  Cardinality(DOMAIN view[t])])

(* The parent of a key is computed, whether or not the key is stored.          *)
entity_parent_key(pk) == Response(OK, <<parent(pk)>>)

(* A missing child is not found, missing children are an empty list.           *)
get_one2one(view, f, pk) == Found(get_child(view, f, pk))
get_one2opt(view, f, pk) == Found(get_child(view, f, pk))
get_one2many(view, f, pk) == Listed(get_child(view, f, pk))

(* A stream answers 200 before its first item; an error comes as an item.      *)
Streamed(body, a) == IF body.kind = "malformed" THEN into_response(FALSE) ELSE Response(OK, a.items)
entity_stream_range(view, e, r, body) == Streamed(body, stream_range(view, e, r, MaybeJson(body)))
entity_stream_by(view, e, t, v, body) == Streamed(body, stream_by(view, e, t, v, MaybeJson(body)))
entity_stream_range_by(view, e, t, r, body) ==
  IF RangePanics /\ body.kind # "malformed" THEN Response(NO_ANSWER, <<>>)
  ELSE Streamed(body, stream_range_by(view, e, t, r.from, r.until, MaybeJson(body)))
entity_stream_keys_by(view, t, v) == Response(OK, get_keys_by(view, t, v))
entity_stream_parents_by(view, p, t, v, body) == Streamed(body, stream_parents_by(view, p, t, v, MaybeJson(body)))

(* The answers of the two handlers that write.                                 *)
entity_persist(stored) == Response(IF stored THEN OK ELSE INTERNAL, <<>>)
entity_remove(found) == Response(IF found THEN OK ELSE NOT_FOUND, <<>>)

-----------------------------------------------------------------------------
(* The routes of an entity: a method and a path, in which Param stands for any *)
(* one segment, the function and the table or relationship it is about.        *)

Word(w) == [word |-> w]
Value(v) == [value |-> v]
Param == [param |-> TRUE]
Route(method, path, fn, of) == [method |-> method, path |-> path, fn |-> fn, of |-> of]

Parents(e) == {p \in DOMAIN Schema : \E f \in Fields(p) : f.of = e /\ f.kind \in {"many", "from"}}

KeyRoutes(e) ==
  LET at == <<Word(e), Word("pk"), Param>> IN
  { Route("GET", at, "get", PkTable(e)), Route("HEAD", at, "exists", PkTable(e)), Route("DELETE", at, "remove", PkTable(e)),
    Route("POST", <<Word(e)>>, "persist", PkTable(e)), Route("POST", <<Word(e), Word("pk")>>, "stream_range", PkTable(e)) }
  \union {Route("GET", <<Word(e), Word(fn)>>, fn, PkTable(e)) : fn \in {"first", "last", "take", "tail", "table_info"}}
  \union {Route("GET", Append(at, Word("parent_key")), "parent_key", PkTable(e)) : p \in Parents(e)}

ColumnRoutes(t) ==
  LET at == <<Word(t[1]), Word(t[2]), Param>> IN
  { Route("POST", at, "stream_by", t), Route("GET", Append(at, Word("pk")), "stream_keys_by", t),
    Route("POST", <<Word(t[1]), Word(t[2])>>, "stream_range_by", t) }
  \union {Route("POST", Append(at, Word(p)), "stream_parents_by", t) : p \in Parents(t[1])}

ChildRoutes(e) ==
  {Route("GET", <<Word(e), Param, Word(f.name)>>, "get_child", Column(e, f)) :
     f \in {f \in Fields(e) : f.kind # "column"}}

Routes == UNION {KeyRoutes(e) \union ChildRoutes(e) : e \in DOMAIN Schema} \union ColumnRoutes(IndexedTable)

(* The routes at the path that fits best; a word in the path goes before a     *)
(* parameter. The method is looked at afterwards. (HEAD is only asked of paths *)
(* that have a route for it; axum would take the GET route of the others.)     *)
Fits(route, path) ==
  Len(route.path) = Len(path) /\ \A i \in DOMAIN path : route.path[i] \in {Param, path[i]}
Fitting(path) ==
  LET fit == {r \in Routes : Fits(r, path)}
      Prior(r, q) == \E i \in DOMAIN path : r.path[i] # Param /\ q.path[i] = Param /\ \A j \in 1 .. i - 1 : r.path[j] = q.path[j]
  IN  {r \in fit : \A q \in fit : ~Prior(q, r)}

ChildHandler(view, f, pk) ==
  CASE f.kind = "one" -> get_one2one(view, f, pk)
    [] f.kind = "opt" -> get_one2opt(view, f, pk)
    [] OTHER          -> get_one2many(view, f, pk)

(* The handler of a route, called with the value of its path parameter.        *)
Handle(view, req, fn, of, arg) ==
  CASE fn = "get"               -> entity_get(view, of[1], arg)
    [] fn = "exists"            -> entity_exists(view, of[1], arg)
    [] fn = "first"             -> entity_first(view, of[1])
    [] fn = "last"              -> entity_last(view, of[1])
    [] fn = "take"              -> entity_take(view, of[1], req.n)
    [] fn = "tail"              -> entity_tail(view, of[1], req.n)
    [] fn = "table_info"        -> entity_table_info(view, of[1])
    [] fn = "parent_key"        -> entity_parent_key(arg)
    [] fn = "stream_range"      -> entity_stream_range(view, of[1], req.range, req.body)
    [] fn = "stream_by"         -> entity_stream_by(view, of[1], of, arg, req.body)
    [] fn = "stream_keys_by"    -> entity_stream_keys_by(view, of, arg)
    [] fn = "stream_range_by"   -> entity_stream_range_by(view, of[1], of, req.range, req.body)
    [] fn = "stream_parents_by" -> entity_stream_parents_by(view, CHOOSE p \in Parents(of[1]) : TRUE, of, arg, req.body)
    [] fn = "get_child"         -> ChildHandler(view, CHOOSE f \in Fields(of[1]) : f.name = of[2], arg)

(* A path parameter that does not parse is a bad request.                      *)
Call(view, req, route) ==
  LET args == {i \in DOMAIN req.path : route.path[i] = Param}
  IN  IF \E i \in args : "word" \in DOMAIN req.path[i] THEN Response(BAD_REQUEST, <<>>)
      ELSE Handle(view, req, route.fn, route.of,
                  IF args = {} THEN <<>> ELSE req.path[CHOOSE i \in args : TRUE].value)

(* What the router answers to a read. Two routes at one place keep the router  *)
(* from being built.                                                           *)
Answered(view, req, fitting) ==
  LET chosen == {r \in fitting : r.method = req.method}
  IN  IF fitting = {} THEN Response(NOT_FOUND, <<>>)
      ELSE IF chosen = {} THEN Response(METHOD_NOT_ALLOWED, <<>>)
      ELSE IF Cardinality(chosen) > 1 THEN Response(INTERNAL, <<>>)
      ELSE Call(view, req, CHOOSE r \in chosen : TRUE)

Serve(view, req) == Answered(view, req, Fitting(req.path))

Request(method, path) == [method |-> method, path |-> path, n |-> 0, range |-> <<>>, body |-> NoBody]

=============================================================================
