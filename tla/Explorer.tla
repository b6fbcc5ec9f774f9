------------------------------ MODULE Explorer -----------------------------
(***************************************************************************)
(* The HTTP front ends: the explorer thread of a node (explorer.hpp:       *)
(* API keys, the rate limit, submissions, the model registry, results and  *)
(* claims) and the standalone submission server (tools/api_server.cpp).    *)
(* A server is a record, a request a record, and a route a function from a *)
(* server to the server after it and the response's status.  A body is a   *)
(* sequence of named fields of two bytes each, so that it can be cut       *)
(* between two fields or inside one; a matrix is its sequence of elements. *)
(***************************************************************************)
EXTENDS Arrays, FiniteSets

CONSTANTS
    RATE_LIMIT_PER_MIN, WINDOW,         \* 10 posts, 60 s
    FLEET_N, DIRECT_N,                  \* 64 and 256: sizes the fleet and a node verify
    INGEST_CAP,                         \* 16 MB
    Gpu, FoldBand,                      \* gpu_available, HSMA_TESTNET_CPU_FOLD
    FIELD,                              \* the modulus: larger elements are not canonical
    Founder,                            \* the seeded key
    sha256(_), weight_digest(_), commit(_, _)

NoKey == "none"
HEAD == 3               \* the request line, the key's header, the empty line
Reply(srv, code) == [srv |-> srv, code |-> code, status |-> "none", claim |-> <<>>]
Ok(srv) == Reply(srv, 200)

\* The first field of that name, as body.find() does.
Has(body, name) == \E i \in DOMAIN body : body[i].name = name
Get(body, name, default) ==
    IF Has(body, name)
    THEN body[CHOOSE i \in DOMAIN body : body[i].name = name /\ \A j \in 1 .. i - 1 : body[j].name # name].value
    ELSE default

---------------------------------------------------------------------------
\* Keys and the rate limit.
load_api_keys_once(saved) == saved \cup {Founder}
Boot(saved) ==
    [keys |-> load_api_keys_once(saved), saved |-> saved, count |-> <<>>, start |-> 0,
     queue |-> <<>>, done |-> <<>>, next |-> 1, models |-> <<>>]
validate_api_key(srv, key) == key # NoKey /\ key \in srv.keys

\* A key never seen, or any key once the shared window is over, starts at one
\* and restarts the window for every key; the other counts stay as they are.
NewWindow(srv, key, now) == key \notin DOMAIN srv.count \/ now - srv.start >= WINDOW
check_rate_limit(srv, key, now) ==
    LET set(c) == [k \in DOMAIN srv.count \cup {key} |-> IF k = key THEN c ELSE srv.count[k]]
    IN  IF NewWindow(srv, key, now)
        THEN [ok |-> TRUE, srv |-> [srv EXCEPT !.count = set(1), !.start = now]]
        ELSE IF srv.count[key] >= RATE_LIMIT_PER_MIN THEN [ok |-> FALSE, srv |-> srv]
        ELSE [ok |-> TRUE, srv |-> [srv EXCEPT !.count = set(@[key] + 1)]]

\* GET /api_key: appended to the file and live at once.
api_key(srv, key) == Ok([srv EXCEPT !.keys = @ \cup {key}, !.saved = @ \cup {key}])

---------------------------------------------------------------------------
\* Reading a request: chunks until the header's end and the declared length,
\* the cap, or nothing more within the timeout.  What has arrived is served.
read_request(length, chunks) ==
    Run(LAMBDA q, c :
          IF q.stop \/ c = 0 THEN [q EXCEPT !.stop = TRUE]
          ELSE LET got == q.got + c
               IN  [got |-> got, stop |-> got >= INGEST_CAP \/ got >= HEAD + length],
        [got |-> 0, stop |-> FALSE], chunks).got

\* What the bytes that came hold of the request.  Without the key's header
\* there is no key, and the body's last field may be cut: a number by its last
\* digit, a matrix by its second half.
Fields(body, bytes) ==
    LET whole == IF bytes < 0 THEN 0 ELSE IF bytes \div 2 < Len(body) THEN bytes \div 2 ELSE Len(body)
        cut   == whole < Len(body) /\ bytes > 2 * whole
        last  == body[whole + 1]
        half  == IF last.name \in {"a", "b"} THEN [last EXCEPT !.value = SubSeq(@, 1, Len(@) \div 2)]
                 ELSE [last EXCEPT !.value = @ \div 10]
    IN  SubSeq(body, 1, whole) \o (IF cut THEN <<half>> ELSE <<>>)
Arrived(q, got) == [q EXCEPT !.auth = IF got >= 2 THEN @ ELSE NoKey, !.body = Fields(@, got - HEAD)]

---------------------------------------------------------------------------
\* Submissions.  Zero and sizes over DIRECT_N become FLEET_N.
Clamp(n) == IF n = 0 \/ n > DIRECT_N THEN FLEET_N ELSE n
cpu_fold_band_allowed(n) == n > FLEET_N /\ n <= DIRECT_N /\ FoldBand
Canonical(raw, n) == Len(raw) = n * n /\ \A i \in DOMAIN raw : raw[i] < FIELD
Opens(models, id, bytes, r) == id \in DOMAIN models /\ models[id] = commit(weight_digest(bytes), r)

submit_gemm(srv, body) ==
    LET n     == Clamp(Get(body, "n", FLEET_N))
        given == Has(body, "a") \/ Has(body, "b")
        a     == Get(body, "a", <<>>)
        b     == Get(body, "b", <<>>)
        bind  == Get(body, "model_id", 0)
        item  == [id |-> srv.next, n |-> n, has_inputs |-> given, a |-> a, b |-> b,
                  ic |-> IF given THEN sha256(a \o b) ELSE 0, model_id |-> bind, verified |-> FALSE]
    IN  IF n > FLEET_N /\ ~Gpu /\ ~cpu_fold_band_allowed(n) THEN Reply(srv, 400)
        ELSE IF given /\ ~(Canonical(a, n) /\ Canonical(b, n)) THEN Reply(srv, 400)
        ELSE IF Has(body, "model_id") /\ ~given THEN Reply(srv, 400)
        ELSE IF Has(body, "model_id") /\ ~Opens(srv.models, bind, a \o b, Get(body, "model_r", 0))
        THEN Reply(srv, 403)
        ELSE Ok([srv EXCEPT !.next = @ + 1, !.queue = Append(@, item)])

\* The node's worker: inputs of its own for a submission without any, the
\* verdict, and the record moved from the queue to the results.
bind_faucet_inputs(w, a, b) == [w EXCEPT !.has_inputs = TRUE, !.a = a, !.b = b, !.ic = sha256(a \o b)]
Worked(srv, verdict) ==
    IF srv.queue = <<>> THEN Ok(srv)
    ELSE LET w == Head(srv.queue)
             own == Array(w.n * w.n, LAMBDA i : (w.id * i) % FIELD)
             in  == IF w.has_inputs THEN w ELSE bind_faucet_inputs(w, own, own)
             put == [in EXCEPT !.verified = verdict]
         IN  Ok([srv EXCEPT !.queue = Tail(@),
                            !.done = [k \in DOMAIN @ \cup {w.id} |-> IF k = w.id THEN put ELSE @[k]]])

\* The model registry: a commitment to bytes derived from the identifier,
\* refused (with status 200) when there is one already.
DevWeights(id) == Array(4, LAMBDA i : (id + i) % FIELD)
register_model(srv, body) ==
    LET id == Get(body, "model_id", 0)
    IN  IF ~Has(body, "model_id") \/ id \in DOMAIN srv.models THEN Ok(srv)
        ELSE LET c == commit(weight_digest(DevWeights(id)), id * 31 + 7)
             IN  Ok([srv EXCEPT !.models = [k \in DOMAIN @ \cup {id} |-> IF k = id THEN c ELSE @[k]]])
models(srv) == Ok(srv)

\* Claims for verifiers, with a key; results and the node's pages for anyone.
claim_inputs(srv, key, id) ==
    IF ~validate_api_key(srv, key) THEN Reply(srv, 401)
    ELSE IF id \notin DOMAIN srv.done THEN Reply(srv, 404)
    ELSE IF ~(srv.done[id].has_inputs /\ srv.done[id].verified) THEN Reply(srv, 404)
    ELSE [Ok(srv) EXCEPT !.claim = <<srv.done[id]>>]
result(srv, id) ==
    [Ok(srv) EXCEPT !.status =
       IF id \in DOMAIN srv.done THEN (IF srv.done[id].verified THEN "DONE" ELSE "FAILED")
       ELSE IF \E i \in DOMAIN srv.queue : srv.queue[i].id = id THEN "QUEUED" ELSE "not found"]
page(srv) == Ok(srv)

\* serve_request: POST needs a valid key and a place under its limit.
Route(srv, q) ==
    CASE q.method = "GET" /\ q.path = "/api_key"           -> api_key(srv, q.fresh)
      [] q.method = "POST" /\ q.path = "/submit_gemm"      -> submit_gemm(srv, q.body)
      [] q.method = "POST" /\ q.path = "/register_model"   -> register_model(srv, q.body)
      [] q.method = "GET" /\ q.path = "/models"            -> models(srv)
      [] q.method = "GET" /\ q.path = "/claim_inputs"      -> claim_inputs(srv, q.auth, q.id)
      [] q.method = "GET" /\ q.path = "/result"            -> result(srv, q.id)
      [] OTHER                                             -> page(srv)
serve_request(srv, q, now) ==
    LET got  == read_request(q.length, q.chunks)
        sent == Arrived(q, got)
        gate == check_rate_limit(srv, q.auth, now)
    IN  IF got = 0 THEN Reply(srv, 0)                       \* closed without a word
        ELSE IF q.method # "POST" THEN Route(srv, sent)
        ELSE IF ~validate_api_key(srv, sent.auth) THEN Reply(srv, 401)
        ELSE IF ~gate.ok THEN Reply(gate.srv, 429)
        ELSE Route(gate.srv, sent)

\* One event at the server: a request, the worker, or a restart, which keeps
\* the keys of the file and nothing else.
Event(srv, e, now) ==
    CASE e.op = "request" -> serve_request(srv, e, now)
      [] e.op = "work"    -> Worked(srv, e.verdict)
      [] e.op = "restart" -> Ok(Boot(srv.saved))

---------------------------------------------------------------------------
\* The standalone server: no keys; a submission is proved and verified at
\* once, over inputs drawn from the identifier, and its result stored.
ApiBoot == [next |-> 1, results |-> <<>>, submissions |-> 0, verified |-> 0, models |-> <<>>]
handle_submit_gemm(api, body, ok) ==
    IF ~Has(body, "n") THEN Reply(api, 400)
    ELSE Ok([api EXCEPT !.next = @ + 1, !.submissions = @ + 1, !.verified = @ + (IF ok THEN 1 ELSE 0),
                        !.results = Append(@, [n |-> Clamp(Get(body, "n", 0)), verified |-> ok])])
handle_register_model(api, body) ==
    LET id == Get(body, "model_id", 0)
    IN  IF ~Has(body, "model_id") \/ id \in DOMAIN api.models THEN Reply(api, 400)
        ELSE LET c == commit(weight_digest(DevWeights(id)), id * 31 + 7)
             IN  Ok([api EXCEPT !.models = [k \in DOMAIN @ \cup {id} |-> IF k = id THEN c ELSE @[k]]])
handle_result(api, id) == IF id \in DOMAIN api.results THEN Ok(api) ELSE Reply(api, 404)
handle_fleet(api) == Ok(api)
handle_client(api, q, ok) ==
    CASE q.method = "POST" /\ q.path = "/submit_gemm"    -> handle_submit_gemm(api, q.body, ok)
      [] q.method = "POST" /\ q.path = "/register_model" -> handle_register_model(api, q.body)
      [] q.method = "GET" /\ q.path = "/result"          -> handle_result(api, q.id)
      [] q.method = "GET" /\ q.path = "/fleet"           -> handle_fleet(api)
      [] q.method = "GET" /\ q.path = "/health"          -> Ok(api)
      [] OTHER                                           -> Reply(api, 404)

---------------------------------------------------------------------------
\* What the servers owe their clients.  A history is the state after every
\* event with the reply; times are the events' own.
History(events) ==
    Run(LAMBDA h, e : Append(h, [e |-> e, was |-> Last(h).srv, reply |-> Event(Last(h).srv, e, e.at),
                                 srv |-> Event(Last(h).srv, e, e.at).srv]),
        <<[srv |-> Boot({})]>>, events)

Items(srv) == {srv.queue[i] : i \in DOMAIN srv.queue} \cup {srv.done[k] : k \in DOMAIN srv.done}

\* A key is held back by its limit only within WINDOW of the post that started
\* its count.
CountResets(events) ==
    LET h == History(events)
        at(i) == h[i + 1]
        post(i) == at(i).e.op = "request" /\ at(i).e.method = "POST"
        starts(i) == /\ post(i) /\ at(i).reply.code \notin {0, 401, 429}
                     /\ NewWindow(at(i).was, at(i).e.auth, at(i).e.at)
    IN  \A i \in DOMAIN events : post(i) /\ at(i).reply.code = 429 =>
          \E j \in 1 .. i - 1 : /\ starts(j) /\ at(j).e.auth = at(i).e.auth
                                 /\ at(i).e.at - at(j).e.at < WINDOW

\* A refused post costs its place under the limit and changes nothing else;
\* every work item carries the digest of its inputs, and one bound to a model
\* has inputs and a registered model; identifiers are never reused while the node
\* runs and every accepted one has a status; claims go out verified and to key
\* holders only; keys outlive a restart; and a key that is not new has at most
\* RATE_LIMIT_PER_MIN posts accepted from one start of its count to the next,
\* which are at least WINDOW apart.
ServesExact(events) ==
    LET h == History(events)
        at(i) == h[i + 1]
        post(i) == at(i).e.op = "request" /\ at(i).e.method = "POST"
        boot(i) == at(i).e.op = "restart"
        passed(i) == post(i) /\ at(i).reply.code \notin {0, 401, 429}
        fresh(i) == passed(i) /\ NewWindow(at(i).was, at(i).e.auth, at(i).e.at)
        same(i, j) == at(i).e.auth = at(j).e.auth /\ \A x \in i .. j : ~boot(x)
    IN  \A i \in DOMAIN events :
          LET s == at(i).srv
              w == at(i).was
              r == at(i).reply
              earlier == {j \in 1 .. i - 1 : fresh(j) /\ same(j, i)}
              later   == {j \in i .. Len(events) : passed(j) /\ same(i, j)}
          IN  /\ post(i) /\ r.code # 200 => [s EXCEPT !.count = w.count, !.start = w.start] = w
              /\ post(i) /\ ~passed(i) => s = w
              /\ \A x \in Items(s) :
                   /\ x.has_inputs => x.ic = sha256(x.a \o x.b) /\ Canonical(x.a, x.n) /\ Canonical(x.b, x.n)
                   /\ x.model_id # 0 => x.has_inputs /\ x.model_id \in DOMAIN s.models
                   /\ x.id < s.next /\ result(s, x.id).status # "not found"
              /\ ~boot(i) => /\ \A x \in Items(w) : \E y \in Items(s) : y.id = x.id /\ y.model_id = x.model_id
                             /\ s.next - w.next = Cardinality(Items(s)) - Cardinality(Items(w))
                             /\ \A k \in DOMAIN w.models : s.models[k] = w.models[k]
              /\ w.keys \subseteq s.keys
              /\ r.claim # <<>> => validate_api_key(s, at(i).e.auth) /\ r.claim[1].verified /\ r.claim[1].has_inputs
              /\ fresh(i) => \A j \in earlier : at(i).e.at - at(j).e.at >= WINDOW
              /\ fresh(i) => Cardinality({j \in later : \A x \in (i + 1) .. j : ~(fresh(x) /\ same(i, x))}) <= RATE_LIMIT_PER_MIN

\* The standalone server stores one result for every submission it accepts.
ApiExact(events) ==
    LET end == Run(LAMBDA api, e : handle_client(api, e, e.verdict).srv, ApiBoot, events)
    IN  /\ end.submissions = Len(end.results) /\ end.next = end.submissions + 1
        /\ end.verified = Cardinality({i \in DOMAIN end.results : end.results[i].verified})
        /\ \A i \in DOMAIN end.results : handle_result(end, i).code = 200 /\ end.results[i].n \in 1 .. DIRECT_N
        /\ handle_result(end, end.next).code = 404
=============================================================================
