----------------------------- MODULE ResponseCache -----------------------------
(***************************************************************************)
(* cache.InMemoryCache as the HTTP handler and the gRPC service use it: a  *)
(* request looks its query up, forwards it on a miss and stores the answer.*)
(*                                                                         *)
(* The cache is a plain Go map without a lock, written even by Get (every  *)
(* miss deletes), so an access to it is not a step but an interval.  When  *)
(* an access begins inside somebody else's write the Go runtime may end    *)
(* the whole process; if it does not notice, or if a write begins inside a *)
(* read, the map holds anything from then on (raced).  Looking up in an    *)
(* empty map, and deleting from one, return before any of that.            *)
(*                                                                         *)
(* Get reads the map and the clock in one step: the entry is a copy, which *)
(* a later clock only makes older.  Forwarding is the subject of Chain;    *)
(* here it answers, with a body that echoes the client as its id or is not *)
(* JSON, or it fails.  Ages are measured in ticks.                         *)
(*                                                                         *)
(* The cache is asked about one thing and the node about another.  Call    *)
(* looks up the bytes of the parameters and forwards what is left of them  *)
(* after decoding into interface{} and encoding again: a number beyond     *)
(* 2^53 comes out as another one.  HandleRPC looks up what it decodes of a *)
(* body and forwards the bytes, which a node may read differently (a       *)
(* member given twice, or in capitals).                                    *)
(***************************************************************************)
EXTENDS Integers, Sequences, FiniteSets

CONSTANTS
  HttpClients,   (* connections to HandleRPC; a client is also its JSON-RPC id *)
  GrpcClients,   (* clients of RPCService, one call after the other            *)
  StringIds,     (* HTTP clients whose ids are strings                         *)
  Queries,       (* [chain, method, params], each a sequence of strings        *)
  HttpAsks(_),   (* what nodes may read in bodies that decode to a query       *)
  GrpcAsks(_),   (* a query with its parameters decoded and encoded again      *)
  CacheableMethods,
  TTL,
  MaxDelay       (* ticks between a node's answer and Set: the HTTP timeout    *)

Clients == HttpClients \cup GrpcClients

\* Mutant: the chain is not part of the key.
makeKeyWithoutChain(q) == q.method \o q.params

\* sha256 is taken to be injective, so the key is what is fed to it: the
\* three parts with nothing between them.
makeKey(q) == q.chain \o q.method \o q.params

IsCacheable(q) == q.method \in CacheableMethods

\* What either service may ask a node on behalf of a query.
Asked(q) == HttpAsks(q) \cup {GrpcAsks(q)}

\* Neither sequence is the beginning of the other.
Diverge(s, t) == \E i \in 1..Len(s) : i <= Len(t) /\ s[i] # t[i]

\* makeKey delimits nothing, so it takes the configuration to keep keys apart:
\* no chain's name with a cacheable method begins another such pair.  The
\* chain is no part of what is forwarded: it selects the nodes.
ASSUME CacheConfig ==
  /\ HttpClients \cap GrpcClients = {} /\ StringIds \subseteq HttpClients
  /\ TTL \in Nat /\ MaxDelay \in Nat
  /\ \A q \in Queries :
       /\ q = [chain |-> q.chain, method |-> q.method, params |-> q.params]
       /\ q.chain \in Seq(STRING) /\ q.method \in Seq(STRING) /\ q.params \in Seq(STRING)
       /\ \A a \in Asked(q) : a.chain = q.chain
  /\ \A q, r \in Queries :
       IsCacheable(q) /\ IsCacheable(r)
         => \/ q.chain = r.chain /\ q.method = r.method
            \/ Diverge(q.chain \o q.method, r.chain \o r.method)

VARIABLES
  data,   (* InMemoryCache.data                                    *)
  req,    (* the locals of each client's request                   *)
  raced,  (* history: accesses to data overlapped and went on      *)
  fatal   (* the runtime ended the process: "concurrent map ..."   *)

vars == <<data, req, raced, fatal>>

NotJSON == "not json"
NoQuery == [chain |-> <<>>, method |-> <<>>, params |-> <<>>]
MaxAge == TTL + MaxDelay + 1   \* ages beyond are not told apart
Keys == {makeKey(q) : q \in Queries}
Steps == {"idle", "lookup", "reading", "delete", "deleting", "forward",
          "store", "storing", "reply", "error"}

\* A body: what it answers, the id in it, its age since the node sent it.
Answerable == {NoQuery} \cup (UNION {Asked(q) : q \in Queries})
Bodies == [query : Answerable, id : Clients \cup {NotJSON}, age : 0..MaxAge]
Garbled == [query |-> NoQuery, id |-> NotJSON, age |-> MaxAge]

\* left is expiresAt - now, down to -1.
Entries == [present : BOOLEAN, body : Bodies, left : -1..TTL]
NoEntry == [present |-> FALSE, body |-> Garbled, left |-> -1]

Requests == [pc : Steps, query : Queries \cup {NoQuery}, body : Bodies, hit : BOOLEAN]
NoRequest == [pc |-> "idle", query |-> NoQuery, body |-> Garbled, hit |-> FALSE]

NoData == [k \in Keys |-> NoEntry]
NoRequests == [c \in Clients |-> NoRequest]

Init ==
  /\ data = NoData
  /\ req = NoRequests
  /\ raced = FALSE
  /\ fatal = FALSE

-----------------------------------------------------------------------------
\* Goroutines inside an access to the map.
Writers == {c \in Clients : req[c].pc \in {"deleting", "storing"}}
Readers == {c \in Clients : req[c].pc = "reading"}

\* How many entries the runtime counts in the map: any write under way may be
\* counted already.
Present == {k \in Keys : data[k].present}
MayCountSome == raced \/ Present # {} \/ \E c \in Clients : req[c].pc = "storing"
MayCountNone ==
  raced \/ \A k \in Present :
             \E c \in Writers : req[c].pc = "deleting" /\ makeKey(req[c].query) = k

Goto(c, pc) == req' = [req EXCEPT ![c].pc = pc]

\* An access begins: the runtime notices a write under way and takes the
\* process and its memory down, or it does not.
Enter(c, from, to, others) ==
  /\ req[c].pc = from
  /\ \/ /\ Writers # {}
        /\ fatal' = TRUE
        /\ req' = NoRequests /\ data' = NoData
        /\ UNCHANGED raced
     \/ /\ Goto(c, to)
        /\ raced' = (raced \/ others # {})
        /\ data' = IF raced' THEN NoData ELSE data
        /\ UNCHANGED fatal

\* An access to an empty map: nothing is found, or deleted.
Skip(c, from, to) ==
  /\ req[c].pc = from
  /\ MayCountNone
  /\ Goto(c, to)
  /\ UNCHANGED <<data, raced, fatal>>

\* An access that writes ends.  What a raced map holds is left to Found.
Write(c, e) ==
  data' = [data EXCEPT ![makeKey(req[c].query)] = IF raced THEN NoEntry ELSE e]

\* parseResponse decodes the id into an int64.
parseResponse(body) == body.id \notin StringIds \cup {NotJSON}

\* HTTP sends the body as it is, gRPC what it can parse of it.
Reply(c, body, hit) ==
  req' = [req EXCEPT ![c].pc = IF c \in HttpClients \/ parseResponse(body)
                               THEN "reply" ELSE "error",
                     ![c].body = body, ![c].hit = hit]

\* A request arrives: for an unknown chain or one that does not parse it
\* ends here, and the cache is asked about cacheable methods only.
Begin(c, q) ==
  /\ req[c].pc = "idle"
  /\ \E pc \in {"error", IF IsCacheable(q) THEN "lookup" ELSE "forward"} :
       req' = [req EXCEPT ![c].pc = pc, ![c].query = q]
  /\ UNCHANGED <<data, raced, fatal>>

\* The two ways in; params of Call that do not decode are its "error".
HandleRPC(c, q) == c \in HttpClients /\ Begin(c, q)
Call(c, q) == c \in GrpcClients /\ Begin(c, q)

\* Get: the access to c.data[key] begins, unless the map is empty ...
Get(c) ==
  \/ MayCountSome /\ Enter(c, "lookup", "reading", Writers)
  \/ Skip(c, "lookup", "delete")

\* ... and ends with a hit, if there is an entry and it has not expired, or
\* with a delete.  Once accesses have overlapped it may find anything.
Found(c) ==
  IF raced
  THEN {NoEntry, [present |-> TRUE, body |-> Garbled, left |-> 0]}
  ELSE {data[makeKey(req[c].query)]}

\* Mutant: a hit renews the entry.
LookupRenews(c) ==
  LET k == makeKey(req[c].query)
  IN  /\ req[c].pc = "reading"
      /\ \/ /\ data[k].present /\ data[k].left >= 0
            /\ Reply(c, data[k].body, TRUE)
            /\ data' = [data EXCEPT ![k].left = TTL]
         \/ /\ ~(data[k].present /\ data[k].left >= 0)
            /\ Goto(c, "delete")
            /\ UNCHANGED data
      /\ UNCHANGED <<raced, fatal>>

Lookup(c) ==
  /\ req[c].pc = "reading"
  /\ \E e \in Found(c) :
       \/ e.present /\ e.left >= 0 /\ Reply(c, e.body, TRUE)
       \/ ~(e.present /\ e.left >= 0) /\ Goto(c, "delete")
  /\ UNCHANGED <<data, raced, fatal>>

\* delete(c.data, key), whether or not the entry is still the one just read.
Delete(c) ==
  \/ MayCountSome /\ Enter(c, "delete", "deleting", Writers \cup Readers)
  \/ Skip(c, "delete", "forward")

Deleted(c) ==
  /\ req[c].pc = "deleting"
  /\ Write(c, NoEntry)
  /\ Goto(c, "forward")
  /\ UNCHANGED <<raced, fatal>>

\* What the body that is forwarded asks a node: the client's own bytes, or
\* json.Marshal of the decoded parameters.
Forwarded(c) ==
  IF c \in HttpClients THEN HttpAsks(req[c].query) ELSE {GrpcAsks(req[c].query)}

\* ForwardWithRetry returns a body, whatever its status code; cacheable
\* ones go to the cache first.
Answer(c) ==
  /\ req[c].pc = "forward"
  /\ \E id \in {c, NotJSON}, a \in Forwarded(c) :
       LET body == [query |-> a, id |-> id, age |-> 0]
       IN  IF IsCacheable(req[c].query)
           THEN req' = [req EXCEPT ![c].pc = "store", ![c].body = body]
           ELSE Reply(c, body, FALSE)
  /\ UNCHANGED <<data, raced, fatal>>

\* ForwardWithRetry returns an error: 502, or codes.Unavailable.
ForwardFails(c) ==
  /\ req[c].pc = "forward"
  /\ Goto(c, "error")
  /\ UNCHANGED <<data, raced, fatal>>

\* Set: c.data[key] = cacheEntry{response, time.Now().Add(ttl)}
Set(c) == Enter(c, "store", "storing", Writers \cup Readers)
Stored(c) ==
  /\ req[c].pc = "storing"
  /\ Write(c, [present |-> TRUE, body |-> req[c].body, left |-> TTL])
  /\ Reply(c, req[c].body, FALSE)
  /\ UNCHANGED <<raced, fatal>>

\* The handler has returned.
Finish(c) ==
  /\ req[c].pc \in {"reply", "error"}
  /\ req' = [req EXCEPT ![c] = NoRequest]
  /\ UNCHANGED <<data, raced, fatal>>

Older(body) == [body EXCEPT !.age = IF @ < MaxAge THEN @ + 1 ELSE @]

\* What an expired entry holds is never read again.
Aged(e) ==
  [present |-> e.present,
   body    |-> IF e.left > 0 THEN Older(e.body) ELSE Garbled,
   left    |-> IF e.left > 0 THEN e.left - 1 ELSE -1]

\* A body is stored within MaxDelay of being sent by the node.
TimePasses ==
  /\ \A c \in Clients : req[c].pc \in {"store", "storing"} => req[c].body.age < MaxDelay
  /\ data' = [k \in Keys |-> Aged(data[k])]
  /\ req' = [c \in Clients |->
       IF req[c].pc \in {"store", "storing"} THEN [req[c] EXCEPT !.body = Older(@)] ELSE req[c]]
  /\ UNCHANGED <<raced, fatal>>

Step(c) ==
  \/ Get(c) \/ Lookup(c) \/ Delete(c) \/ Deleted(c)
  \/ Answer(c) \/ ForwardFails(c) \/ Set(c) \/ Stored(c) \/ Finish(c)

\* After a fatal error there is no process any more.
Next ==
  \/ ~fatal /\ \E c \in Clients : Step(c) \/ \E q \in Queries : HandleRPC(c, q) \/ Call(c, q)
  \/ ~fatal /\ TimePasses
  \/ fatal /\ UNCHANGED vars

Spec == Init /\ [][Next]_vars

-----------------------------------------------------------------------------
\* Types; and whatever is stored, or about to be, answers a cacheable query.
TypeOK ==
  /\ data \in [Keys -> Entries]
  /\ req \in [Clients -> Requests]
  /\ raced \in BOOLEAN /\ fatal \in BOOLEAN
  /\ \A c \in Clients :
       /\ req[c].pc \notin {"idle", "error"} => req[c].query \in Queries
       /\ req[c].pc \in {"lookup", "reading", "delete", "deleting", "store", "storing"}
            => IsCacheable(req[c].query)

\* A client that gets a hit gets an answer to what one of the services makes
\* of the query it asked, and from a node of the chain it asked, whoever
\* stored it, as long as no accesses overlapped.  (Not to what its own
\* service makes of it: HTTP clients can be served the answer to parameters
\* that a gRPC call changed on their way to the node.)
HitAnswersQuery ==
  \A c \in Clients :
    (req[c].pc = "reply" /\ req[c].hit /\ ~raced)
      => /\ req[c].body.query \in Asked(req[c].query)
         /\ req[c].body.query.chain = req[c].query.chain

\* No client gets a hit that the node sent more than the TTL and one forward
\* ago, whichever request stored it and however slow that request was.
HitIsRecent ==
  \A c \in Clients :
    (req[c].pc = "reply" /\ req[c].hit /\ ~raced) => req[c].body.age <= TTL + MaxDelay

\* "Prevents server crashes from unhandled errors" (docs/ARCHITECTURE.md):
\* no interleaving of requests ends the process.
NoCrash == ~fatal
=============================================================================
