-------------------------- MODULE ResponseCacheProofs --------------------------
(***************************************************************************)
(* Proofs about the response cache, for any clients, queries, TTL and      *)
(* delay.                                                                  *)
(***************************************************************************)
EXTENDS ResponseCache, TLAPS

\* An entry that can be hit answers what was made of the query of its key, and
\* is no older than its time in the cache and one forward.
EntryGood(e, q) ==
  (e.present /\ e.left >= 0)
    => e.body.query \in Asked(q) /\ e.body.age <= (TTL - e.left) + MaxDelay

Cacheable == {q \in Queries : IsCacheable(q)}

EntriesGood == ~raced => \A q \in Cacheable : EntryGood(data[makeKey(q)], q)

\* A body on its way to the cache answers what was made of its request's
\* query, in time.
InFlightGood ==
  \A c \in Clients :
    req[c].pc \in {"store", "storing"}
      => req[c].body.query \in Asked(req[c].query) /\ req[c].body.age <= MaxDelay

\* The inductive invariant: hits are good because entries are, and entries
\* because the bodies they were made from are.
IInv == TypeOK /\ EntriesGood /\ InFlightGood /\ HitAnswersQuery /\ HitIsRecent

\* Sequences that diverge do so whatever follows them, and what follows a
\* sequence can be told from the whole.
LEMMA StillDiverge ==
  ASSUME NEW s \in Seq(STRING), NEW t \in Seq(STRING), Diverge(s, t),
         NEW u \in Seq(STRING), NEW v \in Seq(STRING)
  PROVE  s \o u # t \o v
<1>1. PICK i \in 1..Len(s) : i <= Len(t) /\ s[i] # t[i]
  BY DEF Diverge
<1>2. (s \o u)[i] = s[i] /\ (t \o v)[i] = t[i]
  BY <1>1
<1> QED
  BY <1>1, <1>2

LEMMA Rest ==
  ASSUME NEW s \in Seq(STRING), NEW u \in Seq(STRING), NEW v \in Seq(STRING),
         s \o u = s \o v
  PROVE  u = v
<1>1. Len(u) = Len(v)
  BY Len(s \o u) = Len(s) + Len(u), Len(s \o v) = Len(s) + Len(v)
<1>2. ASSUME NEW i \in 1..Len(u) PROVE u[i] = v[i]
  BY <1>1, (s \o u)[Len(s) + i] = u[i], (s \o v)[Len(s) + i] = v[i]
<1> QED
  BY <1>1, <1>2

\* The keys of cacheable queries are theirs alone.
LEMMA KeyOfQuery ==
  /\ \A q \in Queries : makeKey(q) \in Keys
  /\ \A q, r \in Cacheable : makeKey(q) = makeKey(r) => q = r
<1>1. \A q \in Queries : makeKey(q) \in Keys
  BY DEF Keys
<1>2. ASSUME NEW q \in Cacheable, NEW r \in Cacheable, makeKey(q) = makeKey(r)
      PROVE  q = r
  <2> DEFINE s == q.chain \o q.method
             t == r.chain \o r.method
  <2>1. /\ q = [chain |-> q.chain, method |-> q.method, params |-> q.params]
        /\ r = [chain |-> r.chain, method |-> r.method, params |-> r.params]
        /\ q.chain \in Seq(STRING) /\ q.method \in Seq(STRING) /\ q.params \in Seq(STRING)
        /\ r.chain \in Seq(STRING) /\ r.method \in Seq(STRING) /\ r.params \in Seq(STRING)
    BY CacheConfig DEF CacheConfig, Cacheable
  <2>2. \/ q.chain = r.chain /\ q.method = r.method
        \/ Diverge(s, t)
    BY CacheConfig DEF CacheConfig, Cacheable
  <2>3. s \in Seq(STRING) /\ t \in Seq(STRING) /\ s \o q.params = t \o r.params
    BY <1>2, <2>1 DEF makeKey
  <2> HIDE DEF s, t
  <2>4. ~Diverge(s, t)
    BY <2>1, <2>3, StillDiverge
  <2>5. q.chain = r.chain /\ q.method = r.method
    BY <2>2, <2>4
  <2>6. s = t
    BY <2>5 DEF s, t
  <2>7. q.params = r.params
    BY <2>1, <2>3, <2>6, Rest
  <2> QED
    BY <2>1, <2>5, <2>7
<1> QED
  BY <1>1, <1>2

\* Whatever is asked of a node is asked of one of the query's chain.
LEMMA SameChain ==
  ASSUME NEW q \in Queries, NEW a \in Asked(q)
  PROVE  a.chain = q.chain
  BY CacheConfig DEF CacheConfig

\* The constants of the model have their types.
LEMMA ValuesTyped ==
  /\ MaxAge \in Nat /\ TTL \in Nat /\ MaxDelay \in Nat
  /\ Garbled \in Bodies /\ NoEntry \in Entries /\ NoRequest \in Requests
  /\ NoData \in [Keys -> Entries] /\ NoRequests \in [Clients -> Requests]
<1>1. MaxAge \in Nat /\ TTL \in Nat /\ MaxDelay \in Nat
  BY CacheConfig DEF CacheConfig, MaxAge
<1>2. Garbled \in Bodies
  <2>1. NoQuery \in Answerable
    BY DEF Answerable
  <2> QED
    BY <1>1, <2>1 DEF Garbled, Bodies
<1>3. NoEntry \in Entries /\ NoRequest \in Requests
  BY <1>1, <1>2 DEF NoEntry, Entries, NoRequest, Requests, Steps
<1> QED
  BY <1>1, <1>2, <1>3 DEF NoData, NoRequests

\* Ageing keeps types.
LEMMA OlderTyped ==
  ASSUME NEW b \in Bodies
  PROVE  /\ Older(b) \in Bodies
         /\ Older(b).query = b.query
         /\ Older(b).age <= b.age + 1
  BY ValuesTyped DEF Bodies, Older

LEMMA EntryTyped ==
  ASSUME NEW p \in BOOLEAN, NEW b \in Bodies, NEW l \in -1..TTL
  PROVE  [present |-> p, body |-> b, left |-> l] \in Entries
  BY Zenon DEF Entries

LEMMA AgedTyped ==
  ASSUME NEW e \in Entries
  PROVE  Aged(e) \in Entries
<1>1. e.present \in BOOLEAN /\ e.body \in Bodies /\ e.left \in -1..TTL
  BY Zenon DEF Entries
<1>2. (IF e.left > 0 THEN Older(e.body) ELSE Garbled) \in Bodies
  BY <1>1, OlderTyped, ValuesTyped
<1>3. (IF e.left > 0 THEN e.left - 1 ELSE -1) \in -1..TTL
  BY <1>1, ValuesTyped
<1> QED
  BY <1>1, <1>2, <1>3, EntryTyped DEF Aged

\* What a reply does to the requests.
LEMMA ReplyTyped ==
  ASSUME TypeOK, NEW c \in Clients, NEW b \in Bodies, NEW h \in BOOLEAN, Reply(c, b, h)
  PROVE  /\ req' \in [Clients -> Requests]
         /\ \A d \in Clients \ {c} : req'[d] = req[d]
         /\ req'[c].pc \in {"reply", "error"}
         /\ req'[c].query = req[c].query /\ req'[c].body = b /\ req'[c].hit = h
  BY DEF TypeOK, Reply, Requests, Steps

\* What a change of step does to them.
LEMMA GotoTyped ==
  ASSUME TypeOK, NEW c \in Clients, NEW pc \in Steps, Goto(c, pc)
  PROVE  /\ req' \in [Clients -> Requests]
         /\ \A d \in Clients \ {c} : req'[d] = req[d]
         /\ req'[c].pc = pc
         /\ req'[c].query = req[c].query /\ req'[c].body = req[c].body
         /\ req'[c].hit = req[c].hit
  BY DEF TypeOK, Goto, Requests, Steps

\* The end of a write, and the beginning of an access.
LEMMA WriteTyped ==
  ASSUME TypeOK, NEW c \in Clients, req[c].query \in Queries, NEW e \in Entries, Write(c, e)
  PROVE  /\ data' \in [Keys -> Entries]
         /\ ~raced => data' = [data EXCEPT ![makeKey(req[c].query)] = e]
  BY KeyOfQuery, ValuesTyped DEF TypeOK, Write

LEMMA EnterTyped ==
  ASSUME TypeOK, NEW c \in Clients, NEW from \in Steps, NEW to \in Steps,
         NEW others, Enter(c, from, to, others)
  PROVE  /\ req[c].pc = from
         /\ raced' \in BOOLEAN /\ fatal' \in BOOLEAN
         /\ data' \in [Keys -> Entries] /\ req' \in [Clients -> Requests]
         /\ \/ req' = NoRequests /\ data' = NoData
            \/ Goto(c, to) /\ (raced' \/ (data' = data /\ ~raced))
<1> DEFINE Dies == /\ fatal' = TRUE
                  /\ req' = NoRequests /\ data' = NoData
                  /\ UNCHANGED raced
           Goes == /\ Goto(c, to)
                   /\ raced' = (raced \/ others # {})
                   /\ data' = IF raced' THEN NoData ELSE data
                   /\ UNCHANGED fatal
<1>1. req[c].pc = from /\ (Dies \/ Goes)
  BY Zenon DEF Enter
<1>2. CASE Dies
  BY <1>1, <1>2, ValuesTyped DEF TypeOK
<1>3. CASE Goes
  <2>1. raced' \in BOOLEAN /\ fatal' \in BOOLEAN /\ (raced' \/ ~raced)
    BY <1>3 DEF TypeOK
  <2>2. data' \in [Keys -> Entries] /\ (raced' \/ (data' = data /\ ~raced))
    <3>1. CASE raced'
      <4>1. data' = NoData
        BY Zenon, <1>3, <3>1
      <4>2. data' \in [Keys -> Entries]
        BY Zenon, <4>1, ValuesTyped
      <4> QED
        BY Zenon, <3>1, <4>2
    <3>2. CASE ~raced'
      BY <1>3, <2>1, <3>2 DEF TypeOK
    <3> QED
      BY <3>1, <3>2
  <2>3. req' \in [Clients -> Requests] /\ Goto(c, to)
    BY <1>3, GotoTyped
  <2> QED
    BY <1>1, <2>1, <2>2, <2>3
<1> QED
  BY <1>1, <1>2, <1>3

\* A map without entries and a process without requests satisfy everything.
LEMMA NothingGood ==
  /\ \A k \in Keys : NoData[k].left = -1
  /\ \A c \in Clients : NoRequests[c].pc = "idle"
  BY DEF NoData, NoEntry, NoRequests, NoRequest

\* A new cache is empty.
LEMMA InitIInv == Init => IInv
<1> SUFFICES ASSUME Init PROVE IInv
  OBVIOUS
<1>1. TypeOK
  BY ValuesTyped, NothingGood DEF Init, TypeOK
<1>2. EntriesGood
  BY KeyOfQuery, NothingGood DEF Init, EntriesGood, EntryGood, Cacheable
<1>3. InFlightGood /\ HitAnswersQuery /\ HitIsRecent
  BY NothingGood DEF Init, InFlightGood, HitAnswersQuery, HitIsRecent
<1> QED
  BY <1>1, <1>2, <1>3 DEF IInv

\* An access to the map begins: nothing good is lost.
LEMMA EnterKeeps ==
  ASSUME IInv, NEW c \in Clients,
         \/ Enter(c, "lookup", "reading", Writers)
         \/ Enter(c, "delete", "deleting", Writers \cup Readers)
         \/ Enter(c, "store", "storing", Writers \cup Readers)
  PROVE  IInv'
<1>1. PICK from \in {"lookup", "delete", "store"}, to \in Steps,
             others \in SUBSET Clients :
        /\ Enter(c, from, to, others)
        /\ from = "lookup" => to = "reading"
        /\ from = "delete" => to = "deleting"
        /\ from = "store" => to = "storing"
  <2>1. Writers \in SUBSET Clients /\ (Writers \cup Readers) \in SUBSET Clients
    BY DEF Writers, Readers
  <2> QED
    BY Zenon, <2>1 DEF Steps
<1>2. from \in Steps /\ TypeOK
  BY DEF Steps, IInv
<1>3. /\ req[c].pc = from /\ raced' \in BOOLEAN /\ fatal' \in BOOLEAN
      /\ data' \in [Keys -> Entries] /\ req' \in [Clients -> Requests]
      /\ \/ req' = NoRequests /\ data' = NoData
         \/ Goto(c, to) /\ (raced' \/ (data' = data /\ ~raced))
  BY <1>1, <1>2, EnterTyped
<1>4. CASE req' = NoRequests /\ data' = NoData
  <2>1. TypeOK'
    BY <1>3, <1>4, NothingGood DEF TypeOK
  <2>2. EntriesGood'
    BY <1>4, KeyOfQuery, NothingGood DEF EntriesGood, EntryGood, Cacheable
  <2>3. InFlightGood' /\ HitAnswersQuery' /\ HitIsRecent'
    BY <1>4, NothingGood DEF InFlightGood, HitAnswersQuery, HitIsRecent
  <2> QED
    BY <2>1, <2>2, <2>3 DEF IInv
<1>5. CASE Goto(c, to) /\ (raced' \/ (data' = data /\ ~raced))
  <2>0. /\ \A d \in Clients \ {c} : req'[d] = req[d]
        /\ req'[c].pc = to /\ to \in {"reading", "deleting", "storing"}
        /\ req'[c].query = req[c].query /\ req'[c].body = req[c].body
    BY <1>1, <1>2, <1>5, GotoTyped
  <2>1. TypeOK'
    BY <1>1, <1>2, <1>3, <2>0 DEF TypeOK
  <2>2. EntriesGood'
    BY <1>5 DEF IInv, EntriesGood, EntryGood
  <2>3. InFlightGood'
    BY <1>1, <1>3, <2>0 DEF IInv, InFlightGood
  <2>4. HitAnswersQuery' /\ HitIsRecent'
    BY <1>5, <2>0 DEF IInv, HitAnswersQuery, HitIsRecent
  <2> QED
    BY <2>1, <2>2, <2>3, <2>4 DEF IInv
<1> QED
  BY <1>3, <1>4, <1>5

\* A request changes, or is answered, and the map and the others stay as
\* they are: it is enough to look at the request.
LEMMA RequestKeeps ==
  ASSUME IInv, NEW c \in Clients,
         req' \in [Clients -> Requests],
         UNCHANGED <<data, raced, fatal>>,
         \A d \in Clients \ {c} : req'[d] = req[d],
         req'[c].pc \notin {"idle", "error"} => req'[c].query \in Queries,
         req'[c].pc \in {"lookup", "reading", "delete", "deleting", "store", "storing"}
           => IsCacheable(req'[c].query),
         req'[c].pc \in {"store", "storing"}
           => req'[c].body.query \in Asked(req'[c].query) /\ req'[c].body.age <= MaxDelay,
         (req'[c].pc = "reply" /\ req'[c].hit /\ ~raced)
           => req'[c].body.query \in Asked(req'[c].query) /\ req'[c].body.age <= TTL + MaxDelay
  PROVE  IInv'
<1>1. TypeOK'
  BY DEF IInv, TypeOK, IsCacheable
<1>2. EntriesGood'
  BY DEF IInv, EntriesGood, EntryGood
<1>3. InFlightGood'
  BY DEF IInv, InFlightGood
<1>4. HitAnswersQuery' /\ HitIsRecent'
  BY SameChain DEF IInv, HitAnswersQuery, HitIsRecent
<1> QED
  BY <1>1, <1>2, <1>3, <1>4 DEF IInv

\* Arrival, lookup, answers, failures and the end of a request.
LEMMA BeginKeeps ==
  ASSUME IInv, NEW c \in Clients, NEW q \in Queries, Begin(c, q)
  PROVE  IInv'
<1>1. PICK pc \in {"error", IF IsCacheable(q) THEN "lookup" ELSE "forward"} :
        req' = [req EXCEPT ![c].pc = pc, ![c].query = q]
  BY DEF Begin
<1>2. /\ req' \in [Clients -> Requests]
      /\ \A d \in Clients \ {c} : req'[d] = req[d]
      /\ req'[c].pc = pc /\ req'[c].query = q
  BY <1>1 DEF IInv, TypeOK, Requests, Steps
<1>3. pc \in {"error", "lookup", "forward"} /\ (pc = "lookup" => IsCacheable(q))
  OBVIOUS
<1> QED
  BY <1>2, <1>3, RequestKeeps DEF Begin

\* An access to an empty map changes nothing.
LEMMA SkipKeeps ==
  ASSUME IInv, NEW c \in Clients,
         Skip(c, "lookup", "delete") \/ Skip(c, "delete", "forward")
  PROVE  IInv'
<1>1. PICK from \in {"lookup", "delete"}, to \in {"delete", "forward"} : Skip(c, from, to)
  OBVIOUS
<1>2. /\ req' \in [Clients -> Requests]
      /\ \A d \in Clients \ {c} : req'[d] = req[d]
      /\ req'[c].pc = to /\ req'[c].query = req[c].query
  BY <1>1, GotoTyped DEF IInv, Skip, Steps
<1>3. req[c].query \in Queries /\ IsCacheable(req[c].query)
  BY <1>1 DEF IInv, TypeOK, Skip
<1> QED
  BY <1>1, <1>2, <1>3, RequestKeeps DEF Skip

LEMMA LookupKeeps ==
  ASSUME IInv, NEW c \in Clients, Lookup(c)
  PROVE  IInv'
<1>0. TypeOK /\ req[c].pc = "reading" /\ req[c].query \in Queries
      /\ IsCacheable(req[c].query)
  BY DEF IInv, TypeOK, Lookup
<1>1. PICK e \in Found(c) :
        \/ e.present /\ e.left >= 0 /\ Reply(c, e.body, TRUE)
        \/ ~(e.present /\ e.left >= 0) /\ Goto(c, "delete")
  BY DEF Lookup
<1>2. CASE e.present /\ e.left >= 0 /\ Reply(c, e.body, TRUE)
  <2>1. e.body \in Bodies
    BY <1>0, KeyOfQuery, ValuesTyped DEF TypeOK, Found, Entries, NoEntry
  <2>2. ~raced => e.body.query \in Asked(req[c].query) /\ e.body.age <= TTL + MaxDelay
    <3> SUFFICES ASSUME ~raced
                 PROVE  e.body.query \in Asked(req[c].query) /\ e.body.age <= TTL + MaxDelay
      OBVIOUS
    <3>1. e = data[makeKey(req[c].query)] /\ e \in Entries
      BY <1>0, KeyOfQuery DEF Found, TypeOK
    <3>2. EntryGood(e, req[c].query)
      BY <1>0, <3>1 DEF IInv, EntriesGood, Cacheable
    <3>3. e.left \in Int /\ e.body.age \in Int
      BY <2>1, <3>1 DEF Entries, Bodies
    <3> QED
      BY <1>2, <3>2, <3>3, ValuesTyped DEF EntryGood
  <2>3. /\ req' \in [Clients -> Requests]
        /\ \A d \in Clients \ {c} : req'[d] = req[d]
        /\ req'[c].pc \in {"reply", "error"}
        /\ req'[c].query = req[c].query /\ req'[c].body = e.body
    BY <1>0, <1>2, <2>1, ReplyTyped
  <2> QED
    BY <1>0, <2>2, <2>3, RequestKeeps DEF Lookup
<1>3. CASE Goto(c, "delete")
  <2>1. /\ req' \in [Clients -> Requests]
        /\ \A d \in Clients \ {c} : req'[d] = req[d]
        /\ req'[c].pc = "delete" /\ req'[c].query = req[c].query
    BY <1>0, <1>3, GotoTyped DEF Steps
  <2> QED
    BY <1>0, <2>1, RequestKeeps DEF Lookup
<1> QED
  BY <1>1, <1>2, <1>3

LEMMA AnswerKeeps ==
  ASSUME IInv, NEW c \in Clients, Answer(c)
  PROVE  IInv'
<1>0. TypeOK /\ req[c].pc = "forward" /\ req[c].query \in Queries
  BY DEF IInv, TypeOK, Answer
<1>1. PICK id \in {c, NotJSON}, a \in Forwarded(c) :
        LET body == [query |-> a, id |-> id, age |-> 0]
        IN  IF IsCacheable(req[c].query)
            THEN req' = [req EXCEPT ![c].pc = "store", ![c].body = body]
            ELSE Reply(c, body, FALSE)
  BY DEF Answer
<1> DEFINE body == [query |-> a, id |-> id, age |-> 0]
<1>2. body \in Bodies /\ body.query \in Asked(req[c].query) /\ body.age <= MaxDelay
  <2>1. a \in Asked(req[c].query)
    BY DEF Forwarded, Asked
  <2>2. a \in Answerable
    BY <1>0, <2>1 DEF Answerable
  <2> QED
    BY <1>0, <2>1, <2>2, ValuesTyped DEF Bodies
<1> HIDE DEF body
<1>3. CASE /\ IsCacheable(req[c].query)
           /\ req' = [req EXCEPT ![c].pc = "store", ![c].body = body]
  <2>1. /\ req' \in [Clients -> Requests]
        /\ \A d \in Clients \ {c} : req'[d] = req[d]
        /\ req'[c].pc = "store" /\ req'[c].query = req[c].query /\ req'[c].body = body
    BY <1>0, <1>2, <1>3 DEF TypeOK, Requests, Steps
  <2> QED
    BY <1>0, <1>2, <1>3, <2>1, RequestKeeps DEF Answer
<1>4. CASE Reply(c, body, FALSE)
  <2>1. /\ req' \in [Clients -> Requests]
        /\ \A d \in Clients \ {c} : req'[d] = req[d]
        /\ req'[c].pc \in {"reply", "error"}
        /\ req'[c].query = req[c].query /\ req'[c].hit = FALSE
    BY <1>0, <1>2, <1>4, ReplyTyped
  <2> QED
    BY <1>0, <2>1, RequestKeeps DEF Answer
<1> QED
  BY <1>1, <1>3, <1>4 DEF body

LEMMA EndKeeps ==
  ASSUME IInv, NEW c \in Clients, ForwardFails(c) \/ Finish(c)
  PROVE  IInv'
<1>0. TypeOK
  BY DEF IInv
<1>1. CASE ForwardFails(c)
  <2>1. /\ req' \in [Clients -> Requests]
        /\ \A d \in Clients \ {c} : req'[d] = req[d]
        /\ req'[c].pc = "error"
    BY <1>0, <1>1, GotoTyped DEF ForwardFails, Steps
  <2> QED
    BY <1>1, <2>1, RequestKeeps DEF ForwardFails
<1>2. CASE Finish(c)
  <2>1. /\ req' \in [Clients -> Requests]
        /\ \A d \in Clients \ {c} : req'[d] = req[d]
        /\ req'[c].pc = "idle"
    BY <1>0, <1>2, ValuesTyped DEF Finish, TypeOK, NoRequest
  <2> QED
    BY <1>2, <2>1, RequestKeeps DEF Finish
<1> QED
  BY <1>1, <1>2

\* The map is written: delete and store.
LEMMA WriteKeeps ==
  ASSUME IInv, NEW c \in Clients, Deleted(c) \/ Stored(c)
  PROVE  IInv'
<1>0. TypeOK /\ req[c].query \in Cacheable /\ req[c].query \in Queries
      /\ req[c].body \in Bodies /\ UNCHANGED <<raced, fatal>>
  BY DEF IInv, TypeOK, Deleted, Stored, Requests, Cacheable
<1> DEFINE new == [present |-> TRUE, body |-> req[c].body, left |-> TTL]
<1>1. new \in Entries
  <2>1. TTL \in -1..TTL
    BY ValuesTyped
  <2> QED
    BY Zenon, <1>0, <2>1, EntryTyped
<1>2. PICK e \in Entries :
        /\ Write(c, e)
        /\ EntryGood(e, req[c].query)
        /\ req' \in [Clients -> Requests]
        /\ \A d \in Clients \ {c} : req'[d] = req[d]
        /\ \/ req'[c].pc = "forward" /\ req'[c].query = req[c].query
           \/ req'[c].pc \in {"reply", "error"} /\ req'[c].hit = FALSE
              /\ req'[c].query = req[c].query
  <2>1. CASE Deleted(c)
    <3>1. Write(c, NoEntry) /\ Goto(c, "forward")
      BY <2>1 DEF Deleted
    <3>2. EntryGood(NoEntry, req[c].query)
      BY DEF EntryGood, NoEntry
    <3>3. /\ req' \in [Clients -> Requests]
          /\ \A d \in Clients \ {c} : req'[d] = req[d]
          /\ req'[c].pc = "forward" /\ req'[c].query = req[c].query
      BY <1>0, <3>1, GotoTyped DEF Steps
    <3> QED
      BY <3>1, <3>2, <3>3, ValuesTyped
  <2>2. CASE Stored(c)
    <3>1. Write(c, new) /\ Reply(c, req[c].body, FALSE) /\ req[c].pc = "storing"
      BY <2>2 DEF Stored
    <3>2. req[c].body.query \in Asked(req[c].query) /\ req[c].body.age <= MaxDelay
      BY <3>1 DEF IInv, InFlightGood
    <3>3. EntryGood(new, req[c].query)
      BY <1>0, <3>2, ValuesTyped DEF EntryGood, Bodies
    <3>4. /\ req' \in [Clients -> Requests]
          /\ \A d \in Clients \ {c} : req'[d] = req[d]
          /\ req'[c].pc \in {"reply", "error"} /\ req'[c].hit = FALSE
          /\ req'[c].query = req[c].query
      BY <1>0, <3>1, ReplyTyped
    <3> QED
      BY <1>1, <3>1, <3>3, <3>4
  <2> QED
    BY <2>1, <2>2
<1>3. /\ data' \in [Keys -> Entries]
      /\ ~raced => data' = [data EXCEPT ![makeKey(req[c].query)] = e]
  BY <1>0, <1>2, WriteTyped
<1>4. TypeOK'
  BY <1>0, <1>2, <1>3 DEF TypeOK, IsCacheable
<1>5. EntriesGood'
  <2> SUFFICES ASSUME ~raced, NEW q \in Cacheable
               PROVE  EntryGood(data'[makeKey(q)], q)
    BY <1>0 DEF EntriesGood, EntryGood
  <2>1. CASE q = req[c].query
    BY <1>0, <1>2, <1>3, <2>1, KeyOfQuery DEF TypeOK, Cacheable
  <2>2. CASE q # req[c].query
    <3>1. data'[makeKey(q)] = data[makeKey(q)]
      BY <1>0, <1>3, <2>2, KeyOfQuery DEF TypeOK, Cacheable
    <3> QED
      BY <3>1 DEF IInv, EntriesGood
  <2> QED
    BY <2>1, <2>2
<1>6. InFlightGood'
  BY <1>2 DEF IInv, InFlightGood
<1>7. HitAnswersQuery' /\ HitIsRecent'
  BY <1>0, <1>2 DEF IInv, HitAnswersQuery, HitIsRecent
<1> QED
  BY <1>4, <1>5, <1>6, <1>7 DEF IInv

\* A tick: what grows older loses as much of its time left.
LEMMA TickKeeps ==
  ASSUME IInv, TimePasses
  PROVE  IInv'
<1>0. TypeOK /\ UNCHANGED <<raced, fatal>>
  BY DEF IInv, TimePasses
<1>1. ASSUME NEW c \in Clients
      PROVE  /\ req'[c] \in Requests
             /\ req'[c].pc = req[c].pc /\ req'[c].query = req[c].query
             /\ req'[c].hit = req[c].hit
             /\ req[c].pc \notin {"store", "storing"} => req'[c] = req[c]
             /\ req[c].pc \in {"store", "storing"} => req'[c].body = Older(req[c].body)
  <2>1. req[c] \in Requests /\ req[c].body \in Bodies
    BY <1>0 DEF TypeOK, Requests
  <2>2. CASE req[c].pc \in {"store", "storing"}
    <3>1. req'[c] = [req[c] EXCEPT !.body = Older(req[c].body)]
      BY <2>2 DEF TimePasses
    <3> QED
      BY <2>1, <2>2, <3>1, OlderTyped DEF Requests
  <2>3. CASE req[c].pc \notin {"store", "storing"}
    BY <2>1, <2>3 DEF TimePasses
  <2> QED
    BY <2>2, <2>3
<1>2. req' \in [Clients -> Requests]
  BY <1>1 DEF TimePasses
<1>3. data' \in [Keys -> Entries]
  BY <1>0, AgedTyped DEF TypeOK, TimePasses
<1>4. TypeOK'
  BY <1>0, <1>1, <1>2, <1>3 DEF TypeOK, IsCacheable
<1>5. EntriesGood'
  <2> SUFFICES ASSUME ~raced, NEW q \in Cacheable
               PROVE  EntryGood(data'[makeKey(q)], q)
    BY <1>0 DEF EntriesGood, EntryGood
  <2> DEFINE e == data[makeKey(q)]
  <2>1. e \in Entries /\ data'[makeKey(q)] = Aged(e)
    BY <1>0, KeyOfQuery DEF TypeOK, TimePasses, Cacheable
  <2>2. EntryGood(e, q)
    BY DEF IInv, EntriesGood
  <2> HIDE DEF e
  <2>3. e.left \in Int /\ e.body \in Bodies /\ e.body.age \in Int
    BY <2>1 DEF Entries, Bodies
  <2>4. CASE e.left > 0
    <3>1. /\ Aged(e).present = e.present /\ Aged(e).left = e.left - 1
          /\ Aged(e).body = Older(e.body)
      BY <2>4 DEF Aged
    <3>2. Older(e.body).age \in Int /\ Older(e.body).query = e.body.query
          /\ Older(e.body).age <= e.body.age + 1
      BY <2>3, OlderTyped DEF Bodies
    <3> QED
      BY <2>1, <2>2, <2>3, <2>4, <3>1, <3>2, ValuesTyped DEF EntryGood
  <2>5. CASE ~(e.left > 0)
    BY <2>1, <2>5 DEF EntryGood, Aged
  <2> QED
    BY <2>4, <2>5
<1>6. InFlightGood'
  <2> SUFFICES ASSUME NEW c \in Clients, req[c].pc \in {"store", "storing"}
               PROVE  req'[c].body.query \in Asked(req'[c].query) /\ req'[c].body.age <= MaxDelay
    BY <1>1 DEF InFlightGood
  <2>1. req[c].body \in Bodies /\ req[c].body.age \in Int
    BY <1>0 DEF TypeOK, Requests, Bodies
  <2>2. req[c].body.query \in Asked(req[c].query) /\ req[c].body.age < MaxDelay
    BY DEF IInv, InFlightGood, TimePasses
  <2>3. Older(req[c].body).age \in Int /\ Older(req[c].body).query = req[c].body.query
        /\ Older(req[c].body).age <= req[c].body.age + 1
    BY <2>1, OlderTyped DEF Bodies
  <2> QED
    BY <1>1, <2>1, <2>2, <2>3, ValuesTyped
<1>7. HitAnswersQuery' /\ HitIsRecent'
  BY <1>0, <1>1 DEF IInv, HitAnswersQuery, HitIsRecent
<1> QED
  BY <1>4, <1>5, <1>6, <1>7 DEF IInv

\* Every step keeps the invariant.
LEMMA NextIInv == IInv /\ [Next]_vars => IInv'
<1> SUFFICES ASSUME IInv, [Next]_vars PROVE IInv'
  OBVIOUS
<1>1. CASE UNCHANGED vars
  BY <1>1 DEF vars, IInv, TypeOK, EntriesGood, EntryGood, InFlightGood,
              HitAnswersQuery, HitIsRecent
<1>2. CASE TimePasses
  BY <1>2, TickKeeps
<1>3. ASSUME NEW c \in Clients, NEW q \in Queries, Begin(c, q) PROVE IInv'
  BY <1>3, BeginKeeps
<1>4. ASSUME NEW c \in Clients, Get(c) \/ Delete(c) \/ Set(c) PROVE IInv'
  BY <1>4, EnterKeeps, SkipKeeps DEF Get, Delete, Set
<1>5. ASSUME NEW c \in Clients, Step(c) PROVE IInv'
  BY <1>4, <1>5, LookupKeeps, AnswerKeeps, EndKeeps, WriteKeeps DEF Step
<1> QED
  BY <1>1, <1>2, <1>3, <1>5 DEF Next, HandleRPC, Call

\* Type correctness of InMemoryCache under HandleRPC and RPCService.Call:
\* in particular only cacheable queries touch the map.
THEOREM TypeCorrect == Spec => []TypeOK
<1>1. IInv => TypeOK
  BY DEF IInv
<1> QED
  BY <1>1, InitIInv, NextIInv, PTL DEF Spec

\* As long as no accesses to the map overlapped, a hit answers what HandleRPC
\* or Call makes of the query it is served for, on the chain of that query.
THEOREM HitsMatch == Spec => []HitAnswersQuery
<1>1. IInv => HitAnswersQuery
  BY DEF IInv
<1> QED
  BY <1>1, InitIInv, NextIInv, PTL DEF Spec

\* As long as no accesses to the map overlapped, what Get serves was sent by
\* a node at most the TTL and one forward ago.
THEOREM HitsFresh == Spec => []HitIsRecent
<1>1. IInv => HitIsRecent
  BY DEF IInv
<1> QED
  BY <1>1, InitIInv, NextIInv, PTL DEF Spec
=============================================================================
