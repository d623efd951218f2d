--------------------------- MODULE SeedCacheProofs ---------------------------
(***************************************************************************)
(* Theorems about SeedCache, for any number of requests and versions and   *)
(* for every lifetime, lock timeout, lock age and proxy timeout.           *)
(***************************************************************************)
EXTENDS SeedCache, TLAPS

(***************************************************************************)
(* The inductive invariant.                                                *)
(***************************************************************************)
Flying(q) == q.pc \in {"fetching", "rendered"}

\* The clock is never past what a fetch or a wait may take, and what the renderer
\* answers with is true now.
TimeInv ==
  /\ \A v \in Versions : lastTrue[v] <= now
  /\ ~refused => lastTrue[ver] = now
  /\ \A r \in Requests :
       LET q == req[r] IN
       /\ Flying(q) => q.start <= now /\ now <= q.start + FetchMax
       /\ q.pc = "waiting" => q.start <= now /\ now <= q.start + LockTimeout

\* The entry is no older than the renderer's answer was when it was stored.
EntryInv ==
  entry.present => /\ entry.ver \in 1 .. ver /\ entry.ver >= floor
                   /\ entry.valid <= lastTrue[entry.ver] + FetchMax + TTL

\* A refresh raises the floor to a version that is in service.
FloorInv == floor <= ver /\ refresh <= ver /\ (refresh # 0 => floor <= refresh)

\* Whoever has the updating flag is fetching.
FlagInv == updating # None => updating \in Requests /\ Flying(req[updating])

\* What a request has been told, or will be by the fetch it has made.
RequestInv(q) ==
  /\ q.floor <= floor /\ (q.pc = "new" => ~q.purge)
  /\ q.pc \in {"new", "waiting", "fetching"} => q.out = "none" /\ q.ans = 0
  /\ Flying(q) => /\ q.cs \in {"MISS", "EXPIRED", "BYPASS"}
                  /\ q.cs = "BYPASS" => q.purge
                  /\ q.cs = "EXPIRED" => q.held \in 1 .. ver /\ q.held >= q.floor
  /\ q.pc = "rendered" => /\ q.out \in {"seed", "refused"}
                          /\ q.out = "refused" => q.ans = 0
                          /\ q.out = "seed" => /\ q.ans \in 1 .. ver /\ q.ans >= floor
                                               /\ lastTrue[q.ans] >= q.start
  /\ q.pc = "done" /\ q.out = "seed" => q.ans >= q.floor

IInv ==
  /\ TypeOK /\ TimeInv /\ EntryInv /\ FloorInv /\ FlagInv
  /\ \A r \in Requests : RequestInv(req[r])

\* While only ordinary requests come and nobody refreshes, a fetch that may fill
\* the entry keeps the others from it: by the flag, by the lock until its age, by
\* the entry until it expires.
Guarded(r) ==
  LET q == req[r] IN
  \/ entry.present /\ entry.valid >= q.start + TTL
  \/ q.cs = "EXPIRED" /\ entry.present /\ updating = r
  \/ /\ q.cs = "MISS" /\ ~entry.present
     /\ \/ updating = r /\ lockUntil = q.start + LockAge
        \/ now >= q.start + LockAge

Ordinary == floor = 0 /\ refresh = 0 /\ \A r \in Requests : ~req[r].purge

\* A fetch whose answer may fill the entry.
Storing(q) == Flying(q) /\ q.store

FillInv == Ordinary => \A r \in Requests : Storing(req[r]) => Guarded(r)

-----------------------------------------------------------------------------
(***************************************************************************)
(* What nginx makes of a request, field by field.                          *)
(***************************************************************************)
Answered(q, cs, out, v) ==
  [q EXCEPT !.pc = "done", !.cs = cs, !.out = out, !.ans = v,
            !.start = 0, !.store = FALSE, !.held = 0]
Fetching(q, cs, store, held) ==
  [q EXCEPT !.pc = "fetching", !.cs = cs, !.start = now, !.store = store, !.held = held]

\* A request that is answered.
LEMMA AnsweredTyped ==
  ASSUME NEW q \in Request, NEW cs \in Statuses, NEW out \in {"seed", "refused", "failed"},
         NEW v \in 0 .. MaxVersion
  PROVE  Answered(q, cs, out, v) \in Request
<1>1. 0 \in Times /\ 0 \in 0 .. MaxVersion
  BY CacheAssumption DEF Times
<1> QED BY <1>1 DEF Answered, Request

\* What it is while it is fetched.
LEMMA FetchingFields ==
  ASSUME now \in Times, NEW q \in Request, NEW cs \in Statuses, NEW store \in BOOLEAN,
         NEW held \in 0 .. MaxVersion
  PROVE  LET f == Fetching(q, cs, store, held) IN
         /\ f \in Request
         /\ f.pc = "fetching" /\ f.cs = cs /\ f.start = now /\ f.store = store /\ f.held = held
         /\ f.out = q.out /\ f.ans = q.ans /\ f.purge = q.purge /\ f.floor = q.floor
BY DEF Fetching, Request

\* The numbers the constants and the variables are.
LEMMA Numbers ==
  /\ MaxVersion \in Nat /\ MaxTime \in Nat /\ TTL \in Nat /\ FetchMax \in Nat
  /\ LockTimeout \in Nat /\ LockAge \in Nat /\ None \notin Requests
BY CacheAssumption

\* One request changes, and the rest of nginx and of the world does not disturb
\* what the invariant says of the others.
LEMMA OneRequest ==
  ASSUME IInv, NEW r \in Requests, NEW p \in Request, Becomes(r, p),
         UNCHANGED <<now, sourceVars, lastTrue, refresh, floor>>,
         RequestInv(p),
         Flying(p) => p.start <= now /\ now <= p.start + FetchMax,
         p.pc = "waiting" => p.start <= now /\ now <= p.start + LockTimeout,
         entry' \in [present : BOOLEAN, ver : 0 .. MaxVersion, valid : 0 .. MaxTime + TTL],
         EntryInv', lockUntil' \in 0 .. MaxTime + LockAge,
         updating' \in {updating, r, None}, updating' = r => Flying(p)
  PROVE  IInv'
<1> USE DEF sourceVars
<1>1. /\ req' = [req EXCEPT ![r] = p] /\ req \in [Requests -> Request]
  BY DEF Becomes, IInv, TypeOK
<1>2. req' \in [Requests -> Request] /\ req'[r] = p
      /\ \A s \in Requests : s # r => req'[s] = req[s]
  BY <1>1
<1>3. entry'.present => entry'.ver \in Versions
  BY Numbers DEF EntryInv, Versions, IInv, TypeOK
<1>4. TypeOK'
  BY <1>2, <1>3 DEF IInv, TypeOK, Versions, Times
<1>5. TimeInv'
  <2>1. ASSUME NEW s \in Requests
        PROVE  /\ Flying(req'[s]) => req'[s].start <= now /\ now <= req'[s].start + FetchMax
               /\ req'[s].pc = "waiting" => req'[s].start <= now
                                             /\ now <= req'[s].start + LockTimeout
    BY <1>2 DEF IInv, TimeInv
  <2> QED BY <2>1 DEF IInv, TimeInv, Flying, Versions
<1>6. FloorInv'
  BY DEF IInv, FloorInv
<1>7. FlagInv'
  BY <1>2, Numbers DEF IInv, FlagInv, Flying
<1>8. \A s \in Requests : RequestInv(req[s])'
  <2>1. ASSUME NEW s \in Requests PROVE RequestInv(req'[s])
    BY <1>2 DEF IInv
  <2> QED BY <2>1 DEF RequestInv, Flying
<1> QED BY <1>4, <1>5, <1>6, <1>7, <1>8 DEF IInv

-----------------------------------------------------------------------------
(***************************************************************************)
(* Every step keeps the invariant.                                         *)
(***************************************************************************)

\* A request that is not yet being fetched goes to the renderer.
LEMMA FetchIInv ==
  ASSUME IInv, NEW r \in Requests, req[r].pc \in {"new", "waiting"},
         NEW q \in Request, q.out = "none", q.ans = 0, q.floor <= floor,
         NEW cs \in {"MISS", "EXPIRED", "BYPASS"}, cs = "BYPASS" => q.purge,
         NEW store \in BOOLEAN, NEW held \in 0 .. MaxVersion,
         cs = "EXPIRED" => held \in 1 .. ver /\ held >= floor,
         Fetch(r, q, cs, store, held),
         UNCHANGED <<now, sourceVars, lastTrue, entry, refresh, floor>>,
         updating' \in {updating, r}, lockUntil' \in 0 .. MaxTime + LockAge
  PROVE  IInv'
<1> DEFINE f == Fetching(q, cs, store, held)
<1>1. now \in Times /\ cs \in Statuses /\ floor \in Nat /\ q.floor \in Nat
  BY Numbers DEF IInv, TypeOK, Statuses, Request
<1>2. /\ f \in Request
      /\ f.pc = "fetching" /\ f.cs = cs /\ f.start = now /\ f.store = store /\ f.held = held
      /\ f.out = "none" /\ f.ans = 0 /\ f.purge = q.purge /\ f.floor = q.floor
  BY <1>1, FetchingFields
<1>3. Becomes(r, f)
  BY DEF Fetch, Fetching
<1> HIDE DEF f
<1>4. RequestInv(f)
  BY <1>1, <1>2 DEF RequestInv, Flying
<1>5. f.start <= now /\ now <= f.start + FetchMax /\ f.pc # "waiting" /\ Flying(f)
  BY <1>1, <1>2, Numbers DEF Times, Flying
<1>6. /\ entry' \in [present : BOOLEAN, ver : 0 .. MaxVersion, valid : 0 .. MaxTime + TTL]
      /\ EntryInv'
  BY DEF IInv, TypeOK, EntryInv, sourceVars
<1> QED BY <1>2, <1>3, <1>4, <1>5, <1>6, OneRequest

\* A request is answered.
LEMMA AnswerIInv ==
  ASSUME IInv, NEW r \in Requests, NEW q \in Request, q.floor <= floor,
         NEW cs \in Statuses, NEW out \in {"seed", "refused", "failed"},
         NEW v \in 0 .. MaxVersion, out = "seed" => v >= q.floor,
         Answer(r, q, cs, out, v),
         UNCHANGED <<now, sourceVars, lastTrue, lockUntil, refresh, floor>>,
         entry' \in [present : BOOLEAN, ver : 0 .. MaxVersion, valid : 0 .. MaxTime + TTL],
         EntryInv', updating' \in {updating, None}, updating' # r
  PROVE  IInv'
<1> DEFINE a == Answered(q, cs, out, v)
<1>1. /\ a \in Request
      /\ a.pc = "done" /\ a.out = out /\ a.ans = v /\ a.floor = q.floor
  <2>1. a \in Request
    BY AnsweredTyped
  <2>2. a.pc = "done" /\ a.out = out /\ a.ans = v /\ a.floor = q.floor
    BY DEF Answered, Request
  <2> QED BY <2>1, <2>2
<1>2. Becomes(r, a)
  BY DEF Answer, Answered
<1> HIDE DEF a
<1>3. RequestInv(a) /\ ~Flying(a) /\ a.pc # "waiting"
  BY <1>1 DEF RequestInv, Flying
<1>4. lockUntil' \in 0 .. MaxTime + LockAge
  BY DEF IInv, TypeOK
<1> QED BY <1>1, <1>2, <1>3, <1>4, OneRequest

\* A request that is not being fetched does not have the updating flag.
LEMMA NoFlag ==
  ASSUME IInv, NEW r \in Requests, ~Flying(req[r])
  PROVE  updating # r
BY Numbers DEF IInv, FlagInv

\* A request meets the cache, when it arrives or when the lock is released.
LEMMA LookupIInv ==
  ASSUME IInv, NEW r \in Requests, req[r].pc \in {"new", "waiting"},
         NEW q \in Request, q.out = "none", q.ans = 0, q.floor <= floor,
         Lookup(r, q), UNCHANGED <<now, sourceVars, lastTrue, refresh, floor>>
  PROVE  IInv'
<1>1. ~Flying(req[r]) /\ updating # r
  BY NoFlag DEF Flying
<1>2. /\ entry \in [present : BOOLEAN, ver : 0 .. MaxVersion, valid : 0 .. MaxTime + TTL]
      /\ now \in Nat /\ now <= MaxTime /\ q.floor \in Nat /\ floor \in Nat /\ ver \in Nat
      /\ lockUntil \in 0 .. MaxTime + LockAge
  BY Numbers DEF IInv, TypeOK, Times, Versions, Request
<1>3. entry.present => entry.ver \in 0 .. MaxVersion /\ entry.ver \in 1 .. ver /\ entry.ver >= floor
  BY <1>2 DEF IInv, EntryInv
<1>4. CASE Hit(r, q) \/ Updating(r, q)
  <2>1. PICK cs \in {"HIT", "UPDATING"} : Answer(r, q, cs, "seed", entry.ver)
    BY <1>4 DEF Hit, Updating
  <2>2. entry.present /\ UNCHANGED cacheVars
    BY <1>4 DEF Hit, Updating, Fresh
  <2>3. cs \in Statuses /\ entry.ver >= q.floor
    BY <1>2, <1>3, <2>2 DEF Statuses
  <2>4. EntryInv'
    BY <2>2 DEF IInv, EntryInv, cacheVars, sourceVars
  <2> QED BY <1>1, <1>2, <1>3, <2>1, <2>2, <2>3, <2>4, AnswerIInv DEF cacheVars
<1>5. CASE Expired(r, q)
  BY <1>2, <1>3, <1>5, FetchIInv DEF Expired
<1>6. CASE Miss(r, q)
  <2>1. now + LockAge \in 0 .. MaxTime + LockAge /\ 0 \in 0 .. MaxVersion
    BY <1>2, Numbers
  <2> QED BY <1>6, <2>1, FetchIInv DEF Miss
<1> QED BY <1>4, <1>5, <1>6 DEF Lookup

\* A client's request.
LEMMA ArriveIInv ==
  ASSUME IInv, NEW r \in Requests, NEW purge \in BOOLEAN, Arrive(r, purge)
  PROVE  IInv'
<1> DEFINE q == [req[r] EXCEPT !.purge = purge, !.floor = floor]
<1>1. req[r] \in Request /\ req[r].pc = "new" /\ floor \in 0 .. MaxVersion
      /\ req[r].out = "none" /\ req[r].ans = 0 /\ now \in Times /\ 0 \in 0 .. MaxVersion
  BY Numbers DEF IInv, TypeOK, RequestInv, Arrive
<1>2. /\ q \in Request /\ q.out = "none" /\ q.ans = 0 /\ q.floor = floor /\ q.purge = purge
      /\ q.pc = "new"
  BY <1>1 DEF Request
<1>3. UNCHANGED <<now, sourceVars, lastTrue, refresh, floor>> /\ floor <= floor
  BY <1>1 DEF Arrive
<1>4. \/ Lookup(r, q) \/ Wait(r, q)
      \/ purge /\ Fetch(r, q, "BYPASS", TRUE, 0) /\ UNCHANGED cacheVars
  BY DEF Arrive
<1> HIDE DEF q
<1>5. CASE Lookup(r, q)
  BY <1>1, <1>2, <1>3, <1>5, LookupIInv
<1>6. CASE Wait(r, q)
  <2> DEFINE w == [q EXCEPT !.pc = "waiting", !.start = now]
  <2>1. /\ w \in Request /\ w.pc = "waiting" /\ w.start = now /\ w.out = "none" /\ w.ans = 0
        /\ w.floor = floor
    BY <1>1, <1>2 DEF Request
  <2>2. Becomes(r, w) /\ UNCHANGED cacheVars
    BY <1>6 DEF Wait
  <2> HIDE DEF w
  <2>3. RequestInv(w) /\ ~Flying(w)
    BY <1>1, <2>1 DEF RequestInv, Flying
  <2>4. w.start <= now /\ now <= w.start + LockTimeout
    BY <1>1, <2>1, Numbers DEF Times
  <2>5. updating' # r
    BY <1>1, <2>2, NoFlag DEF Flying, cacheVars
  <2>6. /\ entry' \in [present : BOOLEAN, ver : 0 .. MaxVersion, valid : 0 .. MaxTime + TTL]
        /\ EntryInv' /\ lockUntil' \in 0 .. MaxTime + LockAge /\ updating' = updating
    BY <1>3, <2>2 DEF IInv, TypeOK, EntryInv, cacheVars, sourceVars
  <2> QED BY <1>3, <2>1, <2>2, <2>3, <2>4, <2>5, <2>6, OneRequest
<1>7. CASE purge /\ Fetch(r, q, "BYPASS", TRUE, 0) /\ UNCHANGED cacheVars
  <2>1. lockUntil' \in 0 .. MaxTime + LockAge
    BY <1>7 DEF IInv, TypeOK, cacheVars
  <2> QED BY <1>1, <1>2, <1>3, <1>7, <2>1, FetchIInv DEF cacheVars
<1> QED BY <1>4, <1>5, <1>6, <1>7

\* The lock is released to a request that waits, or is not in time.
LEMMA WaiterIInv ==
  ASSUME IInv, NEW r \in Requests, LockReleased(r) \/ LockTimesOut(r)
  PROVE  IInv'
<1>1. /\ req[r] \in Request /\ req[r].pc = "waiting" /\ req[r].out = "none"
      /\ req[r].ans = 0 /\ req[r].floor <= floor /\ 0 \in 0 .. MaxVersion
      /\ UNCHANGED <<now, sourceVars, lastTrue, refresh, floor>>
  <2>1. req[r] \in Request /\ RequestInv(req[r]) /\ 0 \in 0 .. MaxVersion
    BY Numbers DEF IInv, TypeOK
  <2>2. /\ req[r].pc = "waiting"
        /\ UNCHANGED <<now, sourceVars, lastTrue, refresh, floor>>
    BY DEF LockReleased, LockTimesOut
  <2> QED BY <2>1, <2>2 DEF RequestInv
<1>2. CASE LockReleased(r)
  BY <1>1, <1>2, LookupIInv DEF LockReleased
<1>3. CASE LockTimesOut(r)
  <2>1. lockUntil' \in 0 .. MaxTime + LockAge
    BY <1>3 DEF IInv, TypeOK, cacheVars, LockTimesOut
  <2> QED BY <1>1, <1>3, <2>1, FetchIInv DEF LockTimesOut, cacheVars
<1> QED BY <1>2, <1>3

\* The renderer's answer is what is true at that moment.
LEMMA RenderIInv ==
  ASSUME IInv, NEW r \in Requests, Render(r)
  PROVE  IInv'
<1> DEFINE p == [req[r] EXCEPT !.pc = "rendered", !.out = IF refused THEN "refused" ELSE "seed",
                               !.ans = IF refused THEN 0 ELSE ver]
<1>1. /\ req[r] \in Request /\ req[r].pc = "fetching" /\ ver \in 1 .. MaxVersion
      /\ 0 \in 0 .. MaxVersion /\ refused \in BOOLEAN /\ RequestInv(req[r])
      /\ UNCHANGED <<now, sourceVars, lastTrue, refresh, floor>> /\ UNCHANGED cacheVars
  BY Numbers DEF IInv, TypeOK, Render, Versions
<1>2. /\ p \in Request /\ p.pc = "rendered" /\ p.start = req[r].start /\ p.cs = req[r].cs
      /\ p.purge = req[r].purge /\ p.held = req[r].held /\ p.floor = req[r].floor
      /\ p.out = (IF refused THEN "refused" ELSE "seed")
      /\ p.ans = (IF refused THEN 0 ELSE ver)
  <2>1. CASE refused
    BY <1>1, <2>1 DEF Request
  <2>2. CASE ~refused
    <3>1. ver \in 0 .. MaxVersion
      BY <1>1, Numbers
    <3> QED BY <1>1, <2>2, <3>1 DEF Request
  <2> QED BY <2>1, <2>2
<1>3. Becomes(r, p)
  BY DEF Render
<1> HIDE DEF p
<1>4. Flying(p) /\ p.start <= now /\ now <= p.start + FetchMax
  BY <1>1, <1>2 DEF IInv, TimeInv, Flying
<1>5. RequestInv(p)
  <2>1. ~refused => lastTrue[ver] = now /\ floor <= ver
    BY DEF IInv, TimeInv, FloorInv
  <2> QED BY <1>1, <1>2, <1>4, <2>1 DEF RequestInv, Flying
<1>6. /\ entry' \in [present : BOOLEAN, ver : 0 .. MaxVersion, valid : 0 .. MaxTime + TTL]
      /\ EntryInv' /\ lockUntil' \in 0 .. MaxTime + LockAge /\ updating' = updating
  BY <1>1 DEF IInv, TypeOK, EntryInv, cacheVars, sourceVars
<1> QED BY <1>1, <1>2, <1>3, <1>4, <1>5, <1>6, OneRequest

\* What a fetch has brought is stored or not, and the client is told.
LEMMA CompleteIInv ==
  ASSUME IInv, NEW r \in Requests, Complete(r)
  PROVE  IInv'
<1>1. /\ req[r] \in Request /\ req[r].pc = "rendered" /\ RequestInv(req[r])
      /\ Answer(r, req[r], req[r].cs, req[r].out, req[r].ans)
      /\ UNCHANGED <<now, sourceVars, lastTrue, refresh, floor>>
  BY DEF IInv, TypeOK, Complete
<1>2. /\ req[r].cs \in Statuses /\ req[r].out \in {"seed", "refused", "failed"}
      /\ req[r].ans \in 0 .. MaxVersion /\ req[r].floor <= floor
      /\ req[r].floor \in Nat /\ floor \in Nat /\ now \in 0 .. MaxTime /\ req[r].start \in Nat
      /\ req[r].out = "seed" => /\ req[r].ans \in 1 .. ver /\ req[r].ans >= floor
                                /\ lastTrue[req[r].ans] >= req[r].start
      /\ now <= req[r].start + FetchMax
  BY <1>1, Numbers DEF RequestInv, Request, IInv, TypeOK, TimeInv, Flying, Times
<1>3. req[r].out = "seed" => req[r].ans >= req[r].floor
  BY <1>2, Numbers
<1>4. CASE req[r].store /\ cacheable(req[r].out)
  <2>1. entry' = [present |-> TRUE, ver |-> req[r].ans, valid |-> now + TTL] /\ updating' = None
        /\ lockUntil' = lockUntil /\ req[r].out = "seed"
    BY <1>4 DEF Complete, ValidUntil, cacheable
  <2>2. now + TTL \in 0 .. MaxTime + TTL
    BY <1>2, Numbers
  <2>3. entry' \in [present : BOOLEAN, ver : 0 .. MaxVersion, valid : 0 .. MaxTime + TTL]
    BY <1>2, <2>1, <2>2
  <2>4. lastTrue[req[r].ans] \in Nat
    BY <1>2, <2>1, Numbers DEF IInv, TypeOK, Versions, Times
  <2>5. EntryInv'
    BY <1>1, <1>2, <2>1, <2>4, Numbers DEF EntryInv, sourceVars
  <2> QED BY <1>1, <1>2, <1>3, <2>1, <2>3, <2>5, Numbers, AnswerIInv
<1>5. CASE ~(req[r].store /\ cacheable(req[r].out))
  <2>1. ReleaseUpdating(r)
    BY <1>5 DEF Complete
  <2>2. /\ entry' \in [present : BOOLEAN, ver : 0 .. MaxVersion, valid : 0 .. MaxTime + TTL]
        /\ EntryInv'
    BY <1>1, <2>1 DEF IInv, TypeOK, EntryInv, ReleaseUpdating, sourceVars
  <2>3. updating' \in {updating, None} /\ updating' # r /\ lockUntil' = lockUntil
    BY <2>1, Numbers DEF ReleaseUpdating
  <2> QED BY <1>1, <1>2, <1>3, <2>2, <2>3, AnswerIInv
<1> QED BY <1>4, <1>5

\* A fetch that fails: the client is told so, or is given the expired file.
LEMMA FailIInv ==
  ASSUME IInv, NEW r \in Requests, UpstreamFails(r)
  PROVE  IInv'
<1>1. /\ req[r] \in Request /\ Flying(req[r]) /\ RequestInv(req[r])
      /\ ReleaseUpdating(r)
      /\ UNCHANGED <<now, sourceVars, lastTrue, refresh, floor>>
  BY DEF IInv, TypeOK, UpstreamFails, InFlight, Flying
<1>2. /\ req[r].cs \in Statuses /\ "STALE" \in Statuses /\ req[r].floor <= floor
      /\ req[r].held \in 0 .. MaxVersion /\ 0 \in 0 .. MaxVersion
      /\ req[r].cs = "EXPIRED" => req[r].held >= req[r].floor
  BY <1>1, Numbers DEF RequestInv, Request, Statuses
<1>3. /\ entry' \in [present : BOOLEAN, ver : 0 .. MaxVersion, valid : 0 .. MaxTime + TTL]
      /\ EntryInv'
  BY <1>1 DEF IInv, TypeOK, EntryInv, ReleaseUpdating, sourceVars
<1>4. updating' \in {updating, None} /\ updating' # r /\ lockUntil' = lockUntil
  BY <1>1, Numbers DEF ReleaseUpdating
<1>5. CASE req[r].cs = "EXPIRED" /\ Answer(r, req[r], "STALE", "seed", req[r].held)
  BY <1>1, <1>2, <1>3, <1>4, <1>5, AnswerIInv
<1>6. CASE Answer(r, req[r], req[r].cs, "failed", 0)
  BY <1>1, <1>2, <1>3, <1>4, <1>6, AnswerIInv
<1> QED BY <1>5, <1>6 DEF UpstreamFails

\* The entry is removed or kept; the renderer moves on to a later version, or to
\* refusals; a refresh raises the floor over whatever is left of the past.
LEMMA WorldIInv ==
  ASSUME IInv, UNCHANGED <<now, req, updating, lockUntil>>,
         entry' = NoEntry \/ (entry' = entry /\ floor' = floor),
         ver' \in ver .. MaxVersion, refused' \in BOOLEAN,
         lastTrue' \in [Versions -> Times],
         \A v \in Versions : lastTrue[v] <= lastTrue'[v] /\ lastTrue'[v] <= now,
         ~refused' => lastTrue'[ver'] = now,
         refresh' \in 0 .. MaxVersion, floor' \in 0 .. MaxVersion, floor <= floor',
         FloorInv',
         \A r \in Requests : req[r].pc = "rendered" /\ req[r].out = "seed" => req[r].ans >= floor'
  PROVE  IInv'
<1>1. /\ ver \in 1 .. MaxVersion /\ ver' \in 1 .. MaxVersion /\ floor \in Nat
      /\ req \in [Requests -> Request]
      /\ lastTrue \in [Versions -> Times]
      /\ entry \in [present : BOOLEAN, ver : 0 .. MaxVersion, valid : 0 .. MaxTime + TTL]
  BY Numbers DEF IInv, TypeOK, Versions
<1>2. 0 \in 0 .. MaxVersion /\ 0 \in 0 .. MaxTime + TTL
  BY Numbers
<1>3. /\ entry' \in [present : BOOLEAN, ver : 0 .. MaxVersion, valid : 0 .. MaxTime + TTL]
      /\ entry'.present => entry'.ver \in Versions
  <2>1. CASE entry' = NoEntry
    BY <1>2, <2>1 DEF NoEntry
  <2>2. CASE entry' = entry
    BY <1>1, <2>2 DEF IInv, TypeOK
  <2> QED BY <2>1, <2>2
<1>4. TypeOK'
  BY <1>1, <1>3 DEF IInv, TypeOK, Versions
<1>5. TimeInv'
  BY DEF IInv, TimeInv, Flying
<1>6. EntryInv'
  <2>1. CASE entry' = NoEntry
    BY <2>1 DEF EntryInv, NoEntry
  <2>2. CASE entry' = entry /\ floor' = floor
    <3> SUFFICES ASSUME entry.present
                 PROVE  /\ entry.ver \in 1 .. ver' /\ entry.ver >= floor
                        /\ entry.valid <= lastTrue'[entry.ver] + FetchMax + TTL
      BY <2>2 DEF EntryInv
    <3>1. entry.ver \in Versions /\ entry.ver \in 1 .. ver
      BY <2>2 DEF IInv, TypeOK, EntryInv
    <3>2. lastTrue[entry.ver] \in Nat /\ lastTrue'[entry.ver] \in Nat /\ entry.valid \in Nat
          /\ lastTrue[entry.ver] <= lastTrue'[entry.ver]
      BY <1>1, <3>1, Numbers DEF Times
    <3> QED BY <1>1, <2>2, <3>1, <3>2, Numbers DEF IInv, EntryInv
  <2> QED BY <2>1, <2>2
<1>7. FlagInv'
  BY DEF IInv, FlagInv, Flying
<1>8. ASSUME NEW r \in Requests PROVE RequestInv(req[r])'
  <2>1. req[r] \in Request /\ RequestInv(req[r])
    BY <1>1 DEF IInv
  <2>2. req[r].floor \in Nat /\ req[r].held \in Nat /\ req[r].ans \in Nat /\ req[r].start \in Nat
    BY <2>1, Numbers DEF Request, Times
  <2>3. ASSUME req[r].pc = "rendered", req[r].out = "seed"
        PROVE  req[r].ans \in 1 .. ver' /\ lastTrue'[req[r].ans] >= req[r].start
    <3>1. req[r].ans \in 1 .. ver /\ lastTrue[req[r].ans] >= req[r].start
      BY <2>1, <2>3 DEF RequestInv
    <3>2. req[r].ans \in Versions
      BY <1>1, <3>1, Numbers DEF Versions
    <3>3. lastTrue[req[r].ans] \in Nat /\ lastTrue'[req[r].ans] \in Nat
      BY <1>1, <3>2, Numbers DEF Times
    <3> QED BY <1>1, <2>2, <3>1, <3>2, <3>3
  <2> QED BY <1>1, <2>1, <2>2, <2>3 DEF RequestInv, Flying
<1> QED BY <1>4, <1>5, <1>6, <1>7, <1>8 DEF IInv

\* The clock.
LEMMA TickIInv ==
  ASSUME IInv, Tick
  PROVE  IInv'
<1>1. /\ now' = now + 1 /\ now < MaxTime /\ UNCHANGED <<sourceVars, cacheVars, req, refresh, floor>>
      /\ lastTrue' = (IF refused THEN lastTrue ELSE [lastTrue EXCEPT ![ver] = now + 1])
  BY DEF Tick
<1>2. /\ now \in 0 .. MaxTime /\ now' \in 0 .. MaxTime /\ ver \in Versions
      /\ lastTrue \in [Versions -> Times] /\ req \in [Requests -> Request]
      /\ entry \in [present : BOOLEAN, ver : 0 .. MaxVersion, valid : 0 .. MaxTime + TTL]
  BY <1>1, Numbers DEF IInv, TypeOK, Times
<1>3. ~refused => \A v \in Versions : lastTrue'[v] = IF v = ver THEN now + 1 ELSE lastTrue[v]
  BY <1>1, <1>2
<1>4. lastTrue' \in [Versions -> Times]
  BY <1>1, <1>2 DEF Times
<1>5. ASSUME NEW v \in Versions
      PROVE  /\ lastTrue[v] \in Nat /\ lastTrue'[v] \in Nat
             /\ lastTrue[v] <= lastTrue'[v] /\ lastTrue'[v] <= now + 1
  <2>1. lastTrue[v] \in Nat /\ lastTrue'[v] \in Nat /\ lastTrue[v] <= now
    BY <1>2, <1>4, <1>5 DEF IInv, TimeInv, Times
  <2>2. CASE refused
    BY <1>1, <1>2, <2>1, <2>2
  <2>3. CASE ~refused
    BY <1>2, <1>3, <2>1, <2>3
  <2> QED BY <2>2, <2>3, <2>1
<1>6. TypeOK'
  BY <1>1, <1>2, <1>4 DEF IInv, TypeOK, sourceVars, cacheVars, Times
<1>7. TimeInv'
  <2>1. ASSUME NEW r \in Requests
        PROVE  /\ Flying(req[r]) => req[r].start <= now + 1 /\ now + 1 <= req[r].start + FetchMax
               /\ req[r].pc = "waiting" => req[r].start <= now + 1
                                            /\ now + 1 <= req[r].start + LockTimeout
    <3>1. req[r] \in Request
      BY <1>2
    <3>2. req[r].start \in Nat
      BY <3>1 DEF Request, Times
    <3>3. /\ Flying(req[r]) => req[r].start <= now /\ now < req[r].start + FetchMax
          /\ req[r].pc = "waiting" => req[r].start <= now /\ now < req[r].start + LockTimeout
      BY DEF IInv, TimeInv, Tick, InFlight, Flying
    <3> QED BY <1>2, <3>2, <3>3, Numbers
  <2>2. ~refused => lastTrue'[ver] = now + 1
    BY <1>2, <1>3
  <2> QED BY <1>1, <1>5, <2>1, <2>2 DEF TimeInv, sourceVars, Flying
<1>8. EntryInv'
  <2> SUFFICES ASSUME entry.present
               PROVE  /\ entry.ver \in 1 .. ver /\ entry.ver >= floor
                      /\ entry.valid <= lastTrue'[entry.ver] + FetchMax + TTL
    BY <1>1 DEF EntryInv, sourceVars, cacheVars
  <2>1. entry.ver \in Versions /\ entry.valid \in Nat
    BY <1>2 DEF IInv, TypeOK
  <2> QED BY <1>5, <2>1, Numbers DEF IInv, EntryInv
<1>9. FloorInv' /\ FlagInv'
  BY <1>1 DEF IInv, FloorInv, FlagInv, Flying, sourceVars, cacheVars
<1>10. ASSUME NEW r \in Requests PROVE RequestInv(req[r])'
  <2>1. req[r] \in Request /\ RequestInv(req[r])
    BY <1>2 DEF IInv
  <2>2. req[r].start \in Nat
    BY <2>1 DEF Request, Times
  <2>3. ASSUME req[r].pc = "rendered", req[r].out = "seed"
        PROVE  lastTrue'[req[r].ans] >= req[r].start
    <3>1. req[r].ans \in 1 .. ver /\ lastTrue[req[r].ans] >= req[r].start
      BY <2>1, <2>3 DEF RequestInv
    <3>2. req[r].ans \in Versions
      BY <1>2, <3>1, Numbers DEF Versions
    <3> QED BY <1>5, <2>2, <3>1, <3>2
  <2> QED BY <1>1, <2>1, <2>3 DEF RequestInv, Flying, sourceVars
<1> QED BY <1>6, <1>7, <1>8, <1>9, <1>10 DEF IInv

\* What else happens outside nginx, and the cache manager.
LEMMA OutsideIInv ==
  ASSUME IInv, Evict \/ Publish \/ Withdraw \/ LabRestart \/ LabFlush
  PROVE  IInv'
<1>1. /\ now \in 0 .. MaxTime /\ ver \in 1 .. MaxVersion /\ refused \in BOOLEAN
      /\ lastTrue \in [Versions -> Times] /\ refresh \in 0 .. MaxVersion
      /\ floor \in 0 .. MaxVersion /\ req \in [Requests -> Request]
      /\ \A v \in Versions : lastTrue[v] \in Nat /\ lastTrue[v] <= now
  BY DEF IInv, TypeOK, TimeInv, Versions, Times
<1>2. /\ floor <= ver /\ refresh <= ver /\ (refresh # 0 => floor <= refresh)
      /\ ~refused => lastTrue[ver] = now
  BY DEF IInv, FloorInv, TimeInv
<1>3. \A r \in Requests : req[r].pc = "rendered" /\ req[r].out = "seed" => req[r].ans >= floor
  BY DEF IInv, RequestInv
<1>4. \A v \in Versions : lastTrue[v] <= lastTrue[v]
  BY <1>1
<1>5. CASE Evict
  <2>1. /\ entry' = NoEntry
        /\ UNCHANGED <<now, ver, refused, lastTrue, updating, lockUntil, req, refresh, floor>>
    BY <1>5 DEF Evict, sourceVars
  <2>2. ver' \in ver .. MaxVersion /\ floor <= floor' /\ FloorInv'
    BY <1>1, <1>2, <2>1, Numbers DEF FloorInv
  <2> QED BY <1>1, <1>2, <1>3, <1>4, <2>1, <2>2, WorldIInv
<1>6. CASE Withdraw
  <2>1. refused' = TRUE
        /\ UNCHANGED <<now, ver, lastTrue, entry, updating, lockUntil, req, refresh, floor>>
    BY <1>6 DEF Withdraw, cacheVars
  <2>2. ver' \in ver .. MaxVersion /\ floor <= floor' /\ FloorInv'
    BY <1>1, <1>2, <2>1, Numbers DEF FloorInv
  <2> QED BY <1>1, <1>2, <1>3, <1>4, <2>1, <2>2, WorldIInv
<1>7. CASE Publish \/ LabRestart
  <2>1. /\ ver < MaxVersion /\ ver' = ver + 1 /\ refused' = FALSE
        /\ lastTrue' = [lastTrue EXCEPT ![ver + 1] = now]
        /\ UNCHANGED <<now, entry, updating, lockUntil, req, floor>>
        /\ refresh' = refresh \/ refresh' = ver + 1
    BY <1>7 DEF Publish, LabRestart, cacheVars
  <2>2. ver' \in ver .. MaxVersion /\ floor <= floor' /\ FloorInv' /\ refresh' \in 0 .. MaxVersion
    BY <1>1, <1>2, <2>1, Numbers DEF FloorInv
  <2>3. ver + 1 \in Versions /\ now \in Times
    BY <1>1, <2>1, Numbers DEF Versions, Times
  <2>4. /\ lastTrue' \in [Versions -> Times]
        /\ \A v \in Versions : lastTrue'[v] = IF v = ver + 1 THEN now ELSE lastTrue[v]
    BY <1>1, <2>1, <2>3
  <2>5. /\ \A v \in Versions : lastTrue[v] <= lastTrue'[v] /\ lastTrue'[v] <= now
        /\ lastTrue'[ver'] = now
    BY <1>1, <2>1, <2>3, <2>4
  <2> QED BY <1>1, <1>2, <1>3, <2>1, <2>2, <2>4, <2>5, WorldIInv
<1>8. CASE LabFlush
  <2>1. /\ refresh # 0 /\ refresh' = 0 /\ floor' = refresh /\ entry' = NoEntry
        /\ UNCHANGED <<now, ver, refused, lastTrue, updating, lockUntil, req>>
    BY <1>8 DEF LabFlush, sourceVars
  <2>2. ver' \in ver .. MaxVersion /\ floor <= floor' /\ FloorInv' /\ refresh' \in 0 .. MaxVersion
    BY <1>1, <1>2, <2>1, Numbers DEF FloorInv
  <2>3. \A r \in Requests : req[r].pc = "rendered" /\ req[r].out = "seed" => req[r].ans >= floor'
    BY <1>8, <2>1 DEF LabFlush, InFlight
  <2> QED BY <1>1, <1>2, <1>4, <2>1, <2>2, <2>3, WorldIInv
<1> QED BY <1>5, <1>6, <1>7, <1>8

\* The invariant holds at first ...
LEMMA InitIInv == Init => IInv
<1> SUFFICES ASSUME Init PROVE IInv
  OBVIOUS
<1>1. /\ now = 0 /\ ver = 1 /\ refused = FALSE /\ lastTrue = [v \in Versions |-> 0]
      /\ entry = NoEntry /\ updating = None /\ lockUntil = 0
      /\ req = [r \in Requests |-> NewRequest] /\ refresh = 0 /\ floor = 0
  BY DEF Init
<1>2. /\ 0 \in Times /\ 0 \in 0 .. MaxVersion /\ 1 \in Versions /\ 0 \in 0 .. MaxTime + TTL
      /\ 0 \in 0 .. MaxTime + LockAge
  BY CacheAssumption DEF Times, Versions
<1>3. NewRequest \in Request
  BY <1>2 DEF NewRequest, Request, Statuses
<1>4. /\ entry \in [present : BOOLEAN, ver : 0 .. MaxVersion, valid : 0 .. MaxTime + TTL]
      /\ ~entry.present
  BY <1>1, <1>2 DEF NoEntry
<1>5. lastTrue \in [Versions -> Times] /\ \A v \in Versions : lastTrue[v] = 0
  BY <1>1, <1>2
<1>6. req \in [Requests -> Request] /\ \A r \in Requests : req[r] = NewRequest
  BY <1>1, <1>3
<1>7. TypeOK
  BY <1>1, <1>2, <1>4, <1>5, <1>6 DEF TypeOK
<1>8. TimeInv
  BY <1>1, <1>2, <1>5, <1>6 DEF TimeInv, Flying, NewRequest
<1>9. EntryInv /\ FloorInv /\ FlagInv
  BY <1>1, <1>4 DEF EntryInv, FloorInv, FlagInv
<1>10. \A r \in Requests : RequestInv(req[r])
  <2>1. /\ NewRequest.pc = "new" /\ NewRequest.out = "none" /\ NewRequest.ans = 0
        /\ NewRequest.floor = 0 /\ ~NewRequest.purge
    BY DEF NewRequest
  <2>2. RequestInv(NewRequest)
    BY <1>1, <2>1 DEF RequestInv, Flying
  <2> QED BY <1>6, <2>2
<1> QED BY <1>7, <1>8, <1>9, <1>10 DEF IInv

\* ... and every step keeps it.
LEMMA NextIInv == IInv /\ [Next]_vars => IInv'
<1> SUFFICES ASSUME IInv, [Next]_vars PROVE IInv'
  OBVIOUS
<1>1. ASSUME UNCHANGED vars PROVE IInv'
  <2>1. UNCHANGED <<now, ver, refused, lastTrue, entry, updating, lockUntil, req, refresh, floor>>
    BY <1>1 DEF vars, sourceVars, cacheVars
  <2>2. TypeOK' /\ TimeInv'
    BY <2>1 DEF IInv, TypeOK, TimeInv, Flying
  <2>3. EntryInv' /\ FloorInv' /\ FlagInv'
    BY <2>1 DEF IInv, EntryInv, FloorInv, FlagInv, Flying
  <2>4. \A r \in Requests : RequestInv(req[r])'
    BY <2>1 DEF IInv, RequestInv, Flying
  <2> QED BY <2>2, <2>3, <2>4 DEF IInv
<1>2. CASE Next
  BY <1>2, ArriveIInv, WaiterIInv, RenderIInv, CompleteIInv, FailIInv, TickIInv, OutsideIInv
  DEF Next
<1> QED BY <1>1, <1>2

\* The cache is well typed: what is stored is a seed of some version, never an
\* error of the renderer (proxy_cache_valid 200).
THEOREM TypeCorrect == Spec => []TypeOK
<1>1. IInv => TypeOK
  BY DEF IInv
<1> QED BY InitIInv, NextIInv, <1>1, PTL DEF Spec

\* After `just lab-refresh` nobody is served what the old process rendered: the
\* floor a request arrives with bounds what it is told (justfile, lab-refresh).
THEOREM RefreshIsEffective == Spec => []RefreshTakesEffect
<1>1. IInv => RefreshTakesEffect
  BY DEF IInv, RefreshTakesEffect, RequestInv
<1> QED BY InitIInv, NextIInv, <1>1, PTL DEF Spec

-----------------------------------------------------------------------------
(***************************************************************************)
(* How old an answer is.                                                   *)
(***************************************************************************)

\* Only r's request changes.
LEMMA Others ==
  ASSUME req \in [Requests -> Request], NEW r \in Requests, NEW p, Becomes(r, p)
  PROVE  req'[r] = p /\ \A s \in Requests : s # r => req'[s] = req[s]
BY DEF Becomes

\* What a request that meets the cache may be answered with.
LEMMA LookupServes ==
  ASSUME IInv, NEW r \in Requests, NEW q \in Request, Lookup(r, q)
  PROVE  /\ \A s \in Requests : s # r => req'[s] = req[s]
         /\ req'[r].pc = "done" =>
              /\ req'[r].cs \in {"HIT", "UPDATING"} /\ req'[r].ans = entry.ver /\ entry.present
              /\ req'[r].cs = "HIT" => now <= entry.valid
<1>1. /\ req \in [Requests -> Request] /\ now \in Times /\ entry.ver \in 0 .. MaxVersion
      /\ 0 \in 0 .. MaxVersion
  BY Numbers DEF IInv, TypeOK
<1>2. CASE Hit(r, q) \/ Updating(r, q)
  <2>1. PICK cs \in {"HIT", "UPDATING"} : /\ Answer(r, q, cs, "seed", entry.ver) /\ entry.present
                                          /\ cs = "HIT" => now <= entry.valid
    BY <1>2 DEF Hit, Updating, Fresh
  <2> DEFINE a == Answered(q, cs, "seed", entry.ver)
  <2>2. Becomes(r, a)
    BY <2>1 DEF Answer, Answered
  <2>3. a.cs = cs /\ a.ans = entry.ver
    BY DEF Answered, Request
  <2> HIDE DEF a
  <2> QED BY <1>1, <2>1, <2>2, <2>3, Others
<1>3. CASE Expired(r, q) \/ Miss(r, q)
  <2>1. PICK cs \in {"EXPIRED", "MISS"}, held \in 0 .. MaxVersion : Fetch(r, q, cs, TRUE, held)
    BY <1>1, <1>3 DEF Expired, Miss
  <2> DEFINE f == Fetching(q, cs, TRUE, held)
  <2>2. Becomes(r, f)
    BY <2>1 DEF Fetch, Fetching
  <2>3. f.pc = "fetching"
    BY DEF Fetching, Request
  <2> HIDE DEF f
  <2> QED BY <1>1, <2>2, <2>3, Others
<1> QED BY <1>2, <1>3 DEF Lookup

\* How a request comes to be answered with a seed: out of the entry, with what
\* its fetch brought, or with the expired file it holds.
LEMMA ServedStep ==
  ASSUME IInv, Next, NEW r \in Requests, Served(r)
  PROVE  \/ /\ req'[r].cs \in {"HIT", "UPDATING"} /\ req'[r].ans = entry.ver /\ entry.present
            /\ req'[r].cs = "HIT" => now <= entry.valid
         \/ req'[r].cs = "STALE"
         \/ /\ req[r].pc = "rendered" /\ req[r].out = "seed" /\ req'[r].ans = req[r].ans
<1>1. /\ req \in [Requests -> Request] /\ now \in Times /\ floor \in 0 .. MaxVersion
      /\ 0 \in 0 .. MaxVersion
  BY Numbers DEF IInv, TypeOK
<1>2. req[r].pc # "done" /\ req'[r].pc = "done" /\ req'[r].out = "seed"
  BY DEF Served
<1>3. req' # req
  BY <1>2
<1>4. ASSUME NEW s \in Requests, NEW purge \in BOOLEAN, Arrive(s, purge)
      PROVE  /\ req'[r].cs \in {"HIT", "UPDATING"} /\ req'[r].ans = entry.ver /\ entry.present
             /\ req'[r].cs = "HIT" => now <= entry.valid
  <2> DEFINE q == [req[s] EXCEPT !.purge = purge, !.floor = floor]
  <2>1. q \in Request
    BY <1>1 DEF Request
  <2>2. \/ Lookup(s, q)
        \/ Becomes(s, [q EXCEPT !.pc = "waiting", !.start = now])
        \/ Becomes(s, Fetching(q, "BYPASS", TRUE, 0))
    BY <1>4 DEF Arrive, Wait, Fetch, Fetching
  <2> HIDE DEF q
  <2>3. [q EXCEPT !.pc = "waiting", !.start = now].pc # "done"
    BY <2>1 DEF Request
  <2>4. Fetching(q, "BYPASS", TRUE, 0).pc # "done"
    BY <2>1 DEF Request, Fetching
  <2> QED BY <1>1, <1>2, <2>1, <2>2, <2>3, <2>4, Others, LookupServes
<1>5. ASSUME NEW s \in Requests, LockReleased(s)
      PROVE  /\ req'[r].cs \in {"HIT", "UPDATING"} /\ req'[r].ans = entry.ver /\ entry.present
             /\ req'[r].cs = "HIT" => now <= entry.valid
  <2>1. Lookup(s, req[s]) /\ req[s] \in Request
    BY <1>1, <1>5 DEF LockReleased
  <2> QED BY <1>2, <2>1, LookupServes
<1>6. ASSUME NEW s \in Requests, LockTimesOut(s) \/ Render(s) PROVE FALSE
  <2>1. PICK p : Becomes(s, p) /\ p.pc # "done"
    <3>1. req[s] \in Request
      BY <1>1
    <3>2. CASE LockTimesOut(s)
      <4>1. Becomes(s, Fetching(req[s], "MISS", FALSE, 0))
        BY <3>2 DEF LockTimesOut, Fetch, Fetching
      <4>2. Fetching(req[s], "MISS", FALSE, 0).pc = "fetching"
        BY <3>1 DEF Fetching, Request
      <4> QED BY <4>1, <4>2
    <3>3. CASE Render(s)
      <4> DEFINE p == [req[s] EXCEPT !.pc = "rendered",
                                     !.out = IF refused THEN "refused" ELSE "seed",
                                     !.ans = IF refused THEN 0 ELSE ver]
      <4>1. Becomes(s, p)
        BY <3>3 DEF Render
      <4>2. p.pc = "rendered"
        BY <3>1 DEF Request
      <4> HIDE DEF p
      <4> QED BY <4>1, <4>2
    <3> QED BY <1>6, <3>2, <3>3
  <2> QED BY <1>1, <1>2, <2>1, Others
<1>7. ASSUME NEW s \in Requests, Complete(s)
      PROVE  req[r].pc = "rendered" /\ req[r].out = "seed" /\ req'[r].ans = req[r].ans
  <2> DEFINE a == Answered(req[s], req[s].cs, req[s].out, req[s].ans)
  <2>1. req[s] \in Request /\ req[s].pc = "rendered" /\ RequestInv(req[s]) /\ Becomes(s, a)
    BY <1>1, <1>7 DEF IInv, Complete, Answer, Answered
  <2>2. a.out = req[s].out /\ a.ans = req[s].ans
    BY <2>1 DEF Answered, Request
  <2> HIDE DEF a
  <2> QED BY <1>1, <1>2, <2>1, <2>2, Others
<1>8. ASSUME NEW s \in Requests, UpstreamFails(s)
      PROVE  req'[r].cs = "STALE"
  <2>1. PICK cs \in Statuses, out \in {"seed", "failed"}, v \in 0 .. MaxVersion :
          Answer(s, req[s], cs, out, v) /\ (out = "seed" => cs = "STALE")
    <3>1. req[s].cs \in Statuses /\ "STALE" \in Statuses /\ req[s].held \in 0 .. MaxVersion
      BY <1>1 DEF Request, Statuses
    <3> QED BY <1>1, <1>8, <3>1 DEF UpstreamFails
  <2> DEFINE a == Answered(req[s], cs, out, v)
  <2>2. Becomes(s, a)
    BY <2>1 DEF Answer, Answered
  <2>3. a.cs = cs /\ a.out = out
    BY <1>1 DEF Answered, Request
  <2> HIDE DEF a
  <2> QED BY <1>1, <1>2, <2>1, <2>2, <2>3, Others
<1>9. ~Evict /\ ~Tick /\ ~Publish /\ ~Withdraw /\ ~LabRestart /\ ~LabFlush
  BY <1>3 DEF Evict, Tick, Publish, Withdraw, LabRestart, LabFlush
<1> QED BY <1>4, <1>5, <1>6, <1>7, <1>8, <1>9 DEF Next

\* How old a seed can be: one fetch when the renderer answered, a TTL and a fetch
\* out of the cache, whatever was stored, overtaken, bypassed, evicted or
\* withdrawn in between (nginx.conf.j2: proxy_cache_valid, max-age).
THEOREM AnswersAreFresh == Spec => FreshAnswers
<1>1. IInv /\ [Next]_vars =>
        [\A r \in Requests :
           LET q == req'[r] IN
           Served(r) =>
             /\ q.cs \in {"MISS", "EXPIRED", "BYPASS"} => lastTrue[q.ans] >= now - FetchMax
             /\ q.cs = "HIT" => lastTrue[q.ans] >= now - (TTL + FetchMax)]_vars
  <2> SUFFICES ASSUME IInv, Next, NEW r \in Requests, Served(r)
               PROVE  /\ req'[r].cs \in {"MISS", "EXPIRED", "BYPASS"}
                           => lastTrue[req'[r].ans] >= now - FetchMax
                      /\ req'[r].cs = "HIT" => lastTrue[req'[r].ans] >= now - (TTL + FetchMax)
    OBVIOUS
  <2>1. /\ req \in [Requests -> Request] /\ now \in Nat /\ lastTrue \in [Versions -> Times]
        /\ entry.present => entry.ver \in Versions
        /\ entry.valid \in Nat /\ ver \in 1 .. MaxVersion
    BY Numbers DEF IInv, TypeOK, Times, Versions
  <2>2. CASE /\ req'[r].cs \in {"HIT", "UPDATING"} /\ req'[r].ans = entry.ver /\ entry.present
             /\ req'[r].cs = "HIT" => now <= entry.valid
    <3>1. entry.valid <= lastTrue[entry.ver] + FetchMax + TTL
      BY <2>2 DEF IInv, EntryInv
    <3>2. lastTrue[entry.ver] \in Nat
      BY <2>1, <2>2 DEF Times
    <3> QED BY <2>1, <2>2, <3>1, <3>2, Numbers
  <2>3. CASE req'[r].cs = "STALE"
    BY <2>3
  <2>4. CASE req[r].pc = "rendered" /\ req[r].out = "seed" /\ req'[r].ans = req[r].ans
    <3>1. RequestInv(req[r]) /\ req[r] \in Request /\ now <= req[r].start + FetchMax
      BY <2>1, <2>4 DEF IInv, TimeInv, Flying
    <3>2. req[r].ans \in 1 .. ver /\ lastTrue[req[r].ans] >= req[r].start
      BY <2>4, <3>1 DEF RequestInv
    <3>3. req[r].ans \in Versions /\ req[r].start \in Nat
      BY <2>1, <3>1, <3>2, Numbers DEF Versions, Request, Times
    <3>4. lastTrue[req[r].ans] \in Nat
      BY <2>1, <3>3 DEF Times
    <3> QED BY <2>1, <2>4, <3>1, <3>2, <3>3, <3>4, Numbers
  <2> QED BY <2>2, <2>3, <2>4, ServedStep
<1> QED BY InitIInv, NextIInv, <1>1, PTL DEF Spec, FreshAnswers

-----------------------------------------------------------------------------
(***************************************************************************)
(* How many fetches may fill the entry at a time.                          *)
(***************************************************************************)

\* Two fetches that may fill the entry: the later one found it expired, or its
\* lock too old.
Apart(p, q) == q.start >= p.start + LockAge \/ q.start > p.start + TTL

\* OneFillAtATime, in these words.
LEMMA Coalesced ==
  OneFillAtATime <=>
    (Ordinary => \A q, r \in Requests :
       q # r /\ Storing(req[q]) /\ Storing(req[r]) /\ req[q].start <= req[r].start
         => Apart(req[q], req[r]))
BY DEF OneFillAtATime, Ordinary, Storing, Flying, Apart, InFlight

\* What guards a fetch still does after a step that leaves the entry and the lock
\* alone and takes the flag from nobody else.
LEMMA StillGuarded ==
  ASSUME IInv, NEW s \in Requests, Guarded(s),
         req'[s].cs = req[s].cs, req'[s].start = req[s].start,
         UNCHANGED <<entry, lockUntil>>, updating' = updating \/ updating # s,
         now' \in Nat, now <= now'
  PROVE  Guarded(s)'
<1>1. req[s].start \in Nat /\ now \in Nat
  BY Numbers DEF IInv, TypeOK, Request, Times
<1> QED BY <1>1, Numbers DEF Guarded

\* A step that starts no fetch.
LEMMA NoNewFetch ==
  ASSUME IInv, FillInv, OneFillAtATime, Ordinary' => Ordinary,
         Ordinary' => \A s \in Requests :
           Storing(req'[s]) => /\ Storing(req[s]) /\ req'[s].start = req[s].start
                               /\ Guarded(s)'
  PROVE  FillInv' /\ OneFillAtATime'
<1>1. FillInv'
  BY DEF FillInv, Storing, Flying
<1>2. ASSUME Ordinary', NEW q \in Requests, NEW r \in Requests, q # r, Storing(req'[q]),
             Storing(req'[r]), req'[q].start <= req'[r].start
      PROVE  Apart(req'[q], req'[r])
  <2>1. /\ Storing(req[q]) /\ Storing(req[r]) /\ req'[q].start = req[q].start
        /\ req'[r].start = req[r].start /\ Ordinary
    BY <1>2
  <2>2. Apart(req[q], req[r])
    BY <1>2, <2>1, Coalesced
  <2> QED BY <2>1, <2>2 DEF Apart
<1>3. OneFillAtATime'
  BY <1>2 DEF OneFillAtATime, Ordinary, Storing, Flying, Apart, InFlight
<1> QED BY <1>1, <1>3

\* A step that starts one, when each of the others is past its guard.
LEMMA NewFetch ==
  ASSUME IInv, FillInv, OneFillAtATime, Ordinary' => Ordinary, NEW r \in Requests,
         req'[r].start = now, Guarded(r)',
         \A s \in Requests : s # r =>
           /\ req'[s] = req[s]
           /\ Ordinary /\ Storing(req[s]) =>
                 Guarded(s)' /\ (now >= req[s].start + LockAge \/ now > req[s].start + TTL)
  PROVE  FillInv' /\ OneFillAtATime'
<1>1. FillInv'
  BY DEF FillInv, Storing, Flying
<1>2. ASSUME Ordinary', NEW p \in Requests, NEW q \in Requests, p # q, Storing(req'[p]),
             Storing(req'[q]), req'[p].start <= req'[q].start
      PROVE  Apart(req'[p], req'[q])
  <2>1. CASE p # r /\ q # r
    <3>1. req'[p] = req[p] /\ req'[q] = req[q] /\ Ordinary
      BY <1>2, <2>1
    <3> QED BY <1>2, <3>1, Coalesced
  <2>2. CASE q = r
    <3>1. req'[p] = req[p] /\ Ordinary
      BY <1>2, <2>2
    <3> QED BY <1>2, <2>2, <3>1 DEF Apart
  <2>3. CASE p = r
    <3>1. req'[q] = req[q] /\ Ordinary /\ req[q] \in Request
      BY <1>2, <2>3 DEF IInv, TypeOK
    <3>2. req[q].start <= now /\ req[q].start \in Nat /\ now \in Nat
      BY <1>2, <3>1, Numbers DEF IInv, TimeInv, TypeOK, Storing, Request, Times
    <3>3. req[q].start = now
      BY <1>2, <2>3, <3>1, <3>2
    <3> QED BY <1>2, <2>3, <3>1, <3>2, <3>3 DEF Apart
  <2> QED BY <2>1, <2>2, <2>3
<1>3. OneFillAtATime'
  BY <1>2 DEF OneFillAtATime, Ordinary, Storing, Flying, Apart, InFlight
<1> QED BY <1>1, <1>3

\* A request with no fetch under way turns into one with none either, or whose
\* answer will not be stored.
LEMMA NotStored ==
  ASSUME IInv, FillInv, OneFillAtATime, NEW r \in Requests, NEW p, Becomes(r, p),
         ~Storing(p), req[r].purge => p.purge, UNCHANGED <<now, entry, lockUntil, refresh, floor>>,
         updating' = updating \/ updating = r
  PROVE  FillInv' /\ OneFillAtATime'
<1>1. req \in [Requests -> Request] /\ now \in Nat
  BY Numbers DEF IInv, TypeOK, Times
<1>2. req'[r] = p /\ \A s \in Requests : s # r => req'[s] = req[s]
  BY <1>1, Others
<1>3. Ordinary' => Ordinary
  BY <1>1, <1>2 DEF Ordinary
<1>4. ASSUME Ordinary', NEW s \in Requests, Storing(req'[s])
      PROVE  Storing(req[s]) /\ req'[s].start = req[s].start /\ Guarded(s)'
  <2>1. s # r /\ req'[s] = req[s] /\ Guarded(s)
    BY <1>2, <1>3, <1>4 DEF FillInv
  <2> QED BY <1>1, <1>4, <2>1, StillGuarded
<1> QED BY <1>3, <1>4, NoNewFetch

\* A request meets the cache.
LEMMA LookupFills ==
  ASSUME IInv, FillInv, OneFillAtATime, NEW r \in Requests, ~Flying(req[r]),
         NEW q \in Request, req[r].purge => q.purge, Lookup(r, q),
         UNCHANGED <<now, refresh, floor>>
  PROVE  FillInv' /\ OneFillAtATime'
<1>1. /\ req \in [Requests -> Request] /\ now \in Nat /\ entry.ver \in 0 .. MaxVersion
      /\ entry.valid \in Nat /\ lockUntil \in Nat /\ now' = now
  BY Numbers DEF IInv, TypeOK, Times
<1>2. CASE Hit(r, q) \/ Updating(r, q)
  <2>1. PICK cs \in {"HIT", "UPDATING"} : Answer(r, q, cs, "seed", entry.ver)
    BY <1>2 DEF Hit, Updating
  <2> DEFINE a == Answered(q, cs, "seed", entry.ver)
  <2>2. Becomes(r, a) /\ UNCHANGED cacheVars
    BY <1>2, <2>1 DEF Answer, Answered, Hit, Updating
  <2>3. a.pc = "done" /\ a.purge = q.purge
    BY DEF Answered, Request
  <2> HIDE DEF a
  <2> QED BY <1>1, <2>2, <2>3, NotStored DEF Storing, Flying, cacheVars
<1>3. CASE Expired(r, q) \/ Miss(r, q)
  <2>1. PICK cs \in {"EXPIRED", "MISS"}, held \in 0 .. MaxVersion :
          /\ Fetch(r, q, cs, TRUE, held) /\ updating' = r /\ entry' = entry
          /\ \/ /\ cs = "EXPIRED" /\ entry.present /\ ~Fresh /\ updating = None
                /\ lockUntil' = lockUntil
             \/ /\ cs = "MISS" /\ ~entry.present /\ (updating = None \/ lockUntil <= now)
                /\ lockUntil' = now + LockAge
    <3>1. 0 \in 0 .. MaxVersion
      BY Numbers
    <3>2. CASE Expired(r, q)
      BY <1>1, <3>2 DEF Expired
    <3>3. CASE Miss(r, q)
      BY <3>1, <3>3 DEF Miss
    <3> QED BY <1>3, <3>2, <3>3
  <2> DEFINE f == Fetching(q, cs, TRUE, held)
  <2>2. Becomes(r, f)
    BY <2>1 DEF Fetch, Fetching
  <2>3. f.cs = cs /\ f.start = now /\ f.purge = q.purge
    BY DEF Fetching, Request
  <2> HIDE DEF f
  <2>4. req'[r] = f /\ \A s \in Requests : s # r => req'[s] = req[s]
    BY <1>1, <2>2, Others
  <2>5. Ordinary' => Ordinary
    BY <2>3, <2>4 DEF Ordinary
  <2>6. Guarded(r)'
    BY <2>1, <2>3, <2>4 DEF Guarded
  <2>7. ASSUME NEW s \in Requests, s # r, Ordinary, Storing(req[s])
        PROVE  Guarded(s)' /\ (now >= req[s].start + LockAge \/ now > req[s].start + TTL)
    <3>1. Guarded(s) /\ req'[s] = req[s] /\ (updating = None => updating # s)
      BY <2>4, <2>7, Numbers DEF FillInv
    <3>2. req[s].start \in Nat
      BY <1>1 DEF Request, Times
    <3>3. CASE entry.present /\ ~Fresh /\ updating = None
      BY <1>1, <2>1, <3>1, <3>2, <3>3, Numbers DEF Guarded, Fresh
    <3>4. CASE ~entry.present /\ (updating = None \/ lockUntil <= now)
      BY <1>1, <2>1, <3>1, <3>2, <3>4, Numbers DEF Guarded
    <3> QED BY <2>1, <3>3, <3>4
  <2>8. \A s \in Requests : s # r =>
           /\ req'[s] = req[s]
           /\ Ordinary /\ Storing(req[s]) =>
                 Guarded(s)' /\ (now >= req[s].start + LockAge \/ now > req[s].start + TTL)
    BY <2>4, <2>7
  <2> QED BY <2>3, <2>4, <2>5, <2>6, <2>8, NewFetch
<1> QED BY <1>2, <1>3 DEF Lookup

\* The steps of nginx.
LEMMA NginxFills ==
  ASSUME IInv, IInv', FillInv, OneFillAtATime, NEW r \in Requests,
         \/ \E purge \in BOOLEAN : Arrive(r, purge)
         \/ LockReleased(r) \/ LockTimesOut(r) \/ Render(r) \/ Complete(r) \/ UpstreamFails(r)
  PROVE  FillInv' /\ OneFillAtATime'
<1>1. /\ req \in [Requests -> Request] /\ req[r] \in Request /\ now \in Times /\ now \in Nat
      /\ floor \in 0 .. MaxVersion /\ RequestInv(req[r])
  BY Numbers DEF IInv, TypeOK, Times
<1>2. ASSUME NEW purge \in BOOLEAN, Arrive(r, purge) PROVE FillInv' /\ OneFillAtATime'
  <2> DEFINE q == [req[r] EXCEPT !.purge = purge, !.floor = floor]
  <2>1. q \in Request /\ q.purge = purge /\ q.pc = "new" /\ req[r].pc = "new" /\ ~req[r].purge
    BY <1>1, <1>2 DEF Request, Arrive, RequestInv
  <2>2. /\ \/ Lookup(r, q) \/ Wait(r, q)
           \/ purge /\ Becomes(r, Fetching(q, "BYPASS", TRUE, 0)) /\ UNCHANGED cacheVars
        /\ UNCHANGED <<now, refresh, floor>>
    BY <1>2 DEF Arrive, Fetch, Fetching
  <2> HIDE DEF q
  <2>3. CASE Lookup(r, q)
    BY <2>1, <2>2, <2>3, LookupFills DEF Flying
  <2>4. CASE Wait(r, q)
    <3> DEFINE w == [q EXCEPT !.pc = "waiting", !.start = now]
    <3>1. w.pc = "waiting" /\ w.purge = q.purge
      BY <2>1 DEF Request
    <3>2. Becomes(r, w) /\ UNCHANGED cacheVars
      BY <2>4 DEF Wait
    <3> HIDE DEF w
    <3> QED BY <2>1, <2>2, <3>1, <3>2, NotStored DEF Storing, Flying, cacheVars
  <2>5. CASE purge /\ Becomes(r, Fetching(q, "BYPASS", TRUE, 0)) /\ UNCHANGED cacheVars
    <3>1. Fetching(q, "BYPASS", TRUE, 0).purge
      BY <2>1, <2>5 DEF Fetching, Request
    <3>2. req'[r].purge
      BY <1>1, <2>5, <3>1, Others
    <3>3. ~Ordinary'
      BY <3>2 DEF Ordinary
    <3> QED BY <3>3 DEF FillInv, OneFillAtATime, Ordinary
  <2> QED BY <2>2, <2>3, <2>4, <2>5
<1>3. CASE LockReleased(r)
  BY <1>1, <1>3, LookupFills DEF LockReleased, Flying
<1>4. CASE LockTimesOut(r)
  <2> DEFINE f == Fetching(req[r], "MISS", FALSE, 0)
  <2>1. Becomes(r, f) /\ UNCHANGED <<now, entry, updating, lockUntil, refresh, floor>>
    BY <1>4 DEF LockTimesOut, Fetch, Fetching, cacheVars
  <2>2. ~f.store /\ f.purge = req[r].purge
    BY <1>1 DEF Fetching, Request
  <2> HIDE DEF f
  <2> QED BY <2>1, <2>2, NotStored DEF Storing
<1>5. CASE Render(r)
  <2> DEFINE p == [req[r] EXCEPT !.pc = "rendered", !.out = IF refused THEN "refused" ELSE "seed",
                                 !.ans = IF refused THEN 0 ELSE ver]
  <2>1. Becomes(r, p) /\ UNCHANGED <<now, entry, updating, lockUntil, refresh, floor>>
        /\ req[r].pc = "fetching"
    BY <1>5 DEF Render, cacheVars
  <2>2. /\ p.store = req[r].store /\ p.start = req[r].start /\ p.cs = req[r].cs
        /\ p.purge = req[r].purge
    BY <1>1 DEF Request
  <2> HIDE DEF p
  <2>3. req'[r] = p /\ \A s \in Requests : s # r => req'[s] = req[s]
    BY <1>1, <2>1, Others
  <2>4. Ordinary' => Ordinary
    BY <2>1, <2>2, <2>3 DEF Ordinary
  <2>5. ASSUME Ordinary', NEW s \in Requests, Storing(req'[s])
        PROVE  Storing(req[s]) /\ req'[s].start = req[s].start /\ Guarded(s)'
    <3>1. Storing(req[s]) /\ req'[s].start = req[s].start /\ req'[s].cs = req[s].cs
      BY <2>1, <2>2, <2>3, <2>5 DEF Storing, Flying
    <3>2. Guarded(s)
      BY <2>4, <2>5, <3>1 DEF FillInv
    <3> QED BY <1>1, <2>1, <3>1, <3>2, StillGuarded
  <2> QED BY <2>4, <2>5, NoNewFetch
<1>6. CASE Complete(r) /\ req[r].store /\ cacheable(req[r].out)
  <2> DEFINE a == Answered(req[r], req[r].cs, req[r].out, req[r].ans)
  <2>1. Becomes(r, a) /\ UNCHANGED <<now, refresh, floor>> /\ entry'.present
        /\ entry'.valid = now + TTL
    BY <1>6 DEF Complete, Answer, Answered, ValidUntil
  <2>2. a.pc = "done" /\ a.purge = req[r].purge
    BY <1>1 DEF Answered, Request
  <2> HIDE DEF a
  <2>3. req'[r] = a /\ \A s \in Requests : s # r => req'[s] = req[s]
    BY <1>1, <2>1, Others
  <2>4. Ordinary' => Ordinary
    BY <2>1, <2>2, <2>3 DEF Ordinary
  <2>5. ASSUME Ordinary', NEW s \in Requests, Storing(req'[s])
        PROVE  Storing(req[s]) /\ req'[s].start = req[s].start /\ Guarded(s)'
    <3>1. req'[s] = req[s] /\ Storing(req[s])
      BY <2>2, <2>3, <2>5 DEF Storing, Flying
    <3>2. req[s].start <= now /\ req[s].start \in Nat
      BY <1>1, <3>1 DEF IInv, TimeInv, Storing, Request, Times
    <3> QED BY <1>1, <2>1, <3>1, <3>2, Numbers DEF Guarded
  <2> QED BY <2>4, <2>5, NoNewFetch
<1>7. CASE \/ Complete(r) /\ ~(req[r].store /\ cacheable(req[r].out))
           \/ UpstreamFails(r)
  <2>1. PICK cs, out, v : Answer(r, req[r], cs, out, v)
    BY <1>7 DEF Complete, UpstreamFails
  <2> DEFINE a == Answered(req[r], cs, out, v)
  <2>2. Becomes(r, a) /\ UNCHANGED <<now, refresh, floor>> /\ ReleaseUpdating(r)
    BY <1>7, <2>1 DEF Complete, UpstreamFails, Answer, Answered
  <2>3. a.pc = "done" /\ a.purge = req[r].purge
    BY <1>1 DEF Answered, Request
  <2> HIDE DEF a
  <2>4. UNCHANGED <<entry, lockUntil>> /\ (updating' = updating \/ updating = r)
    BY <2>2 DEF ReleaseUpdating
  <2> QED BY <2>2, <2>3, <2>4, NotStored DEF Storing, Flying
<1> QED BY <1>2, <1>3, <1>4, <1>5, <1>6, <1>7

\* The clock, the cache manager and the world outside: none of them starts a fetch.
LEMMA OutsideFills ==
  ASSUME IInv, IInv', FillInv, OneFillAtATime,
         Evict \/ Tick \/ Publish \/ Withdraw \/ LabRestart \/ LabFlush
  PROVE  FillInv' /\ OneFillAtATime'
<1>1. req' = req /\ now \in Nat /\ now' \in Nat /\ ver \in Nat
  BY Numbers DEF IInv, TypeOK, Times, Versions, Evict, Tick, Publish, Withdraw, LabRestart, LabFlush
<1>2. CASE LabRestart \/ LabFlush
  <2>1. ~Ordinary'
    BY <1>1, <1>2 DEF LabRestart, LabFlush, Ordinary
  <2> QED BY <2>1 DEF FillInv, OneFillAtATime, Ordinary
<1>3. CASE Tick \/ Publish \/ Withdraw
  <2>1. UNCHANGED <<entry, updating, lockUntil, refresh, floor>> /\ now <= now'
    BY <1>1, <1>3 DEF Tick, Publish, Withdraw, cacheVars
  <2>2. Ordinary' => Ordinary
    BY <1>1, <2>1 DEF Ordinary
  <2>3. ASSUME Ordinary', NEW s \in Requests, Storing(req'[s])
        PROVE  Storing(req[s]) /\ req'[s].start = req[s].start /\ Guarded(s)'
    <3>1. Guarded(s) /\ req'[s] = req[s]
      BY <1>1, <2>2, <2>3 DEF FillInv
    <3> QED BY <1>1, <2>1, <2>3, <3>1, StillGuarded
  <2> QED BY <2>2, <2>3, NoNewFetch
<1>4. CASE Evict
  <2>1. Ordinary' => Ordinary
    BY <1>1, <1>4 DEF Ordinary, Evict
  <2>2. ASSUME Ordinary', NEW s \in Requests, Storing(req'[s]) PROVE FALSE
    <3>1. Flying(req[s]) /\ RequestInv(req[s]) /\ ~req[s].purge
      BY <1>1, <2>1, <2>2 DEF Storing, IInv, Ordinary
    <3>2. req[s].cs = "BYPASS"
      BY <1>4, <3>1 DEF Evict, InFlight, Flying
    <3> QED BY <3>1, <3>2 DEF RequestInv
  <2> QED BY <2>1, <2>2, NoNewFetch
<1> QED BY <1>2, <1>3, <1>4

\* Of one seed's ordinary requests two fetches that may fill the entry run together
\* only if the first has held its lock for too long, or filled an entry that
\* expired (nginx.conf.j2: proxy_cache_lock, use_stale updating).
THEOREM FillsAreCoalesced == Spec => []OneFillAtATime
<1> DEFINE Inv == IInv /\ FillInv /\ OneFillAtATime
<1>1. Init => Inv
  <2> SUFFICES ASSUME Init PROVE FillInv /\ OneFillAtATime
    BY InitIInv
  <2>1. \A r \in Requests : ~Flying(req[r])
    BY DEF Init, NewRequest, Flying
  <2> QED BY <2>1 DEF FillInv, Storing, OneFillAtATime, InFlight, Flying
<1>2. Inv /\ [Next]_vars => Inv'
  <2> SUFFICES ASSUME Inv, [Next]_vars PROVE FillInv' /\ OneFillAtATime'
    BY NextIInv
  <2>1. IInv'
    BY NextIInv
  <2>2. CASE Next
    BY <2>1, <2>2, NginxFills, OutsideFills DEF Next
  <2>3. CASE UNCHANGED vars
    <3>1. UNCHANGED <<now, entry, updating, lockUntil, req, refresh, floor>>
      BY <2>3 DEF vars, cacheVars
    <3>2. FillInv'
      BY <3>1 DEF FillInv, Storing, Flying, Ordinary, Guarded
    <3>3. OneFillAtATime'
      BY <3>1 DEF OneFillAtATime, InFlight
    <3> QED BY <3>2, <3>3
  <2> QED BY <2>2, <2>3
<1>3. Inv => OneFillAtATime
  OBVIOUS
<1> QED BY <1>1, <1>2, <1>3, PTL DEF Spec

-----------------------------------------------------------------------------
(***************************************************************************)
(* The cache implements SeedServer: the safety part of                     *)
(* ImplementsSeedServer, step by step.                                     *)
(***************************************************************************)

\* A request as its client sees it.
Client(q) == [st |-> ClientState[q.pc], due |-> Due(q), out |-> q.out, ans |-> q.ans]

\* The client's view of a request in each of its states.
LEMMA ClientOf ==
  ASSUME NEW q \in Request
  PROVE  /\ q.pc = "new" => Client(q) = [st |-> "idle", due |-> 0, out |-> q.out, ans |-> q.ans]
         /\ q.pc = "waiting" =>
              Client(q) = [st |-> "asked", due |-> q.start + LockTimeout + FetchMax,
                           out |-> q.out, ans |-> q.ans]
         /\ q.pc = "fetching" =>
              Client(q) = [st |-> "asked", due |-> q.start + FetchMax, out |-> q.out, ans |-> q.ans]
         /\ q.pc = "rendered" =>
              Client(q) = [st  |-> "decided", due |-> q.start + FetchMax,
                           out |-> q.out, ans |-> q.ans]
         /\ q.pc = "done" =>
              Client(q) = [st |-> "answered", due |-> 0, out |-> q.out, ans |-> q.ans]
BY DEF Client, ClientState, Due

\* A change of one request is a change of that client.
LEMMA OneClient ==
  ASSUME req \in [Requests -> Request], NEW r \in Requests, NEW p, Becomes(r, p),
         UNCHANGED <<now, sourceVars, lastTrue>>
  PROVE  Server!Becomes(r, Client(p))
BY DEF Server!Becomes, Server!world, Becomes, Client, sourceVars

\* How a client's record changes when it asks, is promised an answer sooner, and
\* is decided on.
View == [st : {"idle", "asked", "decided", "answered"}, due : Nat,
         out : {"none", "seed", "refused", "failed"}, ans : 0 .. MaxVersion]

LEMMA Asked ==
  ASSUME NEW d \in Nat
  PROVE  [Server!Idle EXCEPT !.st = "asked", !.due = d]
           = [st |-> "asked", due |-> d, out |-> "none", ans |-> 0]
<1> DEFINE k == [Server!Idle EXCEPT !.st = "asked", !.due = d]
           l == [st |-> "asked", due |-> d, out |-> "none", ans |-> 0]
<1>1. 0 \in 0 .. MaxVersion
  BY Numbers
<1>2. Server!Idle \in View /\ Server!Idle.out = "none" /\ Server!Idle.ans = 0
  BY <1>1 DEF View, Server!Idle
<1>3. k \in View /\ k.st = "asked" /\ k.due = d /\ k.out = "none" /\ k.ans = 0
  BY <1>2 DEF View
<1>4. l \in View /\ l.st = "asked" /\ l.due = d /\ l.out = "none" /\ l.ans = 0
  BY <1>1 DEF View
<1> HIDE DEF k, l
<1>5. k = l
  BY <1>3, <1>4 DEF View
<1> QED BY <1>5 DEF k, l

LEMMA Decided ==
  ASSUME NEW k \in View, NEW out \in {"seed", "refused"}, NEW v \in 0 .. MaxVersion
  PROVE  [k EXCEPT !.st = "decided", !.out = out, !.ans = v]
           = [st |-> "decided", due |-> k.due, out |-> out, ans |-> v]
<1> DEFINE m == [k EXCEPT !.st = "decided", !.out = out, !.ans = v]
           l == [st |-> "decided", due |-> k.due, out |-> out, ans |-> v]
<1>1. m \in View /\ m.st = "decided" /\ m.due = k.due /\ m.out = out /\ m.ans = v
  BY DEF View
<1>2. l \in View /\ l.st = "decided" /\ l.due = k.due /\ l.out = out /\ l.ans = v
  BY DEF View
<1> HIDE DEF m, l
<1>3. m = l
  BY <1>1, <1>2 DEF View
<1> QED BY <1>3 DEF m, l

\* A client waits for its answer while its request waits or is fetched.
LEMMA PendingIs ==
  ASSUME req \in [Requests -> Request], NEW r \in Requests
  PROVE  r \in Server!Pending <=> req[r].pc \in {"waiting", "fetching", "rendered"}
<1>1. req[r] \in Request
  OBVIOUS
<1>2. req[r].pc \in {"new", "waiting", "fetching", "rendered", "done"}
  BY <1>1 DEF Request
<1>3. Client(req[r]).st \in {"asked", "decided"}
        <=> req[r].pc \in {"waiting", "fetching", "rendered"}
  BY <1>1, <1>2, ClientOf
<1> QED BY <1>3 DEF Server!Pending, Client

\* A request that is answered out of what is stored, or degraded, or fails.
LEMMA AnswerTells ==
  ASSUME req \in [Requests -> Request], NEW r \in Requests, NEW q \in Request,
         NEW cs \in Statuses, NEW out \in {"seed", "refused", "failed"},
         NEW v \in 0 .. MaxVersion, Answer(r, q, cs, out, v),
         UNCHANGED <<now, sourceVars, lastTrue>>
  PROVE  Server!Told(r, out, v)
<1> DEFINE a == Answered(q, cs, out, v)
<1>1. a \in Request /\ a.pc = "done" /\ a.out = out /\ a.ans = v
  <2>1. a \in Request
    BY AnsweredTyped
  <2>2. a.pc = "done" /\ a.out = out /\ a.ans = v
    BY DEF Answered, Request
  <2> QED BY <2>1, <2>2
<1>2. Becomes(r, a)
  BY DEF Answer, Answered
<1> HIDE DEF a
<1>3. Client(a) = [st |-> "answered", due |-> 0, out |-> out, ans |-> v]
  BY <1>1, ClientOf
<1>4. Server!Becomes(r, Client(a))
  BY <1>2, OneClient
<1> QED BY <1>3, <1>4 DEF Server!Told

\* A request that goes to the renderer asks, or is promised its answer sooner.
LEMMA FetchAsks ==
  ASSUME IInv, NEW r \in Requests, req[r].pc \in {"new", "waiting"},
         NEW q \in Request, q.out = "none", q.ans = 0,
         NEW cs \in Statuses, NEW store \in BOOLEAN, NEW held \in 0 .. MaxVersion,
         Fetch(r, q, cs, store, held), UNCHANGED <<now, sourceVars, lastTrue>>
  PROVE  Server!Ask(r) \/ Server!Sooner(r)
<1> DEFINE f == Fetching(q, cs, store, held)
<1>1. /\ req \in [Requests -> Request] /\ req[r] \in Request /\ now \in Nat /\ RequestInv(req[r])
      /\ req[r].start \in Nat
      /\ req[r].pc = "waiting" => now <= req[r].start + LockTimeout
      /\ req[r].out = "none" /\ req[r].ans = 0
  BY Numbers DEF IInv, TypeOK, TimeInv, Times, Request, RequestInv
<1>2. PICK p \in Request : /\ Becomes(r, p) /\ p.pc = "fetching" /\ p.start = now
                           /\ p.out = "none" /\ p.ans = 0
  <2>1. f \in Request /\ f.pc = "fetching" /\ f.start = now /\ f.out = "none" /\ f.ans = 0
    BY <1>1 DEF Fetching, Request, IInv, TypeOK
  <2>2. Becomes(r, f)
    BY DEF Fetch, Fetching
  <2> HIDE DEF f
  <2> QED BY <2>1, <2>2
<1>3. PICK d \in Nat : d = now + FetchMax
  BY <1>1, Numbers
<1>4. Client(p) = [st |-> "asked", due |-> d, out |-> "none", ans |-> 0]
  BY <1>2, <1>3, ClientOf
<1>5. Server!Becomes(r, Client(p))
  BY <1>1, <1>2, OneClient
<1>6. CASE req[r].pc = "new"
  <2>1. Client(req[r]).st = "idle"
    BY <1>1, <1>6, ClientOf
  <2>2. d \in now .. now + (LockTimeout + FetchMax)
    BY <1>1, <1>3, Numbers
  <2>3. Server!Becomes(r, [Server!Idle EXCEPT !.st = "asked", !.due = d])
    BY <1>4, <1>5, Asked
  <2> QED BY <2>1, <2>2, <2>3 DEF Server!Ask, Client
<1>7. CASE req[r].pc = "waiting"
  <2>1. PICK k : k = Client(req[r])
    OBVIOUS
  <2>2. k = [st |-> "asked", due |-> req[r].start + LockTimeout + FetchMax,
             out |-> "none", ans |-> 0]
    BY <1>1, <1>7, <2>1, ClientOf
  <2>3. d \in now .. k.due /\ k.st = "asked"
    BY <1>1, <1>3, <1>7, <2>2, Numbers
  <2>4. Client(p) = [k EXCEPT !.due = d]
    BY <1>4, <2>2
  <2>5. Server!Becomes(r, [k EXCEPT !.due = d])
    BY <1>5, <2>4
  <2> QED BY <2>1, <2>3, <2>5 DEF Server!Sooner, Server!Becomes, Client
<1> QED BY <1>6, <1>7

\* A request that meets the cache is served from the store, asks, or is served an
\* older seed while another request is at the renderer for it.
LEMMA LookupRefines ==
  ASSUME IInv, NEW r \in Requests, req[r].pc \in {"new", "waiting"},
         NEW q \in Request, q.out = "none", q.ans = 0,
         Lookup(r, q), UNCHANGED <<now, sourceVars, lastTrue>>
  PROVE  Server!FromStore(r) \/ Server!Ask(r) \/ Server!Sooner(r) \/ Server!Degraded(r)
<1>1. /\ req \in [Requests -> Request] /\ req[r] \in Request /\ now \in Nat
      /\ entry.ver \in 0 .. MaxVersion /\ entry.valid \in Nat /\ 0 \in 0 .. MaxVersion
      /\ lastTrue \in [Versions -> Times]
  BY Numbers DEF IInv, TypeOK, Times
<1>2. Client(req[r]).st \in {"idle", "asked"}
  BY <1>1, ClientOf
<1>3. CASE Hit(r, q) \/ Updating(r, q)
  <2>1. PICK v \in 0 .. MaxVersion : v = entry.ver
    BY <1>1
  <2>2. PICK cs \in {"HIT", "UPDATING"} : Answer(r, q, cs, "seed", v) /\ entry.present
    BY <1>3, <2>1 DEF Hit, Updating, Fresh
  <2>3. v \in 1 .. ver /\ entry.valid <= lastTrue[v] + FetchMax + TTL /\ v \in Versions
    BY <2>1, <2>2 DEF IInv, EntryInv, TypeOK
  <2>4. lastTrue[v] \in Nat
    BY <1>1, <2>3 DEF Times
  <2>5. cs \in Statuses
    BY DEF Statuses
  <2>6. Server!Told(r, "seed", v)
    BY <1>1, <2>2, <2>5, AnswerTells
  <2>7. CASE Hit(r, q)
    <3>1. lastTrue[v] >= now - (TTL + FetchMax)
      BY <1>1, <2>3, <2>4, <2>7, Numbers DEF Hit, Fresh
    <3> QED BY <1>2, <2>3, <2>6, <3>1 DEF Server!FromStore, Client
  <2>8. CASE Updating(r, q)
    <3>1. updating \in Requests /\ Flying(req[updating])
      BY <2>8 DEF Updating, IInv, FlagInv
    <3>2. updating \in Server!Pending
      BY <1>1, <3>1, PendingIs DEF Flying
    <3>3. r \in Server!Pending \/ Client(req[r]).st = "idle"
      BY <1>1, PendingIs, ClientOf
    <3> QED BY <2>3, <2>6, <3>2, <3>3 DEF Server!Degraded, Client
  <2> QED BY <1>3, <2>7, <2>8
<1>4. CASE Expired(r, q) \/ Miss(r, q)
  <2>1. PICK cs \in {"EXPIRED", "MISS"}, held \in 0 .. MaxVersion : Fetch(r, q, cs, TRUE, held)
    BY <1>1, <1>4 DEF Expired, Miss
  <2>2. cs \in Statuses
    BY DEF Statuses
  <2> QED BY <2>1, <2>2, FetchAsks
<1> QED BY <1>3, <1>4 DEF Lookup

\* A client's request.
LEMMA ArriveRefines ==
  ASSUME IInv, NEW r \in Requests, NEW purge \in BOOLEAN, Arrive(r, purge)
  PROVE  Server!FromStore(r) \/ Server!Ask(r) \/ Server!Sooner(r) \/ Server!Degraded(r)
<1>1. /\ req \in [Requests -> Request] /\ req[r] \in Request /\ req[r].pc = "new"
      /\ floor \in 0 .. MaxVersion /\ req[r].out = "none" /\ req[r].ans = 0 /\ now \in Nat
      /\ now \in Times /\ 0 \in 0 .. MaxVersion
      /\ UNCHANGED <<now, sourceVars, lastTrue>>
  BY Numbers DEF IInv, TypeOK, RequestInv, Arrive, Times
<1>2. PICK q \in Request :
        /\ q.out = "none" /\ q.ans = 0
        /\ \/ Lookup(r, q) \/ Wait(r, q)
           \/ Fetch(r, q, "BYPASS", TRUE, 0)
  <2> DEFINE q == [req[r] EXCEPT !.purge = purge, !.floor = floor]
  <2>1. q \in Request /\ q.out = "none" /\ q.ans = 0
    BY <1>1 DEF Request
  <2>2. Lookup(r, q) \/ Wait(r, q) \/ Fetch(r, q, "BYPASS", TRUE, 0)
    BY DEF Arrive
  <2> HIDE DEF q
  <2> QED BY <2>1, <2>2
<1>3. CASE Lookup(r, q)
  BY <1>1, <1>2, <1>3, LookupRefines
<1>4. CASE Wait(r, q)
  <2>1. PICK p \in Request : /\ Becomes(r, p) /\ p.pc = "waiting" /\ p.start = now
                             /\ p.out = "none" /\ p.ans = 0
    <3> DEFINE w == [q EXCEPT !.pc = "waiting", !.start = now]
    <3>1. w \in Request /\ w.pc = "waiting" /\ w.start = now /\ w.out = "none" /\ w.ans = 0
      BY <1>1, <1>2 DEF Request
    <3>2. Becomes(r, w)
      BY <1>4 DEF Wait
    <3> HIDE DEF w
    <3> QED BY <3>1, <3>2
  <2>2. PICK d \in Nat : d = now + LockTimeout + FetchMax
    BY <1>1, Numbers
  <2>3. Client(p) = [st |-> "asked", due |-> d, out |-> "none", ans |-> 0]
    BY <2>1, <2>2, ClientOf
  <2>4. Server!Becomes(r, Client(p))
    BY <1>1, <2>1, OneClient
  <2>5. Server!Becomes(r, [Server!Idle EXCEPT !.st = "asked", !.due = d])
    BY <2>3, <2>4, Asked
  <2>6. Client(req[r]).st = "idle"
    BY <1>1, ClientOf
  <2>7. d \in now .. now + (LockTimeout + FetchMax)
    BY <1>1, <2>2, Numbers
  <2> QED BY <2>5, <2>6, <2>7 DEF Server!Ask, Client
<1>5. CASE Fetch(r, q, "BYPASS", TRUE, 0)
  <2>1. "BYPASS" \in Statuses
    BY DEF Statuses
  <2> QED BY <1>1, <1>2, <1>5, <2>1, FetchAsks
<1> QED BY <1>2, <1>3, <1>4, <1>5

\* A waiting request is let in or fetches for itself.
LEMMA WaiterRefines ==
  ASSUME IInv, NEW r \in Requests, LockReleased(r) \/ LockTimesOut(r)
  PROVE  Server!FromStore(r) \/ Server!Ask(r) \/ Server!Sooner(r) \/ Server!Degraded(r)
<1>1. /\ req[r] \in Request /\ req[r].pc = "waiting" /\ RequestInv(req[r])
      /\ 0 \in 0 .. MaxVersion /\ UNCHANGED <<now, sourceVars, lastTrue>>
  <2>1. req[r] \in Request /\ RequestInv(req[r]) /\ 0 \in 0 .. MaxVersion
    BY Numbers DEF IInv, TypeOK
  <2>2. req[r].pc = "waiting" /\ UNCHANGED <<now, sourceVars, lastTrue>>
    BY DEF LockReleased, LockTimesOut
  <2> QED BY <2>1, <2>2
<1>2. PICK q \in Request : q = req[r]
  BY <1>1
<1>3. q.out = "none" /\ q.ans = 0
  BY <1>1, <1>2 DEF RequestInv
<1>4. CASE LockReleased(r)
  <2>1. Lookup(r, q)
    BY <1>2, <1>4 DEF LockReleased
  <2> QED BY <1>1, <1>3, <2>1, LookupRefines
<1>5. CASE LockTimesOut(r)
  <2>1. Fetch(r, q, "MISS", FALSE, 0) /\ "MISS" \in Statuses
    BY <1>2, <1>5 DEF LockTimesOut, Statuses
  <2> QED BY <1>1, <1>3, <2>1, FetchAsks
<1> QED BY <1>4, <1>5

\* The renderer decides.
LEMMA RenderRefines ==
  ASSUME IInv, NEW r \in Requests, Render(r)
  PROVE  Server!Decide(r)
<1>1. /\ req \in [Requests -> Request] /\ req[r] \in Request /\ req[r].pc = "fetching"
      /\ ver \in 0 .. MaxVersion /\ 0 \in 0 .. MaxVersion /\ refused \in BOOLEAN
      /\ UNCHANGED <<now, sourceVars, lastTrue>>
  BY Numbers DEF IInv, TypeOK, Render, Versions
<1>2. PICK out \in {"seed", "refused"}, v \in 0 .. MaxVersion :
        out = (IF refused THEN "refused" ELSE "seed") /\ v = (IF refused THEN 0 ELSE ver)
  BY <1>1
<1>3. PICK p \in Request : /\ Becomes(r, p) /\ p.pc = "rendered" /\ p.start = req[r].start
                           /\ p.out = out /\ p.ans = v
  <2> DEFINE p == [req[r] EXCEPT !.pc = "rendered", !.out = out, !.ans = v]
  <2>1. p \in Request /\ p.pc = "rendered" /\ p.start = req[r].start /\ p.out = out /\ p.ans = v
    BY <1>1, <1>2 DEF Request
  <2>2. Becomes(r, p)
    BY <1>2 DEF Render, Becomes
  <2> HIDE DEF p
  <2> QED BY <2>1, <2>2
<1>4. PICK k : k = Client(req[r])
  OBVIOUS
<1>5. k = [st |-> "asked", due |-> req[r].start + FetchMax, out |-> req[r].out, ans |-> req[r].ans]
  BY <1>1, <1>4, ClientOf
<1>6. k \in View /\ k.st = "asked" /\ k.due = req[r].start + FetchMax
  <2>1. req[r].start + FetchMax \in Nat
    BY <1>1, Numbers DEF Request, Times
  <2>2. req[r].out \in {"none", "seed", "refused", "failed"} /\ req[r].ans \in 0 .. MaxVersion
    BY <1>1 DEF Request
  <2> QED BY <1>5, <2>1, <2>2 DEF View
<1>7. Client(p) = [st |-> "decided", due |-> k.due, out |-> out, ans |-> v]
  BY <1>3, <1>6, ClientOf
<1>8. Client(p) = [k EXCEPT !.st = "decided", !.out = out, !.ans = v]
  BY <1>6, <1>7, Decided
<1>9. Server!Becomes(r, [k EXCEPT !.st = "decided", !.out = out, !.ans = v])
  BY <1>1, <1>3, <1>8, OneClient
<1> QED BY <1>2, <1>4, <1>6, <1>9 DEF Server!Decide, Server!Becomes, Client

\* What was decided reaches the client.
LEMMA CompleteRefines ==
  ASSUME IInv, NEW r \in Requests, Complete(r)
  PROVE  Server!Reply(r)
<1>1. /\ req \in [Requests -> Request] /\ req[r] \in Request /\ req[r].pc = "rendered"
      /\ RequestInv(req[r]) /\ UNCHANGED <<now, sourceVars, lastTrue>>
  BY DEF IInv, TypeOK, Complete
<1>2. PICK q \in Request : q = req[r]
  BY <1>1
<1>3. q.cs \in Statuses /\ q.out \in {"seed", "refused", "failed"} /\ q.ans \in 0 .. MaxVersion
  BY <1>1, <1>2 DEF RequestInv, Request
<1>4. Answer(r, q, q.cs, q.out, q.ans)
  BY <1>2 DEF Complete
<1>5. Server!Told(r, q.out, q.ans)
  BY <1>1, <1>3, <1>4, AnswerTells
<1>6. Client(req[r]) = [st  |-> "decided", due |-> req[r].start + FetchMax,
                        out |-> q.out, ans |-> q.ans]
  BY <1>1, <1>2, ClientOf
<1>7. Client(req[r]).st = "decided"
  BY <1>6
<1> QED BY <1>2, <1>5, <1>7 DEF Server!Reply, Server!Told, Server!Becomes, Client

\* A fetch that fails: an older seed, or the failure.
LEMMA FailRefines ==
  ASSUME IInv, NEW r \in Requests, UpstreamFails(r)
  PROVE  Server!Degraded(r) \/ Server!Fail(r)
<1>1. /\ req \in [Requests -> Request] /\ req[r] \in Request /\ Flying(req[r])
      /\ RequestInv(req[r]) /\ UNCHANGED <<now, sourceVars, lastTrue>> /\ 0 \in 0 .. MaxVersion
  BY Numbers DEF IInv, TypeOK, UpstreamFails, InFlight, Flying
<1>2. PICK q \in Request : q = req[r]
  BY <1>1
<1>3. q.cs \in Statuses /\ "STALE" \in Statuses /\ q.held \in 0 .. MaxVersion
  BY DEF Request, Statuses
<1>4. r \in Server!Pending
  BY <1>1, PendingIs DEF Flying
<1>5. CASE q.cs = "EXPIRED" /\ Answer(r, q, "STALE", "seed", q.held)
  <2>1. Server!Told(r, "seed", q.held)
    BY <1>1, <1>2, <1>3, <1>5, AnswerTells
  <2>2. q.held \in 1 .. ver
    BY <1>1, <1>2, <1>5 DEF RequestInv
  <2> QED BY <1>4, <2>1, <2>2 DEF Server!Degraded
<1>6. CASE Answer(r, q, q.cs, "failed", 0)
  <2>1. Server!Told(r, "failed", 0)
    BY <1>1, <1>2, <1>3, <1>6, AnswerTells
  <2> QED BY <1>4, <2>1 DEF Server!Fail
<1> QED BY <1>2, <1>5, <1>6 DEF UpstreamFails

\* The clock does not pass a promise, and the renderer's world is the same.
LEMMA WorldRefines ==
  ASSUME IInv, Tick \/ Publish \/ Withdraw \/ LabRestart
  PROVE  Server!Tick \/ Server!Publish \/ Server!Withdraw
<1>1. req \in [Requests -> Request] /\ now \in Nat /\ req' = req
  BY DEF IInv, TypeOK, Times, Tick, Publish, Withdraw, LabRestart
<1>2. CASE Tick
  <2>1. ASSUME NEW c \in Server!Pending PROVE now < Client(req[c]).due
    <3>1. c \in Requests
      BY <2>1 DEF Server!Pending
    <3>2. req[c] \in Request /\ req[c].pc \in {"waiting", "fetching", "rendered"}
      BY <1>1, <2>1, <3>1, PendingIs
    <3>3. req[c].start \in Nat
      BY <3>2 DEF Request, Times
    <3>4. CASE req[c].pc = "waiting"
      <4>1. now < req[c].start + LockTimeout
        BY <1>2, <3>1, <3>4 DEF Tick
      <4>2. Client(req[c]).due = req[c].start + LockTimeout + FetchMax
        BY <3>2, <3>4, ClientOf
      <4> QED BY <1>1, <3>3, <4>1, <4>2, Numbers
    <3>5. CASE req[c].pc \in {"fetching", "rendered"}
      <4>1. now < req[c].start + FetchMax
        BY <1>2, <3>1, <3>5 DEF Tick, InFlight
      <4>2. Client(req[c]).due = req[c].start + FetchMax
        BY <3>2, <3>5, ClientOf
      <4> QED BY <4>1, <4>2
    <3> QED BY <3>2, <3>4, <3>5
  <2>2. ASSUME NEW c \in Server!Pending
        PROVE  c \in Requests /\ now < Client(req[c]).due
    BY <2>1, <2>2 DEF Server!Pending
  <2> QED BY <1>1, <1>2, <2>2 DEF Tick, Server!Tick, Client, sourceVars
<1>3. CASE Publish \/ LabRestart
  BY <1>1, <1>3 DEF Publish, LabRestart, Server!Publish
<1>4. CASE Withdraw
  BY <1>1, <1>4 DEF Withdraw, Server!Withdraw
<1> QED BY <1>2, <1>3, <1>4

\* Every step of the cache is a step of SeedServer or nothing to a client.
LEMMA StepRefines == IInv /\ [Next]_vars => [Server!Next]_(Server!vars)
<1> SUFFICES ASSUME IInv, [Next]_vars PROVE Server!Next \/ UNCHANGED Server!vars
  OBVIOUS
<1>1. ASSUME UNCHANGED <<now, ver, refused, lastTrue, req>> PROVE UNCHANGED Server!vars
  BY <1>1 DEF Server!vars, Server!world
<1>2. CASE UNCHANGED vars \/ Evict \/ LabFlush
  BY <1>1, <1>2 DEF vars, sourceVars, Evict, LabFlush
<1>3. CASE Tick \/ Publish \/ Withdraw \/ LabRestart
  BY <1>3, WorldRefines DEF Server!Next
<1>4. ASSUME NEW r \in Requests, NEW purge \in BOOLEAN, Arrive(r, purge)
      PROVE  Server!Next
  BY <1>4, ArriveRefines DEF Server!Next
<1>5. ASSUME NEW r \in Requests, LockReleased(r) \/ LockTimesOut(r) PROVE Server!Next
  BY <1>5, WaiterRefines DEF Server!Next
<1>6. ASSUME NEW r \in Requests, Render(r) \/ Complete(r) \/ UpstreamFails(r) PROVE Server!Next
  BY <1>6, RenderRefines, CompleteRefines, FailRefines DEF Server!Next
<1> QED BY <1>2, <1>3, <1>4, <1>5, <1>6 DEF Next

\* The cache implements the seed server without one, as far as safety goes: what a
\* booting host is told and by when (nginx.conf.j2, location /v1/).  That it is
\* told at all rests on fairness.
THEOREM RefinesSeedServer == Spec => Server!Safety
<1>1. Init => Server!Init
  BY DEF Init, NewRequest, Server!Init, Server!Idle, ClientState, Due, Versions, Server!Versions
<1> QED BY InitIInv, NextIInv, StepRefines, <1>1, PTL DEF Spec, Server!Safety
=============================================================================
