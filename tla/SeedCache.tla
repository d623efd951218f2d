------------------------------ MODULE SeedCache ------------------------------
(***************************************************************************)
(* The seed server's cache: nginx with the /v1/ location of nginx.conf.j2  *)
(* in front of the renderer, and the two ways an operator refreshes it.    *)
(*                                                                         *)
(* One cache key is modelled, one seed file of one host: keys share no     *)
(* state.  nginx is external; what it does with a request is what the      *)
(* directives of the configuration select (proxy_cache_valid, _use_stale,  *)
(* _lock, _bypass).  The renderer is seen through its answers: a seed of   *)
(* the version it renders at that moment, a refusal (404, 422), or a       *)
(* failure (5xx, a refused connection, silence until nginx gives up).      *)
(*                                                                         *)
(* A fetch has two ends, the moment the renderer computes its answer and   *)
(* the moment nginx has it, so answers can overtake each other.  Time is   *)
(* counted in ticks; a fetch ends within FetchMax of them (the proxy       *)
(* timeouts).                                                              *)
(***************************************************************************)
EXTENDS Integers

CONSTANTS
  Requests,    \* identities of client requests; each arrives once
  None,        \* no request
  MaxVersion,  \* bound on the versions of the seed
  MaxTime,     \* bound on the clock
  LastArrival, \* bound on the time of an arrival
  TTL,         \* nginx_cache_valid_seconds = max-age, 300 s
  FetchMax,    \* proxy_connect_timeout and proxy_read_timeout
  LockTimeout, \* proxy_cache_lock_timeout, 5 s
  LockAge      \* proxy_cache_lock_age, nginx's default of 5 s

ASSUME CacheAssumption ==
  /\ None \notin Requests
  /\ MaxVersion \in Nat \ {0} /\ MaxTime \in Nat /\ LastArrival \in Nat
  /\ TTL \in Nat \ {0} /\ FetchMax \in Nat /\ LockTimeout \in Nat /\ LockAge \in Nat

VARIABLES
  now,       \* the clock
  ver,       \* the version the renderer answers with
  refused,   \* whether it answers 404 or 422 instead
  lastTrue,  \* when each version was last what the renderer answers with
  entry,     \* the cached file: present, its version, valid until
  updating,  \* the request that holds the node's updating flag, or None
  lockUntil, \* when the holder's lock may be taken from it
  req,       \* every client request
  refresh,   \* version lab-refresh has restarted into but not flushed for, or 0
  floor      \* version of the renderer the last complete lab-refresh started

sourceVars == <<ver, refused>>
cacheVars  == <<entry, updating, lockUntil>>
vars       == <<now, sourceVars, lastTrue, cacheVars, req, refresh, floor>>

Versions == 1 .. MaxVersion
Times    == 0 .. MaxTime

\* pc: where the request is (`rendered`: the answer is on its way to nginx);
\* cs: X-Cache-Status; start: of its fetch or its wait; store: whether the answer
\* may be cached; held: version of the expired file it opened, 0 if none;
\* out, ans: outcome and version; floor: of the time it arrived.  What only
\* matters to a fetch is forgotten with it.
NewRequest == [pc |-> "new", purge |-> FALSE, cs |-> "none", start |-> 0, store |-> FALSE,
               held |-> 0, out |-> "none", ans |-> 0, floor |-> 0]

NoEntry == [present |-> FALSE, ver |-> 0, valid |-> 0]

Init ==
  /\ now = 0 /\ ver = 1 /\ refused = FALSE
  /\ lastTrue = [v \in Versions |-> 0]
  /\ entry = NoEntry /\ updating = None /\ lockUntil = 0
  /\ req = [r \in Requests |-> NewRequest]
  /\ refresh = 0 /\ floor = 0

-----------------------------------------------------------------------------
(***************************************************************************)
(* nginx, as configured.                                                   *)
(***************************************************************************)
InFlight == {r \in Requests : req[r].pc \in {"fetching", "rendered"}}
Fresh    == entry.present /\ now <= entry.valid

\* Put request q in the place of r's.
Becomes(r, q) == req' = [req EXCEPT ![r] = q]

Answer(r, q, cs, out, v) ==
  Becomes(r, [q EXCEPT !.pc = "done", !.cs = cs, !.out = out, !.ans = v,
                       !.start = 0, !.store = FALSE, !.held = 0])
Fetch(r, q, cs, store, held) ==
  Becomes(r, [q EXCEPT !.pc = "fetching", !.cs = cs, !.start = now, !.store = store,
                       !.held = held])

\* proxy_cache_valid 200 {{ nginx_cache_valid_seconds }}s: nothing else is cached,
\* and the Cache-Control of the renderer says the same.  Faulty variants: errors
\* are cached too; an entry lives twice as long.
cacheable_Any(out)    == TRUE
cacheable(out)        == out = "seed"
ValidUntil_Doubled(t) == t + 2 * TTL
ValidUntil(t)         == t + TTL

Hit(r, q) ==
  /\ Fresh
  /\ Answer(r, q, "HIT", "seed", entry.ver)
  /\ UNCHANGED cacheVars

\* The entry has expired, and this request is the one that refreshes it ...
Expired(r, q) ==
  /\ entry.present /\ ~Fresh /\ updating = None
  /\ Fetch(r, q, "EXPIRED", TRUE, entry.ver)
  /\ updating' = r
  /\ UNCHANGED <<entry, lockUntil>>

\* ... or another one is at it (proxy_cache_use_stale updating).  Faulty
\* variants: without that word; nobody needs to be at it.
Updating_Fetches(r, q) ==
  /\ entry.present /\ ~Fresh /\ updating # None
  /\ Fetch(r, q, "EXPIRED", TRUE, entry.ver)
  /\ UNCHANGED cacheVars
Updating_Unattended(r, q) ==
  /\ entry.present /\ ~Fresh
  /\ Answer(r, q, "UPDATING", "seed", entry.ver)
  /\ UNCHANGED cacheVars
Updating(r, q) ==
  /\ entry.present /\ ~Fresh /\ updating # None
  /\ Answer(r, q, "UPDATING", "seed", entry.ver)
  /\ UNCHANGED cacheVars

\* No entry: take the lock (proxy_cache_lock on) ...
Miss(r, q) ==
  /\ ~entry.present /\ (updating = None \/ lockUntil <= now)
  /\ Fetch(r, q, "MISS", TRUE, 0)
  /\ updating' = r /\ lockUntil' = now + LockAge
  /\ UNCHANGED entry

\* ... or wait for it.
Wait(r, q) ==
  /\ ~entry.present /\ updating # None /\ now < lockUntil
  /\ Becomes(r, [q EXCEPT !.pc = "waiting", !.start = now])
  /\ UNCHANGED cacheVars

\* A request that is not bypassed meets the cache.
Lookup(r, q) == Hit(r, q) \/ Expired(r, q) \/ Updating(r, q) \/ Miss(r, q)

\* A client's request, with or without an X-Purge header.
Arrive(r, purge) ==
  LET q == [req[r] EXCEPT !.purge = purge, !.floor = floor]
  IN  /\ req[r].pc = "new" /\ now <= LastArrival
      /\ \/ ~purge /\ (Lookup(r, q) \/ Wait(r, q))
         \/ /\ purge
            /\ Fetch(r, q, "BYPASS", TRUE, 0)
            /\ UNCHANGED cacheVars
      /\ UNCHANGED <<now, sourceVars, lastTrue, refresh, floor>>

\* The lock was released, or has outlived its age.
LockReleased(r) ==
  /\ req[r].pc = "waiting"
  /\ Lookup(r, req[r])
  /\ UNCHANGED <<now, sourceVars, lastTrue, refresh, floor>>

\* It was not, for too long: fetch, without storing the answer.
LockTimesOut(r) ==
  /\ req[r].pc = "waiting" /\ req[r].start + LockTimeout <= now
  /\ Fetch(r, req[r], "MISS", FALSE, 0)
  /\ UNCHANGED <<now, sourceVars, lastTrue, cacheVars, refresh, floor>>

\* The renderer computes its answer.
Render(r) ==
  /\ req[r].pc = "fetching"
  /\ Becomes(r, [req[r] EXCEPT !.pc = "rendered", !.out = IF refused THEN "refused" ELSE "seed",
                               !.ans = IF refused THEN 0 ELSE ver])
  /\ UNCHANGED <<now, sourceVars, lastTrue, cacheVars, refresh, floor>>

\* r's request to the renderer is over and stored nothing.  Faulty variant: the
\* flag is cleared by a stored answer only.
ReleaseUpdating_OnStore(r) == UNCHANGED cacheVars
ReleaseUpdating(r) ==
  /\ updating' = IF updating = r THEN None ELSE updating
  /\ UNCHANGED <<entry, lockUntil>>

\* The answer is complete at nginx: stored if it may be, whatever was stored
\* since the request started, and sent to the client.
Complete(r) ==
  LET q == req[r] IN
  /\ q.pc = "rendered"
  /\ Answer(r, q, q.cs, q.out, q.ans)
  /\ \/ /\ q.store /\ cacheable(q.out)
        /\ entry' = [present |-> TRUE, ver |-> q.ans, valid |-> ValidUntil(now)]
        /\ updating' = None
        /\ UNCHANGED lockUntil
     \/ ~(q.store /\ cacheable(q.out)) /\ ReleaseUpdating(r)
  /\ UNCHANGED <<now, sourceVars, lastTrue, refresh, floor>>

\* The renderer failed, or nginx stopped waiting for it.  A refresh falls back on
\* the expired file (proxy_cache_use_stale error timeout http_5xx) unless the
\* answer had begun to reach the client, which then gets a part of it.
UpstreamFails(r) ==
  LET q == req[r] IN
  /\ r \in InFlight
  /\ \/ q.cs = "EXPIRED" /\ Answer(r, q, "STALE", "seed", q.held)
     \/ (q.cs # "EXPIRED" \/ q.pc = "rendered") /\ Answer(r, q, q.cs, "failed", 0)
  /\ ReleaseUpdating(r)
  /\ UNCHANGED <<now, sourceVars, lastTrue, refresh, floor>>

\* The cache manager drops an entry that is not in use (inactive, max_size).
Evict ==
  /\ entry.present /\ \A r \in InFlight : req[r].cs = "BYPASS"
  /\ entry' = NoEntry
  /\ UNCHANGED <<now, sourceVars, lastTrue, updating, lockUntil, req, refresh, floor>>

-----------------------------------------------------------------------------
(***************************************************************************)
(* The world outside nginx.                                                *)
(***************************************************************************)

\* A fetch and a wait for the lock end in time.
Tick ==
  /\ now < MaxTime
  /\ \A r \in InFlight : now < req[r].start + FetchMax
  /\ \A r \in Requests : req[r].pc = "waiting" => now < req[r].start + LockTimeout
  /\ now' = now + 1
  /\ lastTrue' = IF refused THEN lastTrue ELSE [lastTrue EXCEPT ![ver] = now + 1]
  /\ UNCHANGED <<sourceVars, cacheVars, req, refresh, floor>>

\* Netbox changes: the renderer would now answer with another seed ...
Publish ==
  /\ ver < MaxVersion
  /\ ver' = ver + 1 /\ refused' = FALSE
  /\ lastTrue' = [lastTrue EXCEPT ![ver + 1] = now]
  /\ UNCHANGED <<now, cacheVars, req, refresh, floor>>

\* ... or with a refusal.
Withdraw ==
  /\ ~refused /\ refused' = TRUE
  /\ UNCHANGED <<now, ver, lastTrue, cacheVars, req, refresh, floor>>

\* just lab-refresh: the restart puts the synced version into service; the
\* flush that follows finds every answer of the old process already at nginx,
\* which read them while the next ssh connection was being made.
LabRestart ==
  /\ refresh = 0 /\ ver < MaxVersion
  /\ refresh' = ver + 1
  /\ ver' = ver + 1 /\ refused' = FALSE
  /\ lastTrue' = [lastTrue EXCEPT ![ver + 1] = now]
  /\ UNCHANGED <<now, cacheVars, req, floor>>

\* Faulty variant: without the rm.
LabFlush_NoRm ==
  /\ refresh # 0 /\ refresh' = 0 /\ floor' = refresh
  /\ UNCHANGED <<now, sourceVars, lastTrue, cacheVars, req>>
LabFlush ==
  /\ refresh # 0
  /\ \A r \in InFlight : req[r].pc = "rendered" /\ req[r].out = "seed" => req[r].ans >= refresh
  /\ refresh' = 0 /\ floor' = refresh
  /\ entry' = NoEntry
  /\ UNCHANGED <<now, sourceVars, lastTrue, updating, lockUntil, req>>

-----------------------------------------------------------------------------
Next ==
  \/ \E r \in Requests, purge \in BOOLEAN : Arrive(r, purge)
  \/ \E r \in Requests : LockReleased(r)
  \/ \E r \in Requests : LockTimesOut(r)
  \/ \E r \in Requests : Render(r)
  \/ \E r \in Requests : Complete(r)
  \/ \E r \in Requests : UpstreamFails(r)
  \/ Evict
  \/ Tick
  \/ Publish
  \/ Withdraw
  \/ LabRestart
  \/ LabFlush

\* nginx ends every fetch (proxy_read_timeout) and every wait for a lock; nothing
\* obliges the renderer to answer.
Fairness ==
  /\ WF_vars(Tick)
  /\ \A r \in Requests : /\ WF_vars(LockReleased(r) \/ LockTimesOut(r))
                         /\ WF_vars(Complete(r) \/ UpstreamFails(r))

Spec == Init /\ [][Next]_vars /\ Fairness

-----------------------------------------------------------------------------
Statuses == {"none", "HIT", "MISS", "EXPIRED", "UPDATING", "STALE", "BYPASS"}
Request  == [pc : {"new", "waiting", "fetching", "rendered", "done"}, purge : BOOLEAN,
             cs : Statuses, start : Times, store : BOOLEAN, held : 0 .. MaxVersion,
             out : {"none", "seed", "refused", "failed"}, ans : 0 .. MaxVersion,
             floor : 0 .. MaxVersion]

\* The cache is well typed: what is stored is a seed of some version, never an
\* error of the renderer (proxy_cache_valid 200).
TypeOK ==
  /\ now \in Times /\ ver \in Versions /\ refused \in BOOLEAN
  /\ lastTrue \in [Versions -> Times]
  /\ entry \in [present : BOOLEAN, ver : 0 .. MaxVersion, valid : 0 .. MaxTime + TTL]
  /\ entry.present => entry.ver \in Versions
  /\ updating \in Requests \cup {None} /\ lockUntil \in 0 .. MaxTime + LockAge
  /\ req \in [Requests -> Request]
  /\ refresh \in 0 .. MaxVersion /\ floor \in 0 .. MaxVersion

\* This step answers r with a seed.
Served(r) == req[r].pc # "done" /\ req'[r].pc = "done" /\ req'[r].out = "seed"

\* How old a seed can be.  Answered from the renderer, it was true no more than
\* one fetch ago; a HIT, no more than a TTL and a fetch ago, whatever was
\* stored, overtaken, bypassed, evicted or withdrawn in between
\* (proxy_cache_valid, max-age).
FreshAnswers ==
  [][\A r \in Requests :
       LET q == req'[r] IN
       Served(r) =>
         /\ q.cs \in {"MISS", "EXPIRED", "BYPASS"} => lastTrue[q.ans] >= now - FetchMax
         /\ q.cs = "HIT" => lastTrue[q.ans] >= now - (TTL + FetchMax)]_vars

\* The requests one host makes for one seed while it boots and retries do not all
\* fill the entry: of the fetches on behalf of ordinary requests, two that may
\* store run together only when the first has held its lock for too long, or
\* filled an entry that expired (proxy_cache_lock, use_stale updating).  A request
\* whose wait for the lock times out still renders, but never stores what may be
\* older than the entry.  An operator's refresh is excepted.
OneFillAtATime ==
  floor = 0 /\ refresh = 0 /\ (\A r \in Requests : ~req[r].purge) =>
    \A q, r \in InFlight :
      q # r /\ req[q].store /\ req[r].store /\ req[q].start <= req[r].start =>
        \/ req[r].start >= req[q].start + LockAge
        \/ req[r].start > req[q].start + TTL

\* After `just lab-refresh` nobody is served what the old process rendered, from
\* the cache or otherwise (justfile: restart first, then flush).
RefreshTakesEffect ==
  \A r \in Requests :
    req[r].pc = "done" /\ req[r].out = "seed" => req[r].ans >= req[r].floor

\* A refresh that fails does not pin the expired entry: the updating flag is
\* given up, so that a later request refreshes again.
UpdatingReleased == \A r \in Requests : updating = r ~> updating # r

-----------------------------------------------------------------------------
(***************************************************************************)
(* The cache implements SeedServer: to a client it does not matter whether *)
(* it waits for a lock or for the renderer, nor who fills the entry.       *)
(***************************************************************************)
ClientState == [new |-> "idle", waiting |-> "asked", fetching |-> "asked",
                rendered |-> "decided", done |-> "answered"]

\* By when a request in this state is answered.
Due(q) == CASE q.pc = "waiting" -> q.start + LockTimeout + FetchMax
            [] q.pc \in {"fetching", "rendered"} -> q.start + FetchMax
            [] OTHER -> 0

Server == INSTANCE SeedServer WITH
  Clients   <- Requests,
  Staleness <- TTL + FetchMax,
  Patience  <- LockTimeout + FetchMax,
  client    <- [r \in Requests |-> [st |-> ClientState[req[r].pc], due |-> Due(req[r]),
                                    out |-> req[r].out, ans |-> req[r].ans]]

\* A booting host is told, within a lock timeout and a fetch of asking, what was
\* true while it waited or a TTL and a fetch ago, and anything older only if its
\* own fetch failed or another's is under way (nginx.conf.j2, location /v1/).
ImplementsSeedServer == Server!Spec

-----------------------------------------------------------------------------
\* What nginx.conf.j2 says of X-Purge: it forces the key fresh, so who is served
\* from the cache afterwards gets the refreshed entry or a newer one.
PurgeSticks ==
  [][\A p, r \in Requests :
       /\ req[p].pc = "done" /\ req[p].purge /\ req[p].out = "seed"
       /\ Served(r) /\ req'[r].cs = "HIT"
       => req'[r].ans >= req[p].ans]_vars
=============================================================================
