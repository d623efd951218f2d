------------------------------ MODULE SeedServer ------------------------------
(***************************************************************************)
(* What the seed server promises a booting host, without a cache: how old  *)
(* the seed is it gets, when it may be told a refusal or a failure, and by *)
(* when it is told.  SeedCache implements this specification.              *)
(*                                                                         *)
(* A client asks for one seed.  Behind the server is a renderer with a     *)
(* current version, which may be withdrawn (refused).                      *)
(***************************************************************************)
EXTENDS Integers

CONSTANTS
  Clients,    \* each asks once
  MaxVersion, \* bound on the versions
  MaxTime,    \* bound on the clock
  Staleness,  \* age of a seed the server may hand out of its store
  Patience    \* time within which a client is answered

VARIABLES
  now,      \* the clock
  ver,      \* the version the renderer answers with
  refused,  \* whether it refuses instead
  lastTrue, \* when each version was last what the renderer answers with
  client    \* state, deadline and answer of each client

world == <<now, ver, refused, lastTrue>>
vars  == <<world, client>>

Versions == 1 .. MaxVersion
Idle     == [st |-> "idle", due |-> 0, out |-> "none", ans |-> 0]

Init ==
  /\ now = 0 /\ ver = 1 /\ refused = FALSE
  /\ lastTrue = [v \in Versions |-> 0]
  /\ client = [c \in Clients |-> Idle]

-----------------------------------------------------------------------------
Pending == {c \in Clients : client[c].st \in {"asked", "decided"}}

Becomes(c, k) == client' = [client EXCEPT ![c] = k] /\ UNCHANGED world
Told(c, out, v) ==
  Becomes(c, [st |-> "answered", due |-> 0, out |-> out, ans |-> v])

\* A client asks, and is promised an answer by some time.
Ask(c) ==
  /\ client[c].st = "idle"
  /\ \E d \in now .. now + Patience : Becomes(c, [Idle EXCEPT !.st = "asked", !.due = d])

\* The promise is only ever brought forward.
Sooner(c) ==
  /\ client[c].st = "asked"
  /\ \E d \in now .. client[c].due : Becomes(c, [client[c] EXCEPT !.due = d])

\* The renderer decides what to tell it, by what is true at that instant ...
Decide(c) ==
  /\ client[c].st = "asked"
  /\ Becomes(c, [client[c] EXCEPT !.st = "decided", !.out = IF refused THEN "refused" ELSE "seed",
                                  !.ans = IF refused THEN 0 ELSE ver])

\* ... and it is told that.
Reply(c) ==
  /\ client[c].st = "decided"
  /\ Told(c, client[c].out, client[c].ans)

\* Or it gets a seed from the store, recent enough.
FromStore(c) ==
  /\ client[c].st \in {"idle", "asked"}
  /\ \E v \in 1 .. ver : lastTrue[v] >= now - Staleness /\ Told(c, "seed", v)

\* An older one is for a client whose own question was not answered in time, or
\* who comes while another is being asked for.
Degraded(c) ==
  /\ c \in Pending \/ (client[c].st = "idle" /\ Pending # {})
  /\ \E v \in 1 .. ver : Told(c, "seed", v)

Fail(c) ==
  /\ c \in Pending
  /\ Told(c, "failed", 0)

-----------------------------------------------------------------------------
\* Time does not pass a promise.
Tick ==
  /\ now < MaxTime
  /\ \A c \in Pending : now < client[c].due
  /\ now' = now + 1
  /\ lastTrue' = IF refused THEN lastTrue ELSE [lastTrue EXCEPT ![ver] = now + 1]
  /\ UNCHANGED <<ver, refused, client>>

Publish ==
  /\ ver < MaxVersion
  /\ ver' = ver + 1 /\ refused' = FALSE
  /\ lastTrue' = [lastTrue EXCEPT ![ver + 1] = now]
  /\ UNCHANGED <<now, client>>

Withdraw ==
  /\ ~refused /\ refused' = TRUE
  /\ UNCHANGED <<now, ver, lastTrue, client>>

Next ==
  \/ \E c \in Clients : \/ Ask(c) \/ Sooner(c) \/ Decide(c) \/ Reply(c)
                        \/ FromStore(c) \/ Degraded(c) \/ Fail(c)
  \/ Tick
  \/ Publish
  \/ Withdraw

\* Who asks is answered, whatever becomes of the renderer.
Answers == \A c \in Clients : client[c].st = "asked" ~> client[c].st = "answered"

Safety == Init /\ [][Next]_vars
Spec   == Safety /\ Answers
=============================================================================
