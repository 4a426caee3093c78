------------------------------- MODULE RateLimit -------------------------------
(***************************************************************************)
(* The sliding-window rate limit of POST /runs: a request of a credential, *)
(* from an address, is charged to the credential's budget and then to the  *)
(* address's. The hits of a budget are in Redis, or, with the local        *)
(* transport, in each replica's memory.                                    *)
(*                                                                         *)
(* Every hit is dated by the clock of the replica that took the request,   *)
(* when it took it; the script that judges it runs later. That a key of    *)
(* Redis expires when its last hit is a window old is left out: whoever    *)
(* looked at it next would find its hits too old.                          *)
(***************************************************************************)
EXTENDS Integers, FiniteSetsExt

CONSTANTS
  Replicas, Credentials, Addresses,
  Window,           \* RATE_LIMIT_WINDOW_MS, in ticks
  TicksPerSecond,
  CredentialLimit, AddressLimit,
  MaxSkew,          \* how far one replica's clock is ahead of another's
  MaxLag,           \* how long a request is under way at most
  LastInstant       \* bound on the time

ASSUME RateLimitAssumption ==
  /\ Replicas # {} /\ Addresses # {}
  /\ Window \in Nat \ {0} /\ TicksPerSecond \in Nat \ {0}
  /\ CredentialLimit \in Nat \ {0} /\ AddressLimit \in Nat \ {0}
  /\ MaxSkew \in Nat /\ MaxLag \in Nat /\ MaxSkew + MaxLag < Window /\ LastInstant \in Nat

VARIABLES
  instant,    \* the time
  transport,  \* RUN_TRANSPORT
  skew,       \* how far each replica's clock is ahead
  hits,       \* the hits of each budget, by store
  request,    \* the request each credential has under way
  admitted    \* what a budget let through of late, by store (history, never read)

rateVars == <<instant, transport, skew, hits, request, admitted>>

Budgets == Credentials \cup Addresses
Stores == {"redis"} \cup Replicas
NoRequest == [at |-> "idle", replica |-> CHOOSE p \in Replicas : TRUE,
              address |-> CHOOSE a \in Addresses : TRUE, now |-> 0, since |-> 0]

limitOf(b) == IF b \in Credentials THEN CredentialLimit ELSE AddressLimit

-----------------------------------------------------------------------------
(* A hit is its date and what tells it from the other hits of that date,    *)
(* the nonce of Redis's members: here, how many came before it.             *)
Dated(log, t) == {h \in log : h.at = t}

Record(log, t) == log \cup {[at |-> t, nth |-> Cardinality(Dated(log, t))]}

After(log, t) == {h \in log : h.at > t}

(* Variant: a hit counts for one tick less.                                 *)
TrimEarly(log, now) == After(log, now - Window + 1)

Trim(log, now) == After(log, now - Window)

Admits(kept, limit) == Cardinality(kept) + 1 <= limit

(* CONSUME_SCRIPT and MemoryRateLimiter.consume, for a cost of one: only an *)
(* admitted request is a hit.                                               *)
consumed(log, now, limit) ==
  LET kept == Trim(log, now)
  IN [allowed |-> Admits(kept, limit), kept |-> IF Admits(kept, limit) THEN Record(kept, now) ELSE kept]

(* When the oldest hit falls out of the window, in whole seconds from now.  *)
resetAt(kept, now) ==
  Window + IF kept = {} THEN now ELSE Min({h.at : h \in kept})

retryAfterSeconds(kept, now) ==
  LET wait == resetAt(kept, now) - now
  IN IF wait <= 0 THEN 1 ELSE (wait + TicksPerSecond - 1) \div TicksPerSecond

-----------------------------------------------------------------------------
rateLimiter(p) == IF transport = "redis" THEN "redis" ELSE p

(* The middleware reads its clock once.                                     *)
Take(c, p, a) ==
  /\ request[c].at = "idle"
  /\ request' = [request EXCEPT ![c] =
       [at |-> "credential", replica |-> p, address |-> a, now |-> instant + skew[p],
        since |-> instant]]
  /\ UNCHANGED <<instant, transport, skew, hits, admitted>>

(* One budget: both are charged, whatever the first one says.               *)
Consume(c, b, next) ==
  LET store == rateLimiter(request[c].replica)
      result == consumed(hits[store][b], request[c].now, limitOf(b))
  IN /\ hits' = [hits EXCEPT ![store][b] = result.kept]
     /\ admitted' = [admitted EXCEPT ![store][b] = IF result.allowed THEN Record(@, instant) ELSE @]
     /\ request' = [request EXCEPT ![c] =
          IF next = "idle" THEN NoRequest ELSE [@ EXCEPT !.at = next]]
     /\ UNCHANGED <<instant, transport, skew>>

ConsumeCredential(c) == request[c].at = "credential" /\ Consume(c, c, "address")

ConsumeAddress(c) == request[c].at = "address" /\ Consume(c, request[c].address, "idle")

(* Redis fails: the request fails with it.                                  *)
ConsumeFails(c) ==
  /\ request[c].at # "idle" /\ transport = "redis"
  /\ request' = [request EXCEPT ![c] = NoRequest]
  /\ UNCHANGED <<instant, transport, skew, hits, admitted>>

Passes ==
  /\ instant < LastInstant
  /\ \A c \in Credentials : request[c].at # "idle" => instant - request[c].since < MaxLag
  /\ instant' = instant + 1
  /\ admitted' = [store \in Stores |-> [b \in Budgets |->
       After(admitted[store][b], instant' - (Window - MaxSkew - MaxLag))]]
  /\ UNCHANGED <<transport, skew, hits, request>>

RateInit ==
  /\ instant = 0
  /\ transport \in {"redis", "local"}
  /\ skew \in [Replicas -> 0..MaxSkew] /\ skew[CHOOSE p \in Replicas : TRUE] = 0
  /\ hits = [s \in Stores |-> [b \in Budgets |-> {}]]
  /\ request = [c \in Credentials |-> NoRequest]
  /\ admitted = [s \in Stores |-> [b \in Budgets |-> {}]]

RateNext ==
  \/ \E c \in Credentials :
       \/ \E p \in Replicas, a \in Addresses : Take(c, p, a)
       \/ ConsumeCredential(c) \/ ConsumeAddress(c) \/ ConsumeFails(c)
  \/ Passes

RateSpec == RateInit /\ [][RateNext]_rateVars

(* Types, and that nothing is dated ahead of the clock that is furthest on. *)
RateTypeOK ==
  /\ instant \in 0..LastInstant /\ transport \in {"redis", "local"}
  /\ skew \in [Replicas -> 0..MaxSkew]
  /\ hits \in [Stores -> [Budgets -> SUBSET [at: 0..(instant + MaxSkew), nth: Nat]]]
  /\ request \in [Credentials ->
       [at: {"idle", "credential", "address"}, replica: Replicas, address: Addresses,
        now: 0..(instant + MaxSkew), since: 0..instant]]
  /\ admitted \in [Stores -> [Budgets -> SUBSET [at: 0..instant, nth: Nat]]]

(* However requests overlap, reach different replicas or overtake each      *)
(* other, no budget admits more than its limit in a window, shorter than    *)
(* the configured one by what clocks and delays take from it: all replicas  *)
(* together when there is a Redis, each by itself when there is none        *)
(* (queue/src/ratelimit.ts: "two API instances cannot both read 'one slot   *)
(* left' and both take it").                                                *)
WindowHolds ==
  \A store \in Stores, b \in Budgets : Cardinality(admitted[store][b]) <= limitOf(b)

(* A caller that is refused and waits as long as it was told is admitted,   *)
(* if nobody used the budget meanwhile, however full it is and whatever the *)
(* rounding (shared/ratelimit.ts, toRateLimitState).                        *)
RetryAfterIsEnough ==
  \A store \in Stores, b \in Budgets : hits[store][b] # {} => \A now \in 0..LastInstant :
    LET kept == Trim(hits[store][b], now)
        later == now + retryAfterSeconds(kept, now) * TicksPerSecond
    IN ~Admits(kept, limitOf(b)) => Admits(Trim(kept, later), limitOf(b))

(* The two budgets hold (server/src/rate-limit.ts): what they let through,  *)
(* and what they tell a client that they refuse.                            *)
LimitsHold == WindowHolds /\ RetryAfterIsEnough
=============================================================================
