--------------------------- MODULE IdempotencyKeys ---------------------------
(***************************************************************************)
(* One Idempotency-Key of one workspace on one POST route of /v1: the      *)
(* clients that send it and retry, the middleware that claims, completes   *)
(* and releases its record, and the handler it guards.                     *)
(*                                                                         *)
(* The handler of POST /v1/runs is itself keyed: the run row carries the   *)
(* key under a unique index.  The others (shares, webhook endpoints,       *)
(* replays) are not, and have only the record.                             *)
(*                                                                         *)
(* A response is known by the request whose body it answers: that of the   *)
(* request whose handler produced it, or, where the handler found a run    *)
(* under the key, of the request that made the run.  Paths, fingerprints   *)
(* and bodies come down to whether a client sends the same request as the  *)
(* others.                                                                 *)
(***************************************************************************)
EXTENDS Naturals, FiniteSets

CONSTANTS
  Clients,     \* processes that send requests under the key
  Odd,         \* those of them that send a different body
  Attempts,    \* maxRetries + 1 of the SDK
  Mishaps,     \* what may happen: a subset of MishapKinds
  MaxMishaps,  \* bound on how often, the sweep apart
  MaxExpiries, \* bound on how often the record's day passes
  Nobody       \* no request

MishapKinds == {"refuse", "error", "crash", "record", "lost", "sweep"}

ASSUME KeyAssumption ==
  /\ Odd \subseteq Clients /\ IsFiniteSet(Clients)
  /\ Attempts \in Nat \ {0} /\ MaxMishaps \in Nat /\ MaxExpiries \in Nat
  /\ Mishaps \subseteq MishapKinds
  /\ Nobody \notin Clients \X (1..Attempts)

Requests == Clients \X (1..Attempts)

BodyOf(q) == q[1] \in Odd

VARIABLES
  record,    \* the IdempotencyRecord row
  runRow,    \* the Run row with this idempotencyKey; "keyless" on the other routes
  author,    \* the request whose prompt and panel that row has, if there is one
  req,       \* each request: where its handling has got to, and its answer
  client,    \* the SDK call of each client
  made,      \* how often the handler's work was done (history, never read)
  bare,      \* how often a request went on without a record (history, never read)
  expiries,
  mishaps

keysVars == <<record, runRow, author, req, client, made, bare, expiries, mishaps>>

(* The route is POST /v1/runs.                                              *)
Keyed == runRow # "keyless"

Mishap(kind) == kind \in Mishaps /\ mishaps < MaxMishaps /\ mishaps' = mishaps + 1

NoRecord == [status |-> "none", body |-> FALSE, answer |-> "none", from |-> Nobody,
             expired |-> FALSE]

Unsent == [at |-> "unsent", answer |-> "none", from |-> Nobody]

(* The steps of a request that holds the key, or believes it does.          *)
Working == {"work", "insert", "enqueue", "complete", "release"}

RequestAt(q, step) == req' = [req EXCEPT ![q].at = step]

Answer(q, answer, from, step) ==
  req' = [req EXCEPT ![q] = [at |-> step, answer |-> answer, from |-> from]]

-----------------------------------------------------------------------------
(* The SDK. *)

sdkVars == <<record, runRow, author, made, bare, expiries>>

Sent(c) == <<c, client[c].sent>>

Send(c) ==
  /\ client[c].at \in {"idle", "backoff"}
  /\ client' = [client EXCEPT ![c] = [at |-> "waiting", sent |-> client[c].sent + 1]]
  /\ RequestAt(<<c, client[c].sent + 1>>, "claim")
  /\ UNCHANGED mishaps /\ UNCHANGED sdkVars

RetryOrFail(c) ==
  client' = [client EXCEPT ![c].at = IF client[c].sent < Attempts THEN "backoff" ELSE "failed"]

(* A 2xx is returned, a 429 or a 5xx retried, a 409 thrown.                 *)
Hear(c) ==
  /\ client[c].at = "waiting" /\ req[Sent(c)].at = "done"
  /\ \/ req[Sent(c)].answer = "ok" /\ client' = [client EXCEPT ![c].at = "returned"]
     \/ req[Sent(c)].answer \in {"refused", "error"} /\ RetryOrFail(c)
     \/ req[Sent(c)].answer = "conflict" /\ client' = [client EXCEPT ![c].at = "failed"]
  /\ UNCHANGED <<req, mishaps>> /\ UNCHANGED sdkVars

(* A timeout or a lost connection: the request goes on without its client.  *)
HearNothing(c) ==
  /\ client[c].at = "waiting"
  /\ \/ req[Sent(c)].at = "dead" /\ UNCHANGED mishaps
     \/ req[Sent(c)].at # "dead" /\ Mishap("lost")
  /\ RetryOrFail(c)
  /\ UNCHANGED req /\ UNCHANGED sdkVars

-----------------------------------------------------------------------------
(* claimIdempotencyKey. *)

claimVars == <<runRow, author, client, made, expiries, mishaps>>

Claimed(q) == [NoRecord EXCEPT !.status = "IN_FLIGHT", !.body = BodyOf(q)]

(* The insert: the unique index arbitrates.                                 *)
Claim(q) ==
  /\ req[q].at = "claim"
  /\ IF record.status = "none"
       THEN record' = Claimed(q) /\ RequestAt(q, "work")
       ELSE UNCHANGED record /\ RequestAt(q, "read")
  /\ UNCHANGED bare /\ UNCHANGED claimVars

(* What the record says: nothing any more, a day that has passed, another   *)
(* body, a request in progress, a response that was too large, or the one   *)
(* to replay.                                                               *)
ReadRecord(q) ==
  /\ req[q].at = "read"
  /\ \/ record.status = "none" /\ bare' = bare + 1 /\ RequestAt(q, "work")
     \/ record.expired /\ RequestAt(q, "reclaim") /\ UNCHANGED bare
     \/ /\ record.status # "none" /\ ~record.expired
        /\ record.body # BodyOf(q) \/ record.status = "IN_FLIGHT" \/ record.from = Nobody
        /\ Answer(q, "conflict", q, "done") /\ UNCHANGED bare
     \/ /\ record.status = "COMPLETED" /\ ~record.expired
        /\ record.body = BodyOf(q) /\ record.from # Nobody
        /\ Answer(q, record.answer, record.from, "done") /\ UNCHANGED bare
  /\ UNCHANGED record /\ UNCHANGED claimVars

(* The compare-and-swap on expiresAt; its loser is told to wait.            *)
Reclaim(q) ==
  /\ req[q].at = "reclaim"
  /\ IF record.expired
       THEN record' = Claimed(q) /\ RequestAt(q, "work")
       ELSE UNCHANGED record /\ Answer(q, "conflict", q, "done")
  /\ UNCHANGED bare /\ UNCHANGED claimVars

-----------------------------------------------------------------------------
(* The handler. *)

workVars == <<record, client, bare, expiries>>

(* A quota refusal: the error is rendered where it is thrown, so the        *)
(* middleware sees a 429 response and no exception.                         *)
Refuse(q) ==
  /\ req[q].at = "work"
  /\ Mishap("refuse")
  /\ Answer(q, "refused", q, "complete")
  /\ UNCHANGED <<runRow, author, made>> /\ UNCHANGED workVars

HandlerError(q) ==
  /\ req[q].at \in {"work", "insert"}
  /\ Mishap("error")
  /\ Answer(q, "error", q, "release")
  /\ UNCHANGED <<runRow, author, made>> /\ UNCHANGED workVars

Perform(q) ==
  /\ ~Keyed /\ req[q].at = "work"
  /\ made' = made + 1
  /\ Answer(q, "ok", q, "complete")
  /\ UNCHANGED <<runRow, author, mishaps>> /\ UNCHANGED workVars

(* createRunIdempotent: look the key up, then insert. A run that is there    *)
(* is the answer, whatever body made it.                                    *)
FindRun(q) ==
  /\ Keyed /\ req[q].at = "work"
  /\ IF runRow # "none" THEN Answer(q, "ok", author, "complete") ELSE RequestAt(q, "insert")
  /\ UNCHANGED <<runRow, author, made, mishaps>> /\ UNCHANGED workVars

(* Variant: no unique index on the run's key.                               *)
InsertRunAgain(q) ==
  /\ req[q].at = "insert"
  /\ runRow' = "created" /\ author' = q /\ made' = made + 1 /\ RequestAt(q, "enqueue")
  /\ UNCHANGED mishaps /\ UNCHANGED workVars

(* The loser of the unique index reads the winner's run.                    *)
InsertRun(q) ==
  /\ req[q].at = "insert"
  /\ IF runRow = "none"
       THEN runRow' = "created" /\ author' = q /\ made' = made + 1 /\ RequestAt(q, "enqueue")
       ELSE UNCHANGED <<runRow, author, made>> /\ Answer(q, "ok", author, "complete")
  /\ UNCHANGED mishaps /\ UNCHANGED workVars

(* The run's events are published and its jobs queued. Where a step of this  *)
(* fails the request is answered with a 500, and the run is failed, or left *)
(* as it was (nothing queued), or is under way all the same.                *)
EnqueuePanel(q) ==
  /\ req[q].at = "enqueue"
  /\ \/ runRow' = "queued" /\ Answer(q, "ok", q, "complete") /\ UNCHANGED mishaps
     \/ runRow' \in {"created", "queued", "failed"} /\ Answer(q, "error", q, "release") /\ Mishap("error")
  /\ UNCHANGED <<author, made>> /\ UNCHANGED workVars

-----------------------------------------------------------------------------
(* The rest of the middleware. *)

settleVars == <<runRow, author, client, made, bare, expiries>>

(* Whatever the handler answered below 500 is remembered, by key; a body    *)
(* above the cap without it.                                                *)
Complete(q) ==
  /\ req[q].at = "complete"
  /\ record' \in IF record.status = "none" THEN {record}
                 ELSE {[record EXCEPT !.status = "COMPLETED", !.answer = req[q].answer, !.from = f] :
                         f \in IF req[q].answer = "ok" THEN {req[q].from, Nobody} ELSE {req[q].from}}
  /\ RequestAt(q, "done")
  /\ UNCHANGED mishaps /\ UNCHANGED settleVars

(* The write that remembers it fails: the caller gets a 500.                *)
CompleteFails(q) ==
  /\ req[q].at = "complete"
  /\ Mishap("record")
  /\ Answer(q, "error", q, "done")
  /\ UNCHANGED record /\ UNCHANGED settleVars

(* By key again, as long as it is in flight.                                *)
Release(q) ==
  /\ req[q].at = "release"
  /\ record' = IF record.status = "IN_FLIGHT" THEN NoRecord ELSE record
  /\ RequestAt(q, "done")
  /\ UNCHANGED mishaps /\ UNCHANGED settleVars

(* The API process dies.                                                    *)
Crash(q) ==
  /\ req[q].at \in Working \cup {"claim", "read", "reclaim"}
  /\ Mishap("crash")
  /\ RequestAt(q, "dead")
  /\ UNCHANGED record /\ UNCHANGED settleVars

-----------------------------------------------------------------------------
(* A day passes; a request is over long before that.                        *)
Expire ==
  /\ record.status # "none" /\ ~record.expired
  /\ expiries < MaxExpiries /\ expiries' = expiries + 1
  /\ \A q \in Requests : req[q].at \in {"unsent", "done", "dead"}
  /\ record' = [record EXCEPT !.expired = TRUE]
  /\ UNCHANGED <<runRow, author, req, client, made, bare, mishaps>>

(* Variant: only settled records are swept.                                 *)
SweepCompleted ==
  /\ record.expired /\ record.status = "COMPLETED"
  /\ "sweep" \in Mishaps
  /\ record' = NoRecord
  /\ UNCHANGED <<runRow, author, req, client, made, bare, expiries, mishaps>>

(* The worker's retention sweep.                                            *)
Sweep ==
  /\ record.expired
  /\ "sweep" \in Mishaps
  /\ record' = NoRecord
  /\ UNCHANGED <<runRow, author, req, client, made, bare, expiries, mishaps>>

-----------------------------------------------------------------------------
KeysInit ==
  /\ record = NoRecord
  /\ runRow \in {"none", "keyless"} /\ author = Nobody
  /\ req = [q \in Requests |-> Unsent]
  /\ client = [c \in Clients |-> [at |-> "idle", sent |-> 0]]
  /\ made = 0 /\ bare = 0 /\ expiries = 0 /\ mishaps = 0

Handle(q) ==
  \/ Claim(q) \/ ReadRecord(q) \/ Reclaim(q)
  \/ Refuse(q) \/ HandlerError(q) \/ Perform(q) \/ FindRun(q) \/ InsertRun(q) \/ EnqueuePanel(q)
  \/ Complete(q) \/ CompleteFails(q) \/ Release(q)

KeysNext ==
  \/ \E c \in Clients : Send(c) \/ Hear(c) \/ HearNothing(c)
  \/ \E q \in Requests : Handle(q) \/ Crash(q)
  \/ Expire \/ Sweep

KeysSpec == KeysInit /\ [][KeysNext]_keysVars

(* A request that was sent is handled or dies, a client hears, the day      *)
(* passes and the sweep runs. Nobody has to send anything.                  *)
KeysFairness ==
  /\ \A q \in Requests : WF_keysVars(Handle(q))
  /\ \A c \in Clients : WF_keysVars(Hear(c) \/ HearNothing(c))
  /\ WF_keysVars(Expire) /\ WF_keysVars(Sweep)

KeysFairSpec == KeysSpec /\ KeysFairness

-----------------------------------------------------------------------------
(* Types, and that a stored response is the answer its request produced.    *)
KeysTypeOK ==
  /\ record \in [status: {"none", "IN_FLIGHT", "COMPLETED"}, body: BOOLEAN,
                 answer: {"none", "ok", "refused"}, from: Requests \cup {Nobody},
                 expired: BOOLEAN]
  /\ runRow \in {"none", "created", "queued", "failed", "keyless"}
  /\ author \in Requests \cup {Nobody}
  /\ req \in [Requests -> [at: {"unsent", "claim", "read", "reclaim", "done", "dead"} \cup Working,
                           answer: {"none", "ok", "refused", "conflict", "error"},
                           from: Requests \cup {Nobody}]]
  /\ client \in [Clients -> [at: {"idle", "waiting", "backoff", "returned", "failed"},
                             sent: 0..Attempts]]
  /\ made \in Nat /\ bare \in Nat /\ expiries \in 0..MaxExpiries /\ mishaps \in 0..MaxMishaps

(* Whatever is retried, released, expires, is swept or crashes, one key     *)
(* never fans out two panels: the index on the run outlives the record.     *)
OnePanel == Keyed => made <= 1

(* A handler without an index of its own does its work once per day of the  *)
(* key, and again only by way of a request that found the record gone after *)
(* its insert had lost and goes on without one: a crash, a response too     *)
(* large to keep or a record that could not be written refuse the retry     *)
(* instead of repeating the work. (For a response that was too large        *)
(* shared/src/idempotency.ts says both: that the retry is re-executed, at   *)
(* 38-39 and 49, and that it is refused, at 72-79; the code refuses it.)    *)
OncePerDay == ~Keyed => made <= 1 + expiries + bare

(* On POST /v1/runs every success under a key is the one run of the key. It *)
(* was made from the asker's own body, unless the record that would have    *)
(* refused another one was given up: its day passed, or the request that    *)
(* made the run was itself answered with an error and released it. Then a   *)
(* different body is answered with a run it did not ask for, where          *)
(* doc/api/errors.md:77 has it refused. On the other routes a caller never  *)
(* gets the response to a different request. Both hold as long as no        *)
(* request ran without a record: the one that does stores its answer, by    *)
(* key, in whatever record is there by then.                                *)
ReplaysOwnBody ==
  \A q \in Requests :
    /\ Keyed /\ req[q].answer = "ok" => author # Nobody /\ req[q].from = author
    /\ bare = 0 /\ req[q].answer \in {"ok", "refused"} =>
         \/ BodyOf(req[q].from) = BodyOf(q)
         \/ Keyed /\ req[q].answer = "ok" /\ (expiries > 0 \/ req[author].answer = "error")

(* One key is one piece of work (db/src/idempotency.ts,                     *)
(* server/src/v1/idempotency.ts), on either kind of route, and one answer   *)
(* for as long as its record is kept.                                       *)
KeyHolds == OnePanel /\ OncePerDay /\ ReplaysOwnBody

(* A claim left behind by a process that died does not block its key for    *)
(* longer than its day, when the sweep takes it (a claim whose day is not   *)
(* counted any more is left out).                                           *)
ClaimsEnd ==
  []<>(record.status # "IN_FLIGHT" \/ (expiries = MaxExpiries /\ ~record.expired))

-----------------------------------------------------------------------------
(* What the repository says and the code does not do; the property of a run *)
(* that is expected to violate it.                                          *)

(* server/src/v1/idempotency.ts:43: the claim is an insert against a unique *)
(* index, "so exactly one of them wins".                                    *)
OneWinner ==
  \A q1, q2 \in Requests : req[q1].at \in Working /\ req[q2].at \in Working => q1 = q2
=============================================================================
