------------------------ MODULE IdempotencyKeysProofs ------------------------
(****************************************************************************)
(* The safety properties of IdempotencyKeys, for any clients, attempts,     *)
(* mishaps and days.                                                        *)
(*                                                                          *)
(* A request works by a grant: the record it inserted, the expired one it   *)
(* took over, or nothing, when it found the record gone. On a route with    *)
(* no index of its own the grants are counted; on POST /v1/runs the row of  *)
(* the run says whether the work was done, and its author is the answer to  *)
(* all. While no request worked without a record the one that works holds   *)
(* it, and its body is the record's; and until the record is given up that  *)
(* body is the one the run was made from.                                   *)
(*                                                                          *)
(* And the safety of Metering, for any tenants, models, sweepers and days:  *)
(* a report never says more than the records.                               *)
(****************************************************************************)
EXTENDS IdempotencyKeys, Metering, FiniteSetTheorems, WellFoundedInduction, TLAPS

USE KeyAssumption

Records == [status: {"none", "IN_FLIGHT", "COMPLETED"}, body: BOOLEAN,
            answer: {"none", "ok", "refused"}, from: Requests \cup {Nobody},
            expired: BOOLEAN]

Handlings == [at: {"unsent", "claim", "read", "reclaim", "done", "dead"} \cup Working,
              answer: {"none", "ok", "refused", "conflict", "error"},
              from: Requests \cup {Nobody}]

Calls == [at: {"idle", "waiting", "backoff", "returned", "failed"}, sent: 0..Attempts]

(* A client that sends again has an attempt left; a response that is        *)
(* stored, or about to be, is a success or a refusal.                       *)
SettledInv ==
  /\ \A c \in Clients : client[c].at \in {"idle", "backoff"} => client[c].sent < Attempts
  /\ \A q \in Requests : req[q].at = "complete" => req[q].answer \in {"ok", "refused"}
  /\ record.status = "COMPLETED" => record.answer \in {"ok", "refused"}
  /\ record.expired => record.status # "none" /\ expiries > 0

(* A request is answered once, and released over an error; what its client  *)
(* did not send yet is not answered.                                        *)
AnsweredInv ==
  /\ \A q \in Requests :
       /\ req[q].answer # "none" => req[q].at \in {"complete", "release", "done", "dead"}
       /\ req[q].at = "release" => req[q].answer = "error"
  /\ \A c \in Clients, n \in 1..Attempts : n > client[c].sent => req[<<c, n>>].at = "unsent"

(* The index on the run: the row is there as soon as the work is done, and  *)
(* before a request goes on from it, and is what every success answers.     *)
RunInv ==
  /\ Keyed => made = (IF runRow = "none" THEN 0 ELSE 1) /\ (author = Nobody <=> runRow = "none")
  /\ \A q \in Requests : req[q].at = "enqueue" => runRow \notin {"none", "keyless"} /\ author = q
  /\ \A q \in Requests : req[q].at = "insert" => Keyed
  /\ Keyed => /\ \A q \in Requests : req[q].answer = "ok" => author # Nobody /\ req[q].from = author
              /\ record.answer = "ok" /\ record.from # Nobody => record.from = author

(* The requests that hold a grant and have not used it.                     *)
Granted == {q \in Requests : req[q].at \in {"work", "release"}}

(* Whether the record is there to be claimed.                               *)
Claimable == IF record.status = "none" \/ record.expired THEN 1 ELSE 0

(* Every piece of work and every grant was paid for: by the first claim, by *)
(* a day that passed, or by a request that went on without a record.        *)
GrantInv == ~Keyed => made + Cardinality(Granted) + Claimable <= 1 + expiries + bare

(* The record under which the run was made was given up.                    *)
Lapsed == expiries > 0 \/ (author # Nobody /\ req[author].answer = "error")

(* While every request had a record, at most one works, on a record that is *)
(* its own; and a stored response is the answer to the body of its record,  *)
(* or the run another body made before the record lapsed.                   *)
HolderInv ==
  bare = 0 =>
    /\ \A q \in Requests : req[q].at \in Working =>
         /\ record.status # "none" /\ ~record.expired /\ record.body = BodyOf(q)
         /\ \A p \in Requests : req[p].at \in Working => p = q
    /\ \A q \in Requests : req[q].answer \in {"ok", "refused"} =>
         /\ req[q].from \in Requests
         /\ BodyOf(req[q].from) = BodyOf(q) \/ (Keyed /\ req[q].answer = "ok" /\ Lapsed)
    /\ record.status = "COMPLETED" /\ record.from # Nobody =>
         /\ record.from \in Requests
         /\ BodyOf(record.from) = record.body \/ (Keyed /\ record.answer = "ok" /\ Lapsed)

(* Until then the record has the body of the run, and nobody works after    *)
(* its author.                                                              *)
AuthorInv ==
  bare = 0 /\ Keyed /\ author # Nobody /\ ~Lapsed =>
    /\ record.status # "none" /\ ~record.expired /\ record.body = BodyOf(author)
    /\ req[author].at \notin Working => \A q \in Requests : req[q].at \notin Working

KeysInv ==
  KeysTypeOK /\ SettledInv /\ AnsweredInv /\ RunInv /\ GrantInv /\ HolderInv /\ AuthorInv

-----------------------------------------------------------------------------
(* KeysTypeOK, with its parts named.                                        *)
LEMMA Types ==
  KeysTypeOK <=>
    /\ record \in Records /\ runRow \in {"none", "created", "queued", "failed", "keyless"}
    /\ author \in Requests \cup {Nobody}
    /\ req \in [Requests -> Handlings] /\ client \in [Clients -> Calls]
    /\ made \in Nat /\ bare \in Nat /\ expiries \in 0..MaxExpiries /\ mishaps \in 0..MaxMishaps
BY DEF KeysTypeOK, Records, Handlings, Calls

(* The records and answers the code writes.                                 *)
LEMMA WrittenTypes ==
  /\ NoRecord \in Records /\ NoRecord.status = "none" /\ ~NoRecord.expired /\ NoRecord.answer = "none"
  /\ \A q \in Requests : /\ Claimed(q) \in Records /\ Claimed(q).status = "IN_FLIGHT"
                         /\ ~Claimed(q).expired /\ Claimed(q).body = BodyOf(q) /\ Claimed(q).answer = "none"
                         /\ BodyOf(q) \in BOOLEAN
  <1>1. /\ NoRecord \in Records /\ NoRecord.status = "none" /\ ~NoRecord.expired /\ NoRecord.answer = "none"
        /\ NoRecord = [status |-> "none", body |-> FALSE, answer |-> "none", from |-> Nobody, expired |-> FALSE]
    BY DEF NoRecord, Records
  <1>2. ASSUME NEW q \in Requests
        PROVE  /\ Claimed(q) \in Records /\ Claimed(q).status = "IN_FLIGHT"
               /\ ~Claimed(q).expired /\ Claimed(q).body = BodyOf(q) /\ Claimed(q).answer = "none"
               /\ BodyOf(q) \in BOOLEAN
    <2>1. BodyOf(q) \in BOOLEAN
      BY DEF BodyOf
    <2>2. \A b \in BOOLEAN : /\ [NoRecord EXCEPT !.status = "IN_FLIGHT", !.body = b] \in Records
                              /\ [NoRecord EXCEPT !.status = "IN_FLIGHT", !.body = b].status = "IN_FLIGHT"
                              /\ ~[NoRecord EXCEPT !.status = "IN_FLIGHT", !.body = b].expired
                              /\ [NoRecord EXCEPT !.status = "IN_FLIGHT", !.body = b].body = b
                              /\ [NoRecord EXCEPT !.status = "IN_FLIGHT", !.body = b].answer = "none"
      BY <1>1 DEF Records
    <2>. QED  BY <2>1, <2>2, Zenon DEF Claimed
  <1>. QED  BY <1>1, <1>2

(* A step of a handler moves one request. *)
LEMMA MoveTypes ==
  ASSUME KeysTypeOK, NEW q \in Requests
  PROVE  /\ \A step \in {"claim", "read", "reclaim", "done", "dead"} \cup Working :
              RequestAt(q, step) =>
                /\ req' \in [Requests -> Handlings]
                /\ req'[q].at = step /\ req'[q].answer = req[q].answer /\ req'[q].from = req[q].from
                /\ \A p \in Requests : p # q => req'[p] = req[p]
         /\ \A answer \in {"ok", "refused", "conflict", "error"}, from \in Requests \cup {Nobody},
               step \in {"done", "complete", "release"} :
              Answer(q, answer, from, step) =>
                /\ req' \in [Requests -> Handlings]
                /\ req'[q].at = step /\ req'[q].answer = answer /\ req'[q].from = from
                /\ \A p \in Requests : p # q => req'[p] = req[p]
  <1>. req \in [Requests -> Handlings]
    BY Types
  <1>1. ASSUME NEW step \in {"claim", "read", "reclaim", "done", "dead"} \cup Working, RequestAt(q, step)
        PROVE  /\ req' \in [Requests -> Handlings]
               /\ req'[q].at = step /\ req'[q].answer = req[q].answer /\ req'[q].from = req[q].from
               /\ \A p \in Requests : p # q => req'[p] = req[p]
    <2>. DEFINE x == [req[q] EXCEPT !.at = step]
    <2>1. x \in Handlings /\ x.at = step /\ x.answer = req[q].answer /\ x.from = req[q].from
      BY DEF Handlings
    <2>2. req' = [req EXCEPT ![q] = x]
      BY <1>1 DEF RequestAt
    <2>. HIDE DEF x
    <2>. QED  BY <2>1, <2>2
  <1>2. ASSUME NEW answer \in {"ok", "refused", "conflict", "error"}, NEW from \in Requests \cup {Nobody},
               NEW step \in {"done", "complete", "release"}, Answer(q, answer, from, step)
        PROVE  /\ req' \in [Requests -> Handlings]
               /\ req'[q].at = step /\ req'[q].answer = answer /\ req'[q].from = from
               /\ \A p \in Requests : p # q => req'[p] = req[p]
    <2>. DEFINE x == [at |-> step, answer |-> answer, from |-> from]
    <2>1. x \in Handlings /\ x.at = step /\ x.answer = answer /\ x.from = from
      BY DEF Handlings, Working
    <2>2. req' = [req EXCEPT ![q] = x]
      BY <1>2 DEF Answer
    <2>. HIDE DEF x
    <2>. QED  BY <2>1, <2>2
  <1>. QED  BY <1>1, <1>2

(* What a completion writes: the answer, in whatever record is there. *)
LEMMA Completed ==
  ASSUME KeysTypeOK, NEW q \in Requests, Complete(q)
  PROVE  /\ record.status = "none" => record' = record
         /\ record.status # "none" =>
              /\ record' = [record EXCEPT !.status = "COMPLETED", !.answer = req[q].answer, !.from = record'.from]
              /\ record'.status = "COMPLETED" /\ record'.answer = req[q].answer
              /\ record'.body = record.body /\ record'.expired = record.expired
              /\ record'.from \in {req[q].from, Nobody}
  <1>. record \in Records
    BY Types
  <1>. DEFINE from == IF req[q].answer = "ok" THEN {req[q].from, Nobody} ELSE {req[q].from}
  <1>1. record' \in IF record.status = "none" THEN {record}
                    ELSE {[record EXCEPT !.status = "COMPLETED", !.answer = req[q].answer, !.from = f] : f \in from}
    BY Zenon DEF Complete
  <1>2. from \subseteq {req[q].from, Nobody}
    OBVIOUS
  <1>. HIDE DEF from
  <1>3. ASSUME record.status = "none" PROVE record' = record
    BY <1>1, <1>3
  <1>4. ASSUME record.status # "none"
        PROVE  /\ record' = [record EXCEPT !.status = "COMPLETED", !.answer = req[q].answer, !.from = record'.from]
               /\ record'.status = "COMPLETED" /\ record'.answer = req[q].answer
               /\ record'.body = record.body /\ record'.expired = record.expired
               /\ record'.from \in {req[q].from, Nobody}
    <2>1. PICK f \in from : record' = [record EXCEPT !.status = "COMPLETED", !.answer = req[q].answer, !.from = f]
      BY <1>1, <1>4, Zenon
    <2>. QED  BY <1>2, <2>1 DEF Records
  <1>. QED  BY <1>3, <1>4

(* What each step of the handling of a request does to it and to the record. *)
LEMMA Handled ==
  ASSUME KeysTypeOK, SettledInv, NEW q \in Requests, Handle(q) \/ Crash(q)
  PROVE  /\ record' \in Records /\ req' \in [Requests -> Handlings]
         /\ \A p \in Requests : p # q => req'[p] = req[p]
         /\ UNCHANGED <<client, expiries>>
         /\ req'[q].at \in {"work", "insert", "enqueue", "complete", "release", "read", "reclaim", "done", "dead"}
         /\ mishaps' \in 0..MaxMishaps /\ bare' \in Nat /\ made' \in Nat
         /\ runRow' \in {"none", "created", "queued", "failed", "keyless"}
         /\ author' \in Requests \cup {Nobody}
  <1>. /\ record \in Records /\ req \in [Requests -> Handlings] /\ req[q] \in Handlings
       /\ runRow \in {"none", "created", "queued", "failed", "keyless"}
       /\ author \in Requests \cup {Nobody} /\ req[q].from \in Requests \cup {Nobody}
       /\ made \in Nat /\ bare \in Nat /\ mishaps \in 0..MaxMishaps /\ MaxMishaps \in Nat
    BY Types DEF Handlings
  <1>0. \A kind : Mishap(kind) => mishaps' \in 0..MaxMishaps
    BY DEF Mishap
  <1>. USE DEF Working
  <1>1. CASE Claim(q)
    BY <1>1, MoveTypes, WrittenTypes DEF Claim, claimVars
  <1>2. CASE ReadRecord(q)
    <2>1. record.status = "COMPLETED" => record.answer \in {"ok", "refused"}
      BY DEF SettledInv
    <2>2. record.from \in Requests \cup {Nobody}
      BY DEF Records
    <2>. QED  BY <1>2, <2>1, <2>2, MoveTypes DEF ReadRecord, claimVars
  <1>3. CASE Reclaim(q)
    BY <1>3, MoveTypes, WrittenTypes DEF Reclaim, claimVars
  <1>4. CASE Refuse(q) \/ HandlerError(q)
    BY <1>0, <1>4, MoveTypes DEF Refuse, HandlerError, workVars
  <1>5. CASE Perform(q) \/ FindRun(q) \/ InsertRun(q)
    BY <1>5, MoveTypes DEF Perform, FindRun, InsertRun, workVars
  <1>6. CASE EnqueuePanel(q)
    BY <1>0, <1>6, MoveTypes DEF EnqueuePanel, workVars
  <1>7. CASE Complete(q)
    <2>2. req[q].at = "complete" /\ RequestAt(q, "done") /\ UNCHANGED mishaps /\ UNCHANGED settleVars
      BY <1>7, Zenon DEF Complete
    <2>3. req[q].answer \in {"ok", "refused"}
      BY <2>2 DEF SettledInv
    <2>8. record' \in Records
      <3>. DEFINE f == record'.from
      <3>1. \/ record' = record
            \/ /\ record' = [record EXCEPT !.status = "COMPLETED", !.answer = req[q].answer, !.from = f]
               /\ f \in Requests \cup {Nobody}
        <4>1. /\ record.status = "none" => record' = record
              /\ record.status # "none" =>
                   /\ record' = [record EXCEPT !.status = "COMPLETED", !.answer = req[q].answer, !.from = f]
                   /\ f \in {req[q].from, Nobody}
          BY <1>7, Completed, Zenon
        <4>. HIDE DEF f
        <4>. QED  BY <4>1
      <3>. HIDE DEF f
      <3>. QED  BY <2>3, <3>1 DEF Records
    <2>. QED  BY <2>2, <2>8, MoveTypes DEF settleVars
  <1>8. CASE CompleteFails(q) \/ Release(q) \/ Crash(q)
    BY <1>0, <1>8, MoveTypes, WrittenTypes DEF CompleteFails, Release, Crash, settleVars
  <1>. QED  BY <1>1, <1>2, <1>3, <1>4, <1>5, <1>6, <1>7, <1>8 DEF Handle

(* What the clients do. *)
LEMMA Called ==
  ASSUME KeysTypeOK, SettledInv, NEW c \in Clients, Send(c) \/ Hear(c) \/ HearNothing(c)
  PROVE  /\ client' \in [Clients -> Calls] /\ req' \in [Requests -> Handlings]
         /\ \A d \in Clients : client'[d].at \in {"idle", "backoff"} => client'[d].sent < Attempts
         /\ \A q \in Requests : \/ req'[q] = req[q]
                                \/ /\ req'[q].at = "claim" /\ req'[q].answer = req[q].answer
                                   /\ req'[q].from = req[q].from
                                   /\ \E n \in 1..Attempts : q = <<c, n>> /\ n > client[c].sent /\ n <= client'[c].sent
         /\ \A d \in Clients : client'[d].sent >= client[d].sent
         /\ UNCHANGED <<record, runRow, author, made, bare, expiries>> /\ mishaps' \in 0..MaxMishaps
  <1>. /\ client \in [Clients -> Calls] /\ client[c] \in Calls
       /\ mishaps \in 0..MaxMishaps /\ MaxMishaps \in Nat /\ Attempts \in Nat /\ req \in [Requests -> Handlings]
       /\ \A d \in Clients : client[d].at \in {"idle", "backoff"} => client[d].sent < Attempts
    BY Types DEF SettledInv
  <1>1. \A kind : Mishap(kind) => mishaps' \in 0..MaxMishaps
    BY DEF Mishap
  <1>2. ASSUME NEW x \in Calls, client' = [client EXCEPT ![c] = x],
               x.at \in {"idle", "backoff"} => x.sent < Attempts, x.sent >= client[c].sent
        PROVE  /\ client' \in [Clients -> Calls]
               /\ \A d \in Clients : client'[d].sent >= client[d].sent
               /\ \A d \in Clients : client'[d].at \in {"idle", "backoff"} => client'[d].sent < Attempts
    <2>1. \A d \in Clients : client[d].sent \in 0..Attempts
      BY DEF Calls
    <2>. QED  BY <1>2, <2>1
  <1>3. ASSUME NEW at \in {"returned", "failed", "backoff"}, client' = [client EXCEPT ![c].at = at],
               at = "backoff" => client[c].sent < Attempts
        PROVE  /\ client' \in [Clients -> Calls]
               /\ \A d \in Clients : client'[d].sent >= client[d].sent
               /\ \A d \in Clients : client'[d].at \in {"idle", "backoff"} => client'[d].sent < Attempts
    <2>. DEFINE x == [client[c] EXCEPT !.at = at]
    <2>1. /\ client' = [client EXCEPT ![c] = x] /\ x \in Calls
          /\ x.at \in {"idle", "backoff"} => x.sent < Attempts
          /\ x.sent >= client[c].sent
      BY <1>3 DEF Calls
    <2>. HIDE DEF x
    <2>. QED  BY <1>2, <2>1
  <1>4. CASE Send(c)
    <2>. DEFINE q == <<c, client[c].sent + 1>>
                x == [at |-> "waiting", sent |-> client[c].sent + 1]
    <2>1. client[c].sent + 1 \in 1..Attempts
      BY <1>4 DEF Send, Calls
    <2>2. q \in Requests /\ x \in Calls /\ x.at = "waiting"
      BY <2>1 DEF Requests, Calls
    <2>6. /\ \E n \in 1..Attempts : q = <<c, n>> /\ n > client[c].sent /\ n <= x.sent
          /\ x.sent >= client[c].sent
      BY <2>1 DEF Calls
    <2>3. client' = [client EXCEPT ![c] = x] /\ RequestAt(q, "claim")
      BY <1>4 DEF Send
    <2>4. UNCHANGED <<record, runRow, author, made, bare, expiries, mishaps>>
      BY <1>4 DEF Send, sdkVars
    <2>7. client'[c] = x
      BY <2>3
    <2>. HIDE DEF q, x
    <2>5. /\ req' \in [Requests -> Handlings]
          /\ req'[q].at = "claim" /\ req'[q].answer = req[q].answer /\ req'[q].from = req[q].from
          /\ \A p \in Requests : p # q => req'[p] = req[p]
      BY <2>2, <2>3, MoveTypes
    <2>. QED  BY <1>2, <2>2, <2>3, <2>4, <2>5, <2>6, <2>7
  <1>5. CASE Hear(c) \/ HearNothing(c)
    BY <1>1, <1>3, <1>5 DEF Hear, HearNothing, RetryOrFail, sdkVars
  <1>. QED  BY <1>4, <1>5

(* Every step keeps the types.                                              *)
LEMMA TypeStep ==
  ASSUME KeysTypeOK, SettledInv, KeysNext
  PROVE  KeysTypeOK'
  <1>. /\ record \in Records /\ runRow \in {"none", "created", "queued", "failed", "keyless"}
       /\ author \in Requests \cup {Nobody}
       /\ req \in [Requests -> Handlings] /\ client \in [Clients -> Calls]
       /\ made \in Nat /\ bare \in Nat /\ expiries \in 0..MaxExpiries /\ mishaps \in 0..MaxMishaps
       /\ MaxExpiries \in Nat
    BY Types
  <1>0. KeysTypeOK' <=>
          /\ record' \in Records /\ runRow' \in {"none", "created", "queued", "failed", "keyless"}
          /\ author' \in Requests \cup {Nobody}
          /\ req' \in [Requests -> Handlings] /\ client' \in [Clients -> Calls]
          /\ made' \in Nat /\ bare' \in Nat /\ expiries' \in 0..MaxExpiries /\ mishaps' \in 0..MaxMishaps
    BY DEF KeysTypeOK, Records, Handlings, Calls
  <1>1. ASSUME NEW c \in Clients, Send(c) \/ Hear(c) \/ HearNothing(c) PROVE KeysTypeOK'
    BY <1>0, <1>1, Called
  <1>2. ASSUME NEW q \in Requests, Handle(q) \/ Crash(q) PROVE KeysTypeOK'
    BY <1>0, <1>2, Handled
  <1>3. CASE Expire
    <2>1. [record EXCEPT !.expired = TRUE] \in Records
      BY DEF Records
    <2>. QED  BY <1>0, <1>3, <2>1 DEF Expire
  <1>4. CASE Sweep
    BY <1>0, <1>4, WrittenTypes DEF Sweep
  <1>. QED  BY <1>1, <1>2, <1>3, <1>4 DEF KeysNext

(* The steps of a request, one disjunct each: from where to where, with     *)
(* which answer, and what they do to the record and to the work.            *)
Moves(q, from, to) == req[q].at = from /\ req'[q].at = to

Silently(q) == req'[q].answer = req[q].answer /\ req'[q].from = req[q].from

WithOwn(q, answer) == req'[q].answer = answer /\ req'[q].from = q

WithTheRun(q) == req'[q].answer = "ok" /\ req'[q].from = author

Transition(q) ==
  \/ /\ Silently(q) /\ UNCHANGED <<runRow, author, made>>
     /\ \/ /\ Moves(q, "claim", "work") /\ record.status = "none"
           /\ record' = Claimed(q) /\ bare' = bare
        \/ Moves(q, "claim", "read") /\ UNCHANGED <<record, bare>>
        \/ Moves(q, "read", "work") /\ bare' = bare + 1 /\ record' = record
        \/ Moves(q, "read", "reclaim") /\ UNCHANGED <<record, bare>>
        \/ Moves(q, "reclaim", "work") /\ record.expired /\ record' = Claimed(q) /\ bare' = bare
        \/ /\ Moves(q, "complete", "done") /\ bare' = bare /\ req[q].answer \in {"ok", "refused"}
           /\ \/ record.status = "none" /\ record' = record
              \/ /\ record.status # "none" /\ record'.status = "COMPLETED" /\ record'.answer = req[q].answer
                 /\ record'.body = record.body /\ record'.expired = record.expired
                 /\ record'.from \in {req[q].from, Nobody}
        \/ /\ Moves(q, "release", "done") /\ bare' = bare
           /\ record' = record \/ (record.status = "IN_FLIGHT" /\ record' = NoRecord)
        \/ /\ req'[q].at = "dead" /\ UNCHANGED <<record, bare>>
           /\ req[q].at \in Working \cup {"claim", "read", "reclaim"}
        \/ Moves(q, "work", "insert") /\ Keyed /\ UNCHANGED <<record, bare>>
  \/ /\ UNCHANGED <<record, runRow, author, made, bare>>
     /\ \/ req[q].at \in {"read", "reclaim"} /\ req'[q].at = "done" /\ WithOwn(q, "conflict")
        \/ /\ Moves(q, "read", "done") /\ req'[q].answer = record.answer /\ req'[q].from = record.from
           /\ record.status = "COMPLETED" /\ record.body = BodyOf(q) /\ record.from # Nobody
        \/ Moves(q, "work", "complete") /\ WithOwn(q, "refused")
        \/ Moves(q, "complete", "done") /\ WithOwn(q, "error")
        \/ req[q].at \in {"work", "insert"} /\ req'[q].at = "release" /\ WithOwn(q, "error")
        \/ Keyed /\ runRow # "none" /\ Moves(q, "work", "complete") /\ WithTheRun(q)
        \/ runRow # "none" /\ Moves(q, "insert", "complete") /\ WithTheRun(q)
  \/ /\ UNCHANGED <<record, bare>>
     /\ \/ /\ ~Keyed /\ Moves(q, "work", "complete") /\ WithOwn(q, "ok")
           /\ made' = made + 1 /\ runRow' = runRow /\ author' = author
        \/ /\ runRow = "none" /\ Moves(q, "insert", "enqueue") /\ Silently(q)
           /\ runRow' = "created" /\ author' = q /\ made' = made + 1
        \/ /\ Moves(q, "enqueue", "complete") /\ WithOwn(q, "ok")
           /\ runRow' = "queued" /\ author' = author /\ made' = made
        \/ /\ Moves(q, "enqueue", "release") /\ WithOwn(q, "error")
           /\ runRow' \in {"created", "queued", "failed"} /\ author' = author /\ made' = made

(* Every step of a request is one of these.                                 *)
LEMMA Transitions ==
  ASSUME KeysTypeOK, SettledInv, NEW q \in Requests, Handle(q) \/ Crash(q)
  PROVE  Transition(q)
  <1>. record \in Records /\ req \in [Requests -> Handlings] /\ req[q] \in Handlings
    BY Types
  <1>2. \A step \in {"claim", "read", "reclaim", "done", "dead"} \cup Working :
          RequestAt(q, step) => req'[q].at = step /\ Silently(q)
    BY MoveTypes DEF Silently
  <1>3. \A answer \in {"ok", "refused", "conflict", "error"}, step \in {"done", "complete", "release"} :
          Answer(q, answer, q, step) => req'[q].at = step /\ WithOwn(q, answer)
    BY MoveTypes DEF WithOwn
  <1>1. Answer(q, "ok", author, "complete") => req'[q].at = "complete" /\ WithTheRun(q)
    <2>1. author \in Requests \cup {Nobody}
      BY Types
    <2>. QED  BY <2>1, MoveTypes DEF WithTheRun
  <1>4. CASE Claim(q)
    BY <1>2, <1>4 DEF Claim, claimVars, Transition, Moves, Working
  <1>5. CASE ReadRecord(q)
    <2>1. CASE Answer(q, record.answer, record.from, "done") /\ record.status = "COMPLETED"
      <3>1. record.answer \in {"ok", "refused"} /\ record.from \in Requests \cup {Nobody}
        BY <2>1 DEF SettledInv, Records
      <3>2. req'[q].at = "done" /\ req'[q].answer = record.answer /\ req'[q].from = record.from
        BY <2>1, <3>1, MoveTypes
      <3>3. UNCHANGED <<record, runRow, author, made>> /\ req[q].at = "read"
        BY <1>5 DEF ReadRecord, claimVars
      <3>. QED  BY <1>2, <1>3, <1>5, <2>1, <3>2, <3>3 DEF ReadRecord, Transition, Moves, Working
    <2>2. CASE ~(Answer(q, record.answer, record.from, "done") /\ record.status = "COMPLETED")
      BY <1>2, <1>3, <1>5, <2>2 DEF ReadRecord, claimVars, Transition, Moves, Working
    <2>. QED  BY <2>1, <2>2
  <1>6. CASE Reclaim(q)
    BY <1>2, <1>3, <1>6 DEF Reclaim, claimVars, Transition, Moves, Working
  <1>7. CASE Refuse(q) \/ HandlerError(q)
    BY <1>3, <1>7 DEF Refuse, HandlerError, workVars, Transition, Moves
  <1>8. CASE Perform(q) \/ FindRun(q)
    BY <1>1, <1>2, <1>3, <1>8 DEF Perform, FindRun, workVars, Transition, Moves, Working
  <1>9. CASE InsertRun(q)
    BY <1>1, <1>2, <1>3, <1>9 DEF InsertRun, workVars, Transition, Moves, Working
  <1>10. CASE EnqueuePanel(q)
    BY <1>3, <1>10 DEF EnqueuePanel, workVars, Transition, Moves
  <1>11. CASE Complete(q)
    <2>1. req[q].at = "complete" /\ RequestAt(q, "done") /\ UNCHANGED <<runRow, author, made, bare>>
      BY <1>11, Zenon DEF Complete, settleVars
    <2>2. req[q].answer \in {"ok", "refused"}
      BY <2>1 DEF SettledInv
    <2>3. req'[q].at = "done" /\ Silently(q)
      BY <1>2, <2>1
    <2>4. \/ record.status = "none" /\ record' = record
          \/ /\ record.status # "none" /\ record'.status = "COMPLETED" /\ record'.answer = req[q].answer
             /\ record'.body = record.body /\ record'.expired = record.expired
             /\ record'.from \in {req[q].from, Nobody}
      BY <1>11, Completed, Zenon
    <2>. QED  BY <2>1, <2>2, <2>3, <2>4 DEF Transition, Moves
  <1>12. CASE CompleteFails(q) \/ Crash(q)
    BY <1>2, <1>3, <1>12 DEF CompleteFails, Crash, settleVars, Transition, Moves
  <1>13. CASE Release(q)
    <2>1. /\ req[q].at = "release" /\ RequestAt(q, "done") /\ UNCHANGED <<runRow, author, made, bare>>
          /\ record' = record \/ (record.status = "IN_FLIGHT" /\ record' = NoRecord)
      BY <1>13 DEF Release, settleVars
    <2>2. req'[q].at = "done" /\ Silently(q)
      BY <1>2, <2>1
    <2>. QED  BY <2>1, <2>2 DEF Transition, Moves
  <1>. QED  BY <1>4, <1>5, <1>6, <1>7, <1>8, <1>9, <1>10, <1>11, <1>12, <1>13 DEF Handle

(* Attempts are left to whoever sends again; only a success or a refusal is *)
(* stored.                                                                  *)
LEMMA SettledStep ==
  ASSUME KeysTypeOK, SettledInv, KeysNext
  PROVE  SettledInv'
  <1>. record \in Records /\ req \in [Requests -> Handlings]
    BY Types
  <1>1. ASSUME NEW c \in Clients, Send(c) \/ Hear(c) \/ HearNothing(c) PROVE SettledInv'
    BY <1>1, Called DEF SettledInv
  <1>2. ASSUME NEW q \in Requests, Handle(q) \/ Crash(q) PROVE SettledInv'
    <2>1. UNCHANGED <<client, expiries>> /\ \A p \in Requests : p # q => req'[p] = req[p]
      BY <1>2, Handled
    <2>2. Transition(q)
      BY <1>2, Transitions
    <2>3. req'[q].at = "complete" => req'[q].answer \in {"ok", "refused"}
      BY <2>2 DEF Transition, Moves, WithOwn, WithTheRun
    <2>4. /\ record'.status = "COMPLETED" => record'.answer \in {"ok", "refused"}
          /\ record'.expired => record'.status # "none" /\ expiries > 0
      BY <2>2, WrittenTypes DEF Transition, SettledInv
    <2>. QED  BY <2>1, <2>3, <2>4 DEF SettledInv
  <1>3. CASE Expire
    <2>1. expiries \in Nat
      BY Types
    <2>. QED  BY <1>3, <2>1 DEF Expire, SettledInv, Records
  <1>4. CASE Sweep
    BY <1>4, WrittenTypes DEF Sweep, SettledInv
  <1>. QED  BY <1>1, <1>2, <1>3, <1>4 DEF KeysNext

(* A request is answered once.                                              *)
LEMMA AnsweredStep ==
  ASSUME KeysTypeOK, SettledInv, AnsweredInv, KeysNext
  PROVE  AnsweredInv'
  <1>. req \in [Requests -> Handlings] /\ client \in [Clients -> Calls] /\ client' \in [Clients -> Calls]
    BY Types, TypeStep DEF KeysTypeOK, Calls
  <1>0. \A c \in Clients, n \in 1..Attempts : <<c, n>> \in Requests
    BY DEF Requests
  <1>1. ASSUME NEW c \in Clients, Send(c) \/ Hear(c) \/ HearNothing(c) PROVE AnsweredInv'
    <2>1. /\ \A d \in Clients : client'[d].sent >= client[d].sent
          /\ \A q \in Requests : \/ req'[q] = req[q]
                                 \/ /\ req'[q].at = "claim" /\ req'[q].answer = req[q].answer
                                    /\ \E n \in 1..Attempts : q = <<c, n>> /\ n > client[c].sent /\ n <= client'[c].sent
      BY <1>1, Called
    <2>2. \A d \in Clients : client[d].sent \in Nat /\ client'[d].sent \in Nat
      BY DEF Calls
    <2>3. ASSUME NEW d \in Clients, NEW n \in 1..Attempts, n > client'[d].sent
          PROVE  req'[<<d, n>>].at = "unsent"
      <3>1. n > client[d].sent
        BY <2>1, <2>2, <2>3
      <3>2. req[<<d, n>>].at = "unsent"
        BY <3>1 DEF AnsweredInv
      <3>3. ASSUME NEW m \in 1..Attempts, <<d, n>> = <<c, m>> PROVE ~(m <= client'[c].sent)
        BY <2>2, <2>3, <3>3
      <3>4. req'[<<d, n>>] = req[<<d, n>>]
        BY <1>0, <2>1, <3>3
      <3>. QED  BY <3>2, <3>4
    <2>4. ASSUME NEW q \in Requests
          PROVE  /\ req'[q].answer # "none" => req'[q].at \in {"complete", "release", "done", "dead"}
                 /\ req'[q].at = "release" => req'[q].answer = "error"
      <3>1. CASE req'[q] = req[q]
        BY <3>1 DEF AnsweredInv
      <3>2. ASSUME NEW n \in 1..Attempts, q = <<c, n>>, n > client[c].sent,
                   req'[q].at = "claim", req'[q].answer = req[q].answer
            PROVE  req'[q].answer = "none" /\ req'[q].at # "release"
        <4>1. req[q].at = "unsent"
          BY <3>2 DEF AnsweredInv
        <4>. QED  BY <3>2, <4>1 DEF AnsweredInv
      <3>. QED  BY <2>1, <3>1, <3>2
    <2>. QED  BY <2>3, <2>4 DEF AnsweredInv
  <1>2. ASSUME NEW q \in Requests, Handle(q) \/ Crash(q) PROVE AnsweredInv'
    <2>1. Transition(q) /\ UNCHANGED client /\ \A p \in Requests : p # q => req'[p] = req[p]
      BY <1>2, Handled, Transitions
    <2>2. /\ req'[q].answer # "none" => req'[q].at \in {"complete", "release", "done", "dead"}
          /\ req'[q].at = "release" => req'[q].answer = "error"
      BY <2>1 DEF Transition, Moves, Silently, WithOwn, WithTheRun, AnsweredInv, Working
    <2>3. ASSUME NEW d \in Clients, NEW n \in 1..Attempts, n > client'[d].sent
          PROVE  req'[<<d, n>>].at = "unsent"
      <3>1. req[<<d, n>>].at = "unsent"
        BY <2>1, <2>3 DEF AnsweredInv
      <3>2. q # <<d, n>>
        BY <2>1, <3>1 DEF Transition, Moves, Working
      <3>. QED  BY <1>0, <2>1, <3>1, <3>2
    <2>. QED  BY <2>1, <2>2, <2>3 DEF AnsweredInv
  <1>3. CASE Expire \/ Sweep
    BY <1>3 DEF Expire, Sweep, AnsweredInv
  <1>. QED  BY <1>1, <1>2, <1>3 DEF KeysNext

(* One panel a key: the work is done when the row is inserted, once, and    *)
(* every success after that is this run.                                    *)
LEMMA RunStep ==
  ASSUME KeysTypeOK, SettledInv, AnsweredInv, RunInv, KeysNext
  PROVE  RunInv'
  <1>. req \in [Requests -> Handlings] /\ made \in Nat /\ record \in Records
    BY Types
  <1>a. Nobody \notin Requests
    BY DEF Requests
  <1>0. ASSUME UNCHANGED <<runRow, author, made>>,
               /\ record'.answer = record.answer /\ record'.from = record.from
               \/ record'.answer = "none",
               \A p \in Requests : /\ req'[p].at \in {"insert", "enqueue"} => req'[p].at = req[p].at
                                   /\ req'[p].answer = req[p].answer /\ req'[p].from = req[p].from
        PROVE  RunInv'
    BY <1>0 DEF RunInv, Keyed
  <1>1. ASSUME NEW c \in Clients, Send(c) \/ Hear(c) \/ HearNothing(c) PROVE RunInv'
    BY <1>0, <1>1, Called
  <1>2. ASSUME NEW q \in Requests, Handle(q) \/ Crash(q) PROVE RunInv'
    <2>1. \A p \in Requests : p # q => req'[p] = req[p]
      BY <1>2, Handled
    <2>2. Transition(q)
      BY <1>2, Transitions
    <2>3. Keyed => made = (IF runRow = "none" THEN 0 ELSE 1) /\ (author = Nobody <=> runRow = "none")
      BY DEF RunInv
    <2>4. /\ req[q].at = "enqueue" => runRow \notin {"none", "keyless"} /\ author = q
          /\ req[q].at = "insert" => Keyed
      BY DEF RunInv
    <2>5. /\ runRow # "none" => runRow' # "none"
          /\ Keyed' <=> Keyed
          /\ Keyed' => made' = (IF runRow' = "none" THEN 0 ELSE 1) /\ (author' = Nobody <=> runRow' = "none")
          /\ author' = author \/ (runRow = "none" /\ author' = q /\ req[q].at = "insert")
      BY <1>a, <2>2, <2>3, <2>4 DEF Transition, Moves, Keyed
    <2>6. ASSUME NEW p \in Requests
          PROVE  /\ req'[p].at = "enqueue" => runRow' \notin {"none", "keyless"} /\ author' = p
                 /\ req'[p].at = "insert" => Keyed'
      <3>1. CASE p = q
        BY <2>2, <2>4, <2>5, <3>1 DEF Transition, Moves, Keyed
      <3>2. CASE p # q
        <4>1. /\ req'[p] = req[p]
              /\ req[p].at = "enqueue" => runRow \notin {"none", "keyless"} /\ author = p
              /\ req[p].at = "insert" => Keyed
          BY <2>1, <3>2 DEF RunInv
        <4>2. runRow \notin {"none", "keyless"} => runRow' \notin {"none", "keyless"}
          BY <2>5 DEF Keyed
        <4>. QED  BY <2>5, <4>1, <4>2
      <3>. QED  BY <3>1, <3>2
    <2>7. ASSUME Keyed', NEW p \in Requests, req'[p].answer = "ok"
          PROVE  author' # Nobody /\ req'[p].from = author'
      <3>1. /\ req[p].answer = "ok" => author # Nobody /\ req[p].from = author
            /\ record.answer = "ok" /\ record.from # Nobody => record.from = author
        BY <2>5, <2>7 DEF RunInv
      <3>2. CASE p = q /\ req[p].answer # "ok"
        BY <1>a, <2>2, <2>3, <2>4, <2>5, <2>7, <3>1, <3>2
           DEF Transition, Moves, Silently, WithOwn, WithTheRun
      <3>3. CASE p = q /\ req[p].answer = "ok"
        <4>1. req[q].at \in {"complete", "release", "done", "dead"}
          BY <3>3 DEF AnsweredInv
        <4>. QED  BY <2>2, <2>5, <2>7, <3>1, <3>3, <4>1
                  DEF Transition, Moves, Silently, WithOwn, WithTheRun, Working
      <3>4. CASE p # q
        BY <2>1, <2>3, <2>5, <2>7, <3>1, <3>4
      <3>. QED  BY <3>2, <3>3, <3>4
    <2>8. ASSUME Keyed', record'.answer = "ok", record'.from # Nobody
          PROVE  record'.from = author'
      <3>1. /\ record.answer = "ok" /\ record.from # Nobody => record.from = author
            /\ req[q].answer = "ok" => author # Nobody /\ req[q].from = author
        BY <2>5, <2>8 DEF RunInv
      <3>2. CASE record' = record
        <4>1. author' # author => author = Nobody /\ runRow = "none"
          BY <2>3, <2>5, <2>8
        <4>2. author # Nobody => author' = author
          BY <4>1
        <4>. QED  BY <2>8, <3>1, <3>2, <4>2
      <3>3. CASE record' = Claimed(q) \/ record' = NoRecord
        BY <2>8, <3>3, WrittenTypes
      <3>4. CASE /\ record'.answer = req[q].answer /\ record'.from \in {req[q].from, Nobody} /\ author' = author
        BY <2>8, <3>1, <3>4
      <3>. QED  BY <2>2, <3>2, <3>3, <3>4 DEF Transition
    <2>. QED  BY <2>5, <2>6, <2>7, <2>8 DEF RunInv
  <1>3. CASE Expire
    <2>1. record'.answer = record.answer /\ record'.from = record.from
      BY <1>3 DEF Expire, Records
    <2>. QED  BY <1>0, <1>3, <2>1 DEF Expire
  <1>4. CASE Sweep
    BY <1>0, <1>4, WrittenTypes DEF Sweep
  <1>. QED  BY <1>1, <1>2, <1>3, <1>4 DEF KeysNext

-----------------------------------------------------------------------------
(* The grants. *)

(* Requests can be counted.                                                 *)
LEMMA FiniteRequests ==
  ASSUME NEW S, S \subseteq Requests
  PROVE  IsFiniteSet(S) /\ Cardinality(S) \in Nat
  <1>1. IsFiniteSet(1..Attempts)
    BY FS_Interval
  <1>2. IsFiniteSet(Requests)
    BY <1>1, FS_Product DEF Requests
  <1>3. IsFiniteSet(S)
    BY <1>2, FS_Subset
  <1>. QED  BY <1>3, FS_CardinalityType

(* How the number of grants not yet used follows the request that moves.    *)
LEMMA GrantedMoves ==
  ASSUME NEW q \in Requests, \A p \in Requests : p # q => req'[p] = req[p]
  PROVE  /\ Cardinality(Granted) \in Nat /\ Cardinality(Granted') \in Nat
         /\ req'[q].at \in {"work", "release"} =>
              Cardinality(Granted') =
                IF req[q].at \in {"work", "release"} THEN Cardinality(Granted) ELSE Cardinality(Granted) + 1
         /\ req'[q].at \notin {"work", "release"} =>
              Cardinality(Granted') =
                IF req[q].at \in {"work", "release"} THEN Cardinality(Granted) - 1 ELSE Cardinality(Granted)
  <1>1. /\ IsFiniteSet(Granted) /\ Cardinality(Granted) \in Nat
        /\ IsFiniteSet(Granted') /\ Cardinality(Granted') \in Nat
    BY FiniteRequests DEF Granted
  <1>2. q \in Granted <=> req[q].at \in {"work", "release"}
    BY DEF Granted
  <1>3. CASE req'[q].at \in {"work", "release"}
    <2>1. Granted' = Granted \cup {q}
      BY <1>3 DEF Granted
    <2>. QED  BY <1>1, <1>2, <1>3, <2>1, FS_AddElement
  <1>4. CASE req'[q].at \notin {"work", "release"}
    <2>1. Granted' = Granted \ {q}
      BY <1>4 DEF Granted
    <2>. QED  BY <1>1, <1>2, <1>4, <2>1, FS_RemoveElement
  <1>. QED  BY <1>1, <1>3, <1>4

(* Work and grants stay within what was paid for.                           *)
LEMMA GrantStep ==
  ASSUME KeysTypeOK, SettledInv, RunInv, GrantInv, KeysNext
  PROVE  GrantInv'
  <1>. /\ record \in Records /\ req \in [Requests -> Handlings] /\ made \in Nat /\ bare \in Nat
       /\ expiries \in Nat
    BY Types
  <1>0. Claimable \in {0, 1} /\ Claimable' \in {0, 1}
    BY DEF Claimable
  <1>1. ASSUME NEW c \in Clients, Send(c) \/ Hear(c) \/ HearNothing(c) PROVE GrantInv'
    <2>1. /\ UNCHANGED <<record, runRow, made, bare, expiries>>
          /\ \A q \in Requests : req'[q] = req[q] \/ req'[q].at = "claim"
      BY <1>1, Called
    <2>2. Granted' \in SUBSET Granted /\ Granted \subseteq Requests
      BY <2>1 DEF Granted
    <2>3. Cardinality(Granted') <= Cardinality(Granted) /\ Cardinality(Granted') \in Nat /\ Cardinality(Granted) \in Nat
      BY <2>2, FiniteRequests, FS_Subset
    <2>. QED  BY <1>0, <2>1, <2>3 DEF GrantInv, Claimable, Keyed
  <1>2. ASSUME NEW q \in Requests, Handle(q) \/ Crash(q) PROVE GrantInv'
    <2>1. /\ Transition(q) /\ expiries' = expiries
          /\ \A p \in Requests : p # q => req'[p] = req[p]
      BY <1>2, Transitions, Handled
    <2>. SUFFICES ASSUME ~Keyed' PROVE made' + Cardinality(Granted') + Claimable' <= 1 + expiries + bare'
      BY <2>1 DEF GrantInv
    <2>2. ~Keyed /\ req[q].at # "insert" /\ req[q].at # "enqueue"
      BY <2>1 DEF Transition, Moves, RunInv, Keyed
    <2>3. made + Cardinality(Granted) + Claimable <= 1 + expiries + bare
      BY <2>2 DEF GrantInv
    <2>. DEFINE g == Cardinality(Granted)  h == Cardinality(Granted')
    <2>4. /\ g \in Nat /\ h \in Nat
          /\ req'[q].at \in {"work", "release"} =>
               h = IF req[q].at \in {"work", "release"} THEN g ELSE g + 1
          /\ req'[q].at \notin {"work", "release"} =>
               h = IF req[q].at \in {"work", "release"} THEN g - 1 ELSE g
      BY <2>1, GrantedMoves
    <2>. HIDE DEF g, h
    <2>5. CASE UNCHANGED <<record, made, bare>> /\ h <= g
      BY <1>0, <2>3, <2>4, <2>5 DEF Claimable, g, h
    <2>6. CASE Moves(q, "claim", "work") /\ record.status = "none" /\ record' = Claimed(q) /\ UNCHANGED <<made, bare>>
      <3>1. Claimable = 1 /\ Claimable' = 0 /\ h = g + 1
        BY <2>4, <2>6, WrittenTypes DEF Claimable, Moves
      <3>. QED  BY <2>3, <2>4, <2>6, <3>1 DEF g, h
    <2>7. CASE Moves(q, "read", "work") /\ bare' = bare + 1 /\ UNCHANGED <<record, made>>
      <3>1. Claimable' = Claimable /\ h = g + 1
        BY <2>4, <2>7 DEF Claimable, Moves
      <3>. QED  BY <1>0, <2>3, <2>4, <2>7, <3>1 DEF g, h
    <2>8. CASE Moves(q, "reclaim", "work") /\ record.expired /\ record' = Claimed(q) /\ UNCHANGED <<made, bare>>
      <3>1. Claimable = 1 /\ Claimable' = 0 /\ h = g + 1
        BY <2>4, <2>8, WrittenTypes DEF Claimable, Moves
      <3>. QED  BY <2>3, <2>4, <2>8, <3>1 DEF g, h
    <2>9. CASE /\ Moves(q, "complete", "done") /\ UNCHANGED <<made, bare>> /\ record.status # "none"
               /\ record'.status = "COMPLETED" /\ record'.expired = record.expired
      <3>1. Claimable' = Claimable /\ h = g
        BY <2>4, <2>9 DEF Claimable, Moves
      <3>. QED  BY <1>0, <2>3, <2>4, <2>9, <3>1 DEF g, h
    <2>10. CASE Moves(q, "release", "done") /\ UNCHANGED <<made, bare>> /\ record.status = "IN_FLIGHT"
      <3>1. h = g - 1 /\ (Claimable' <= Claimable + 1)
        BY <1>0, <2>4, <2>10 DEF Moves
      <3>. QED  BY <1>0, <2>3, <2>4, <2>10, <3>1 DEF g, h
    <2>11. CASE Moves(q, "work", "complete") /\ made' = made + 1 /\ UNCHANGED <<record, bare>>
      <3>1. Claimable' = Claimable /\ h = g - 1
        BY <2>4, <2>11 DEF Claimable, Moves
      <3>. QED  BY <1>0, <2>3, <2>4, <2>11, <3>1 DEF g, h
    <2>. QED  BY <2>1, <2>2, <2>4, <2>5, <2>6, <2>7, <2>8, <2>9, <2>10, <2>11 DEF Transition, Moves, Working
  <1>3. CASE Expire
    <2>1. /\ Granted' = Granted /\ Keyed' = Keyed /\ UNCHANGED <<made, bare>> /\ expiries' = expiries + 1
          /\ Claimable = 0
      BY <1>3 DEF Expire, Granted, Keyed, Claimable
    <2>2. Cardinality(Granted) \in Nat
      BY FiniteRequests DEF Granted
    <2>. QED  BY <1>0, <2>1, <2>2 DEF GrantInv
  <1>4. CASE Sweep
    <2>1. /\ Granted' = Granted /\ Keyed' = Keyed /\ UNCHANGED <<made, bare, expiries>>
          /\ Claimable = 1 /\ Claimable' = 1
      BY <1>4, WrittenTypes DEF Sweep, Granted, Keyed, Claimable
    <2>. QED  BY <2>1 DEF GrantInv
  <1>. QED  BY <1>1, <1>2, <1>3, <1>4 DEF KeysNext

-----------------------------------------------------------------------------
(* While every request had a record.                                        *)

(* The author of the run stays, and so does what it was told.               *)
LEMMA LapsedStays ==
  ASSUME KeysTypeOK, SettledInv, AnsweredInv, RunInv, KeysNext
  PROVE  /\ Keyed' <=> Keyed
         /\ author # Nobody => author' = author \/ ~Keyed
         /\ Lapsed /\ Keyed => Lapsed'
  <1>. expiries \in Nat /\ author \in Requests \cup {Nobody}
    BY Types
  <1>0. ASSUME UNCHANGED <<runRow, author>>, expiries' = expiries \/ expiries' = expiries + 1,
               \A p \in Requests : req'[p].answer = req[p].answer
        PROVE  (Keyed' <=> Keyed) /\ (Lapsed => Lapsed')
    BY <1>0 DEF Lapsed, Keyed
  <1>1. ASSUME NEW c \in Clients, Send(c) \/ Hear(c) \/ HearNothing(c)
        PROVE  UNCHANGED <<runRow, author>> /\ (Keyed' <=> Keyed) /\ (Lapsed => Lapsed')
    BY <1>0, <1>1, Called
  <1>2. ASSUME NEW q \in Requests, Handle(q) \/ Crash(q)
        PROVE  /\ Keyed' <=> Keyed
               /\ author # Nobody => author' = author \/ ~Keyed
               /\ Lapsed /\ Keyed => Lapsed'
    <2>1. /\ Transition(q) /\ expiries' = expiries
          /\ \A p \in Requests : p # q => req'[p] = req[p]
      BY <1>2, Transitions, Handled
    <2>2. /\ Keyed => (author = Nobody <=> runRow = "none")
          /\ req[q].at = "insert" => Keyed
          /\ req[q].at = "enqueue" => Keyed
      BY DEF RunInv, Keyed
    <2>3. /\ Keyed' <=> Keyed
          /\ author' = author \/ runRow = "none"
      BY <2>1, <2>2 DEF Transition, Moves, Keyed
    <2>4. req[q].answer = "error" => req'[q].answer = "error"
      <3>1. req[q].answer = "error" => req[q].at \in {"complete", "release", "done", "dead"}
        BY DEF AnsweredInv
      <3>2. req[q].at = "complete" => req[q].answer # "error"
        BY DEF SettledInv
      <3>. QED  BY <2>1, <3>1, <3>2 DEF Transition, Moves, Silently, Working
    <2>5. ASSUME Lapsed, Keyed PROVE Lapsed'
      <3>1. CASE expiries > 0
        BY <2>1, <3>1 DEF Lapsed
      <3>2. CASE author # Nobody /\ req[author].answer = "error"
        <4>1. author \in Requests /\ author' = author
          BY <2>2, <2>3, <2>5, <3>2
        <4>2. req'[author].answer = "error"
          BY <2>1, <2>4, <3>2, <4>1
        <4>. QED  BY <3>2, <4>1, <4>2 DEF Lapsed
      <3>. QED  BY <2>5, <3>1, <3>2 DEF Lapsed
    <2>. QED  BY <2>2, <2>3, <2>5
  <1>3. CASE Expire
    BY <1>0, <1>3 DEF Expire
  <1>4. CASE Sweep
    BY <1>0, <1>4 DEF Sweep
  <1>. QED  BY <1>1, <1>2, <1>3, <1>4 DEF KeysNext, Expire, Sweep

(* The request that works holds the record.                                 *)
LEMMA HolderStep ==
  ASSUME KeysTypeOK, SettledInv, AnsweredInv, RunInv, HolderInv, AuthorInv, KeysNext
  PROVE  HolderInv'
  <1>. /\ record \in Records /\ req \in [Requests -> Handlings] /\ bare \in Nat
       /\ author \in Requests \cup {Nobody} /\ Nobody \notin Requests
    BY Types DEF Requests
  <1>0. (Keyed' <=> Keyed) /\ (Lapsed /\ Keyed => Lapsed')
    BY LapsedStays
  <1>1. ASSUME NEW c \in Clients, Send(c) \/ Hear(c) \/ HearNothing(c) PROVE HolderInv'
    <2>1. /\ UNCHANGED <<record, bare>>
          /\ \A q \in Requests : \/ req'[q] = req[q]
                                 \/ /\ req'[q].at = "claim" /\ req'[q].answer = req[q].answer
                                    /\ req'[q].from = req[q].from
      BY <1>1, Called
    <2>. QED  BY <1>0, <2>1 DEF HolderInv, Working
  <1>2. ASSUME NEW q \in Requests, Handle(q) \/ Crash(q) PROVE HolderInv'
    <2>1. /\ Transition(q) /\ bare' \in Nat
          /\ \A p \in Requests : p # q => req'[p] = req[p]
      BY <1>2, Transitions, Handled
    <2>. SUFFICES ASSUME bare' = 0 PROVE HolderInv'
      BY <2>1 DEF HolderInv
    <2>2. bare = 0
      BY <2>1 DEF Transition
    <2>. DEFINE Right(body, answer, from) == BodyOf(from) = body \/ (Keyed /\ answer = "ok" /\ Lapsed)
    <2>3. /\ \A p \in Requests : req[p].at \in Working =>
                /\ record.status # "none" /\ ~record.expired /\ record.body = BodyOf(p)
                /\ \A r \in Requests : req[r].at \in Working => r = p
          /\ \A p \in Requests : req[p].answer \in {"ok", "refused"} =>
                req[p].from \in Requests /\ Right(BodyOf(p), req[p].answer, req[p].from)
          /\ record.status = "COMPLETED" /\ record.from # Nobody =>
                record.from \in Requests /\ Right(record.body, record.answer, record.from)
      BY <2>2 DEF HolderInv
    <2>a. \A body, answer, from : Right(body, answer, from) => (Right(body, answer, from))'
      BY <1>0
    <2>b. \A body, from : BodyOf(from) = body => \A answer : (Right(body, answer, from))'
      OBVIOUS
    <2>c. req[q].at \in {"work", "insert"} /\ Keyed /\ runRow # "none" =>
             author \in Requests /\ Right(BodyOf(q), "ok", author)
      <3>. SUFFICES ASSUME req[q].at \in {"work", "insert"}, Keyed, runRow # "none", ~Lapsed
                    PROVE  author \in Requests /\ BodyOf(author) = BodyOf(q)
        BY DEF RunInv
      <3>1. author \in Requests
        BY DEF RunInv
      <3>2. record.body = BodyOf(author)
        BY <2>2, <3>1 DEF AuthorInv
      <3>3. record.body = BodyOf(q)
        BY <2>3 DEF Working
      <3>. QED  BY <3>1, <3>2, <3>3
    <2>. HIDE DEF Right
    <2>4. req'[q].answer \in {"ok", "refused"} =>
             req'[q].from \in Requests /\ (Right(BodyOf(q), req[q].answer, req[q].from))'
      <3>. SUFFICES ASSUME req'[q].answer \in {"ok", "refused"}
                    PROVE  req'[q].from \in Requests /\ (Right(BodyOf(q), req[q].answer, req[q].from))'
        OBVIOUS
      <3>1. CASE Silently(q)
        BY <2>3, <2>a, <3>1 DEF Silently
      <3>2. CASE WithOwn(q, req'[q].answer)
        BY <2>b, <3>2 DEF WithOwn
      <3>3. CASE WithTheRun(q) /\ req[q].at \in {"work", "insert"} /\ Keyed /\ runRow # "none"
        BY <2>a, <2>c, <3>3 DEF WithTheRun
      <3>4. CASE /\ req'[q].answer = record.answer /\ req'[q].from = record.from
                 /\ record.status = "COMPLETED" /\ record.body = BodyOf(q) /\ record.from # Nobody
        BY <2>3, <2>a, <3>4
      <3>. QED  BY <2>1, <3>1, <3>2, <3>3, <3>4 DEF Transition, Moves, Keyed, RunInv, WithOwn
    <2>5. record'.status = "COMPLETED" /\ record'.from # Nobody =>
             record'.from \in Requests /\ (Right(record.body, record.answer, record.from))'
      <3>1. CASE record' = record
        BY <2>3, <2>a, <3>1
      <3>2. CASE record' = Claimed(q) \/ record' = NoRecord
        BY <3>2, WrittenTypes
      <3>3. CASE /\ Moves(q, "complete", "done") /\ record'.body = record.body /\ record'.from \in {req[q].from, Nobody}
                 /\ record'.answer = req[q].answer /\ req[q].answer \in {"ok", "refused"}
        <4>1. record.body = BodyOf(q)
          BY <2>3, <3>3 DEF Moves, Working
        <4>2. req[q].from \in Requests /\ Right(BodyOf(q), req[q].answer, req[q].from)
          BY <2>3, <3>3
        <4>3. (Right(record.body, record.answer, record.from))' \/ record'.from = Nobody
          BY <2>a, <3>3, <4>1, <4>2
        <4>. QED  BY <3>3, <4>2, <4>3
      <3>. QED  BY <2>1, <3>1, <3>2, <3>3 DEF Transition
    <2>6. \A p \in Requests : req'[p].at \in Working =>
                /\ record'.status # "none" /\ ~record'.expired /\ record'.body = BodyOf(p)
                /\ \A r \in Requests : req'[r].at \in Working => r = p
      <3>1. CASE req[q].at \in Working /\ req'[q].at \in Working /\ record' = record
        BY <2>1, <2>3, <3>1
      <3>2. CASE req[q].at \in Working /\ req'[q].at \notin Working
        BY <2>1, <2>3, <3>2
      <3>3. CASE req[q].at \notin Working /\ req'[q].at \notin Working /\ record' = record
        BY <2>1, <2>3, <3>3
      <3>4. CASE req'[q].at = "work" /\ record' = Claimed(q) /\ (record.status = "none" \/ record.expired)
        BY <2>1, <2>3, <3>4, WrittenTypes
      <3>. QED  BY <2>1, <2>2, <3>1, <3>2, <3>3, <3>4 DEF Transition, Moves, Working
    <2>7. \A p \in Requests : req'[p].answer \in {"ok", "refused"} =>
             req'[p].from \in Requests /\ (Right(BodyOf(p), req[p].answer, req[p].from))'
      BY <2>1, <2>3, <2>4, <2>a
    <2>. QED  BY <2>5, <2>6, <2>7 DEF HolderInv, Right
  <1>3. CASE Expire
    <2>1. /\ UNCHANGED <<req, bare>> /\ record' = [record EXCEPT !.expired = TRUE]
          /\ \A q \in Requests : req[q].at \notin Working
      BY <1>3 DEF Expire, Working
    <2>2. /\ record'.status = record.status /\ record'.from = record.from /\ record'.body = record.body
          /\ record'.answer = record.answer
      BY <2>1 DEF Records
    <2>. QED  BY <1>0, <2>1, <2>2 DEF HolderInv
  <1>4. CASE Sweep
    <2>1. /\ UNCHANGED <<req, bare>> /\ record' = NoRecord /\ record.expired
      BY <1>4 DEF Sweep
    <2>. QED  BY <1>0, <2>1, WrittenTypes DEF HolderInv
  <1>. QED  BY <1>1, <1>2, <1>3, <1>4 DEF KeysNext

(* The record is the run's until it lapses.                                 *)
LEMMA AuthorStep ==
  ASSUME KeysTypeOK, SettledInv, AnsweredInv, RunInv, HolderInv, AuthorInv, KeysNext
  PROVE  AuthorInv'
  <1>. /\ record \in Records /\ req \in [Requests -> Handlings] /\ bare \in Nat /\ expiries \in Nat
       /\ author \in Requests \cup {Nobody} /\ Nobody \notin Requests
    BY Types DEF Requests
  <1>. SUFFICES ASSUME bare' = 0, Keyed', author' # Nobody, ~Lapsed'
                PROVE  /\ record'.status # "none" /\ ~record'.expired /\ record'.body = BodyOf(author')
                       /\ req'[author'].at \notin Working => \A q \in Requests : req'[q].at \notin Working
    BY DEF AuthorInv
  <1>0. Keyed /\ ~Lapsed /\ (author # Nobody => author' = author)
    BY LapsedStays
  <1>a. expiries = 0 /\ ~record.expired
    BY <1>0 DEF Lapsed, SettledInv
  <1>b. ASSUME bare = 0, author # Nobody
        PROVE  /\ record.status # "none" /\ ~record.expired /\ record.body = BodyOf(author)
               /\ req[author].at \notin Working => \A q \in Requests : req[q].at \notin Working
               /\ author' = author /\ author \in Requests
    BY <1>0, <1>b DEF AuthorInv
  <1>1. ASSUME NEW c \in Clients, Send(c) \/ Hear(c) \/ HearNothing(c)
        PROVE  /\ record'.status # "none" /\ ~record'.expired /\ record'.body = BodyOf(author')
               /\ req'[author'].at \notin Working => \A q \in Requests : req'[q].at \notin Working
    <2>1. /\ UNCHANGED <<record, bare, author>>
          /\ \A q \in Requests : req'[q] = req[q] \/ (req'[q].at = "claim" /\ req[q].at = "unsent")
      <3>1. /\ UNCHANGED <<record, bare, author>>
            /\ \A q \in Requests : \/ req'[q] = req[q]
                                   \/ /\ req'[q].at = "claim"
                                      /\ \E n \in 1..Attempts : q = <<c, n>> /\ n > client[c].sent
        BY <1>1, Called
      <3>. QED  BY <3>1 DEF AnsweredInv
    <2>. QED  BY <1>b, <2>1 DEF Working
  <1>2. ASSUME NEW q \in Requests, Handle(q) \/ Crash(q)
        PROVE  /\ record'.status # "none" /\ ~record'.expired /\ record'.body = BodyOf(author')
               /\ req'[author'].at \notin Working => \A p \in Requests : req'[p].at \notin Working
    <2>1. /\ Transition(q) /\ \A p \in Requests : p # q => req'[p] = req[p]
      BY <1>2, Transitions, Handled
    <2>2. bare = 0
      BY <2>1 DEF Transition
    <2>3. \A p \in Requests : req[p].at \in Working =>
             /\ record.status # "none" /\ ~record.expired /\ record.body = BodyOf(p)
             /\ \A r \in Requests : req[r].at \in Working => r = p
      BY <2>2 DEF HolderInv
    <2>4. CASE author = Nobody
      <3>1. author' = q /\ record' = record /\ req[q].at = "insert" /\ req'[q].at = "enqueue"
        BY <2>1, <2>4 DEF Transition, Moves
      <3>. QED  BY <2>3, <3>1 DEF Working
    <2>5. CASE author # Nobody
      <3>1. /\ record.status # "none" /\ ~record.expired /\ record.body = BodyOf(author)
            /\ req[author].at \notin Working => \A p \in Requests : req[p].at \notin Working
            /\ author' = author /\ author \in Requests
        BY <1>b, <2>2, <2>5
      <3>2. CASE req[author].at \in Working
        <4>1. \A r \in Requests : req[r].at \in Working => r = author
          BY <2>3, <3>1, <3>2
        <4>2. CASE q = author
          <5>1. req[q].at = "release" => FALSE
            BY <1>0, <2>5, <4>2 DEF AnsweredInv, Lapsed
          <5>2. /\ record'.status # "none" /\ ~record'.expired /\ record'.body = record.body
            BY <2>1, <3>1, <3>2, <4>2, <5>1 DEF Transition, Moves, Working
          <5>. QED  BY <2>1, <3>1, <4>1, <4>2, <5>2
        <4>3. CASE q # author
          <5>1. req[q].at \notin Working
            BY <4>1, <4>3
          <5>2. record' = record
            BY <2>1, <3>1, <5>1 DEF Transition, Moves, Working
          <5>. QED  BY <2>1, <3>1, <3>2, <4>3, <5>2
        <4>. QED  BY <4>2, <4>3
      <3>3. CASE req[author].at \notin Working
        <4>1. \A p \in Requests : req[p].at \notin Working
          BY <3>1, <3>3
        <4>2. record' = record /\ req'[q].at \notin Working
          BY <2>1, <2>2, <3>1, <4>1 DEF Transition, Moves, Working
        <4>. QED  BY <2>1, <3>1, <4>1, <4>2
      <3>. QED  BY <3>2, <3>3
    <2>. QED  BY <2>4, <2>5
  <1>3. CASE Expire
    BY <1>3 DEF Expire, Lapsed
  <1>4. CASE Sweep
    BY <1>a, <1>4 DEF Sweep
  <1>. QED  BY <1>1, <1>2, <1>3, <1>4 DEF KeysNext

-----------------------------------------------------------------------------
(* It holds when nobody has sent anything.                                  *)
LEMMA InitInv == KeysInit => KeysInv
  <1>. SUFFICES ASSUME KeysInit PROVE KeysInv
    OBVIOUS
  <1>1. Unsent \in Handlings /\ Unsent.at = "unsent" /\ Unsent.answer = "none"
    BY DEF Unsent, Handlings
  <1>2. [at |-> "idle", sent |-> 0] \in Calls
    BY DEF Calls
  <1>3. KeysTypeOK
    BY <1>1, <1>2, Types, WrittenTypes DEF KeysInit
  <1>4. SettledInv
    BY <1>1, WrittenTypes DEF KeysInit, SettledInv
  <1>5. RunInv /\ AnsweredInv /\ AuthorInv
    <2>1. \A c \in Clients, n \in 1..Attempts : <<c, n>> \in Requests
      BY DEF Requests
    <2>. QED  BY <1>1, <2>1, WrittenTypes DEF KeysInit, RunInv, Keyed, AnsweredInv, AuthorInv
  <1>6. GrantInv
    <2>1. Granted = {}
      BY <1>1 DEF KeysInit, Granted
    <2>2. Cardinality(Granted) = 0
      BY <2>1, FS_EmptySet
    <2>. QED  BY <2>2 DEF KeysInit, GrantInv, Claimable
  <1>7. HolderInv
    BY <1>1, WrittenTypes DEF KeysInit, HolderInv, Working
  <1>. QED  BY <1>3, <1>4, <1>5, <1>6, <1>7 DEF KeysInv

(* Every step keeps it.                                                     *)
LEMMA StepInv == KeysInv /\ [KeysNext]_keysVars => KeysInv'
  <1>. SUFFICES ASSUME KeysInv, [KeysNext]_keysVars PROVE KeysInv'
    OBVIOUS
  <1>1. CASE KeysNext
    BY <1>1, TypeStep, SettledStep, AnsweredStep, RunStep, GrantStep, HolderStep, AuthorStep DEF KeysInv
  <1>2. CASE UNCHANGED keysVars
    <2>1. KeysTypeOK'
      BY <1>2 DEF keysVars, KeysInv, KeysTypeOK
    <2>2. SettledInv' /\ AnsweredInv' /\ RunInv'
      BY <1>2 DEF keysVars, KeysInv, SettledInv, AnsweredInv, RunInv, Keyed
    <2>3. GrantInv' /\ HolderInv' /\ AuthorInv'
      BY <1>2 DEF keysVars, KeysInv, GrantInv, Granted, Claimable, Keyed, HolderInv, AuthorInv, Lapsed
    <2>. QED  BY <2>1, <2>2, <2>3 DEF KeysInv
  <1>. QED  BY <1>1, <1>2

(* The invariant of a key.                                                  *)
THEOREM KeysInvariant == KeysSpec => []KeysInv
BY InitInv, StepInv, PTL DEF KeysSpec

(* Types, and that a stored response is the answer its request produced.    *)
THEOREM KeysTyped == KeysSpec => []KeysTypeOK
BY KeysInvariant, PTL DEF KeysInv

(* One key is one piece of work: at most one run on the route of runs, and  *)
(* one piece of work a day and a request without a record on the others. As *)
(* long as no request ran without a record nobody gets the answer to a      *)
(* different body, the run of a key whose record lapsed excepted.           *)
THEOREM OneAnswerPerKey == KeysSpec => []KeyHolds
  <1>1. KeysInv => OnePanel
    BY DEF KeysInv, RunInv, OnePanel, KeysTypeOK
  <1>2. KeysInv => OncePerDay
    <2>. SUFFICES ASSUME KeysInv, ~Keyed PROVE made <= 1 + expiries + bare
      BY DEF OncePerDay
    <2>1. Cardinality(Granted) \in Nat /\ Claimable \in {0, 1}
      BY FiniteRequests DEF Granted, Claimable
    <2>2. made \in Nat /\ bare \in Nat /\ expiries \in Nat
      BY Types DEF KeysInv
    <2>. QED  BY <2>1, <2>2 DEF KeysInv, GrantInv
  <1>3. KeysInv => ReplaysOwnBody
    BY DEF KeysInv, RunInv, HolderInv, Lapsed, ReplaysOwnBody
  <1>4. KeysInv => KeyHolds
    BY <1>1, <1>2, <1>3 DEF KeyHolds
  <1>. QED  BY <1>4, KeysInvariant, PTL

-----------------------------------------------------------------------------
(* The rollup. *)

Sums == [Lines -> [Days -> 0..MaxRecords]]

Sweeps == [at: {"rest", "group", "write", "zero"}, days: SUBSET Days, day: Days,
           groups: [Lines -> 0..MaxRecords], todo: SUBSET Lines]

(* A sum, in a row or about to be written to one, was the records' once,    *)
(* and they only grow.                                                      *)
RollupInv ==
  /\ MeteringTypeOK
  /\ \A l \in Lines, d \in Days : daily[l][d] <= records[l][d]
  /\ \A s \in Sweepers : /\ sweep[s].at # "rest" => sweep[s].days # {}
                         /\ \A l \in Lines : sweep[s].groups[l] <= records[l][sweep[s].day]

(* A day to be rolled up is one of those left.                              *)
LEMMA LeastExists ==
  ASSUME NEW D \in SUBSET Nat, D # {}
  PROVE  Min(D) \in D
  <1>. DEFINE less == {pair \in Nat \X Nat : pair[1] < pair[2]}
  <1>1. \A i, j \in Nat : <<i, j>> \in less <=> i < j
    OBVIOUS
  <1>2. IsWellFoundedOn(less, Nat)
    BY NatLessThanWellFounded DEF OpToRel
  <1>. HIDE DEF less
  <1>3. PICK c \in D : \A i \in D : <<i, c>> \notin less
    BY <1>2, WFMin
  <1>4. ASSUME NEW i \in D PROVE c <= i
    <2>1. i \in Nat /\ c \in Nat
      OBVIOUS
    <2>2. ~(i < c)
      BY <1>1, <1>3, <2>1
    <2>. QED  BY <2>1, <2>2
  <1>. QED  BY <1>4 DEF Min

(* Sums that are no greater have a total that is no greater.                *)
LEMMA TotalsGrow ==
  ASSUME NEW less \in Sums, NEW more \in Sums, \A l \in Lines, d \in Days : less[l][d] <= more[l][d],
         NEW tenants \in SUBSET Tenants, NEW days \in SUBSET Days
  PROVE  /\ Total(less, tenants, days) <= Total(more, tenants, days)
         /\ Total(more, tenants, days) \in Nat
         /\ \A l \in tenants \X Models, d \in days : more[l][d] <= Total(more, tenants, days)
  <1>. DEFINE wheres == (tenants \X Models) \X days
              bound == wheres \X (1..MaxRecords)
  <1>1. IsFiniteSet(bound)
    <2>1. IsFiniteSet(tenants) /\ IsFiniteSet(Models)
      BY MeteringAssumption, FS_Subset
    <2>2. IsFiniteSet(days)
      <3>1. IsFiniteSet(0..LastDay)
        BY MeteringAssumption, FS_Interval
      <3>. QED  BY <3>1, FS_Subset DEF Days
    <2>3. IsFiniteSet(1..MaxRecords)
      BY MeteringAssumption, FS_Interval
    <2>4. IsFiniteSet(tenants \X Models)
      BY <2>1, FS_Product
    <2>5. IsFiniteSet(wheres)
      BY <2>2, <2>4, FS_Product
    <2>. QED  BY <2>3, <2>5, FS_Product
  <1>2. ASSUME NEW where \in wheres
        PROVE  /\ where[1] \in tenants \X Models /\ where[2] \in days
               /\ where[1] \in Lines /\ where[2] \in Days
               /\ less[where[1]][where[2]] \in 0..MaxRecords /\ more[where[1]][where[2]] \in 0..MaxRecords
               /\ less[where[1]][where[2]] <= more[where[1]][where[2]]
    <2>1. where[1] \in tenants \X Models /\ where[2] \in days
      OBVIOUS
    <2>2. where[1] \in Lines /\ where[2] \in Days
      BY <2>1 DEF Lines
    <2>. QED  BY <2>1, <2>2 DEF Sums
  <1>. HIDE DEF wheres
  <1>3. \A u : u \in Units(less, tenants, days) <=>
               \E where \in wheres : u \in {where} \X (1..less[where[1]][where[2]])
    BY Zenon DEF Units, wheres
  <1>4. \A u : u \in Units(more, tenants, days) <=>
               \E where \in wheres : u \in {where} \X (1..more[where[1]][where[2]])
    BY Zenon DEF Units, wheres
  <1>5. ASSUME NEW where \in wheres
        PROVE  /\ {where} \X (1..less[where[1]][where[2]]) \subseteq {where} \X (1..more[where[1]][where[2]])
               /\ {where} \X (1..more[where[1]][where[2]]) \subseteq bound
    <2>. DEFINE few == less[where[1]][where[2]]
                many == more[where[1]][where[2]]
    <2>1. few \in 0..MaxRecords /\ many \in 0..MaxRecords /\ few <= many
      BY <1>2
    <2>. HIDE DEF few, many
    <2>2. 1..few \subseteq 1..many /\ 1..many \subseteq 1..MaxRecords
      BY <2>1, MeteringAssumption
    <2>3. {where} \X (1..few) \subseteq {where} \X (1..many) /\ {where} \X (1..many) \subseteq bound
      BY <2>2
    <2>. QED  BY <2>3 DEF few, many
  <1>6. Units(less, tenants, days) \subseteq Units(more, tenants, days)
    BY <1>3, <1>4, <1>5, Zenon
  <1>7. Units(more, tenants, days) \subseteq bound
    BY <1>4, <1>5, Zenon
  <1>8. IsFiniteSet(Units(more, tenants, days)) /\ Total(more, tenants, days) \in Nat
    <2>1. IsFiniteSet(Units(more, tenants, days))
      BY <1>1, <1>7, FS_Subset
    <2>. QED  BY <2>1, FS_CardinalityType DEF Total
  <1>9. ASSUME NEW l \in tenants \X Models, NEW d \in days
        PROVE  more[l][d] <= Total(more, tenants, days)
    <2>. DEFINE part == {<<l, d>>} \X (1..more[l][d])
    <2>1. <<l, d>> \in wheres
      BY DEF wheres
    <2>2. more[l][d] \in 0..MaxRecords
      BY <1>2, <2>1
    <2>3. part \subseteq Units(more, tenants, days)
      <3>. DEFINE where == <<l, d>>
      <3>1. where[1] = l /\ where[2] = d
        OBVIOUS
      <3>2. \A u \in part : u \in {where} \X (1..more[where[1]][where[2]])
        BY <3>1
      <3>. HIDE DEF where, part
      <3>3. where \in wheres
        BY <2>1 DEF where
      <3>. QED  BY <1>4, <3>2, <3>3
    <2>4. Cardinality(part) = more[l][d]
      <3>1. IsFiniteSet({<<l, d>>}) /\ Cardinality({<<l, d>>}) = 1
        BY FS_Singleton
      <3>2. IsFiniteSet(1..more[l][d]) /\ Cardinality(1..more[l][d]) = more[l][d]
        <4>. DEFINE n == more[l][d]
        <4>1. n \in 0..MaxRecords
          BY <2>2
        <4>. HIDE DEF n
        <4>2. 1 \in Int /\ n \in Int /\ (IF 1 > n THEN 0 ELSE n - 1 + 1) = n
          BY <4>1, MeteringAssumption
        <4>3. IsFiniteSet(1..n) /\ Cardinality(1..n) = n
          BY <4>2, FS_Interval
        <4>. QED  BY <4>3 DEF n
      <3>. DEFINE one == {<<l, d>>}
                  these == 1..more[l][d]
      <3>3. IsFiniteSet(one) /\ IsFiniteSet(these) /\ Cardinality(one) = 1 /\ Cardinality(these) = more[l][d]
        BY <3>1, <3>2
      <3>. HIDE DEF one, these
      <3>4. Cardinality(one \X these) = Cardinality(one) * Cardinality(these)
        BY <3>3, FS_Product
      <3>5. Cardinality(one \X these) = more[l][d]
        BY <2>2, <3>3, <3>4
      <3>. QED  BY <3>5 DEF one, these
    <2>. HIDE DEF part
    <2>5. Cardinality(part) <= Cardinality(Units(more, tenants, days))
      BY <1>8, <2>3, FS_Subset
    <2>. QED  BY <2>4, <2>5 DEF Total
  <1>10. Total(less, tenants, days) <= Total(more, tenants, days)
    BY <1>6, <1>8, FS_Subset DEF Total
  <1>. QED  BY <1>8, <1>9, <1>10

(* The types, with the records named.                                      *)
LEMMA RollupTypes ==
  ASSUME RollupInv
  PROVE  /\ today \in Days /\ records \in Sums /\ daily \in Sums
         /\ sweep \in [Sweepers -> Sweeps] /\ sweepFaults \in 0..MaxSweepFaults
  BY DEF RollupInv, MeteringTypeOK, Sums, Sweeps

(* A sweep at rest writes nothing and says nothing. *)
LEMMA RestingRests ==
  /\ Resting \in Sweeps /\ Resting.at = "rest" /\ Resting.day = 0
  /\ \A l \in Lines : Resting.groups[l] = 0
  /\ 0 \in Days
  <1>1. 0 \in Days /\ 0 \in 0..MaxRecords
    BY MeteringAssumption DEF Days
  <1>2. NoSums \in [Lines -> 0..MaxRecords] /\ \A l \in Lines : NoSums[l] = 0
    BY <1>1 DEF NoSums
  <1>. HIDE DEF NoSums
  <1>. QED  BY <1>1, <1>2 DEF Resting, Sweeps

(* Nothing is spent and nothing reported at first.                          *)
LEMMA RollupInvStarts ==
  MeteringInit => RollupInv
  <1>. SUFFICES ASSUME MeteringInit PROVE RollupInv
    OBVIOUS
  <1>. DEFINE zeros == [l \in Lines |-> [d \in Days |-> 0]]
  <1>1. 0 \in Days /\ 0 \in 0..MaxRecords /\ 0 \in 0..MaxSweepFaults
    BY MeteringAssumption DEF Days
  <1>2. zeros \in Sums /\ \A l \in Lines, d \in Days : zeros[l][d] = 0
    BY <1>1 DEF Sums
  <1>3. records = zeros /\ daily = zeros
    BY DEF MeteringInit
  <1>. HIDE DEF zeros
  <1>4. today = 0 /\ sweepFaults = 0 /\ \A s \in Sweepers : sweep[s] = Resting
    BY DEF MeteringInit
  <1>5. sweep \in [Sweepers -> Sweeps]
    <2>1. sweep = [s \in Sweepers |-> Resting]
      BY DEF MeteringInit
    <2>. QED  BY <2>1, RestingRests
  <1>6. MeteringTypeOK
    BY <1>1, <1>2, <1>3, <1>4, <1>5 DEF MeteringTypeOK, Sums, Sweeps
  <1>. QED  BY <1>1, <1>2, <1>3, <1>4, <1>6, RestingRests DEF RollupInv

(* A step of one sweeper, which writes no more than the records say. *)
LEMMA SweepKeepsInv ==
  ASSUME RollupInv, NEW s \in Sweepers, NEW next \in Sweeps,
         sweep' = [sweep EXCEPT ![s] = next],
         next.at # "rest" => next.days # {},
         \A l \in Lines : next.groups[l] <= records[l][next.day],
         UNCHANGED <<today, records>>, sweepFaults' \in 0..MaxSweepFaults,
         daily' \in Sums, \A l \in Lines, d \in Days : daily'[l][d] <= records[l][d]
  PROVE  RollupInv'
  <1>1. /\ sweep \in [Sweepers -> Sweeps] /\ today \in Days /\ records \in Sums
    BY RollupTypes
  <1>2. sweep' \in [Sweepers -> Sweeps] /\ \A t \in Sweepers : sweep'[t] = IF t = s THEN next ELSE sweep[t]
    BY <1>1
  <1>3. MeteringTypeOK'
    BY <1>1, <1>2 DEF MeteringTypeOK, Sums, Sweeps
  <1>4. ASSUME NEW t \in Sweepers
        PROVE  /\ sweep'[t].at # "rest" => sweep'[t].days # {}
               /\ \A l \in Lines : sweep'[t].groups[l] <= records'[l][sweep'[t].day]
    <2>1. CASE t = s
      BY <1>2, <2>1
    <2>2. CASE t # s
      BY <1>2, <2>2 DEF RollupInv
    <2>. QED  BY <2>1, <2>2
  <1>. QED  BY <1>3, <1>4 DEF RollupInv

(* After a day the sweep rests or goes on with a day that is left. *)
LEMMA NextDayIsSweep ==
  ASSUME RollupInv, NEW s \in Sweepers, sweep[s].at # "rest"
  PROVE  /\ NextDay(s) \in Sweeps
         /\ NextDay(s).at # "rest" => NextDay(s).days # {}
         /\ \A l \in Lines : NextDay(s).groups[l] <= records[l][NextDay(s).day]
  <1>. DEFINE w == sweep[s]
              on == [w EXCEPT !.at = "group", !.days = w.days \ {w.day}]
  <1>1. w \in Sweeps /\ records \in Sums /\ w.days # {} /\ \A l \in Lines : w.groups[l] <= records[l][w.day]
    BY RollupTypes DEF RollupInv
  <1>2. NextDay(s) = IF w.days = {w.day} THEN Resting ELSE on
    BY DEF NextDay
  <1>. HIDE DEF w
  <1>3. CASE w.days = {w.day}
    <2>1. \A l \in Lines : 0 <= records[l][0]
      BY <1>1, RestingRests, MeteringAssumption DEF Sums
    <2>. QED  BY <1>2, <1>3, <2>1, RestingRests
  <1>4. CASE w.days # {w.day}
    <2>1. w.days \ {w.day} # {} /\ w.days \ {w.day} \in SUBSET Days
      BY <1>1, <1>4 DEF Sweeps
    <2>2. /\ on \in Sweeps /\ on.at = "group" /\ on.days = w.days \ {w.day}
          /\ on.groups = w.groups /\ on.day = w.day
      BY <1>1, <2>1 DEF Sweeps
    <2>. HIDE DEF on
    <2>. QED  BY <1>1, <1>2, <1>4, <2>1, <2>2
  <1>. QED  BY <1>3, <1>4

(* The records of a day are as they are when they are summed. *)
LEMMA GroupsKeepInv ==
  ASSUME RollupInv, NEW s \in Sweepers, RollupGroups(s)
  PROVE  RollupInv'
  <1>. DEFINE w == sweep[s]
              day == Min(w.days)
              groups == [l \in Lines |-> records[l][day]]
              todo == {l \in Lines : groups[l] > 0}
              next == [w EXCEPT !.at = "write", !.day = day, !.groups = groups, !.todo = todo]
  <1>1. /\ w \in Sweeps /\ records \in Sums /\ daily \in Sums /\ sweep \in [Sweepers -> Sweeps]
        /\ sweepFaults \in 0..MaxSweepFaults /\ (w.at # "rest" => w.days # {})
        /\ \A l \in Lines, d \in Days : daily[l][d] <= records[l][d]
    BY RollupTypes DEF RollupInv
  <1>2. /\ w.at = "group" /\ UNCHANGED <<today, records, daily, sweepFaults>>
        /\ sweep' = [sweep EXCEPT ![s].at = "write", ![s].day = day, ![s].groups = groups, ![s].todo = todo]
    BY Zenon DEF RollupGroups
  <1>3. sweep' = [sweep EXCEPT ![s] = next]
    <2>. HIDE DEF day, groups, todo
    <2>. QED  BY <1>1, <1>2 DEF Sweeps
  <1>. HIDE DEF w
  <1>4. day \in Days
    <2>0. w.days # {}
      <3>1. w.at = "group" /\ (w.at # "rest" => w.days # {})
        BY <1>1, <1>2, Zenon
      <3>. QED  BY <3>1
    <2>1. w.days # {} /\ w.days \in SUBSET Days
      BY <1>1, <2>0 DEF Sweeps
    <2>2. w.days \in SUBSET Nat
      BY <2>1, MeteringAssumption DEF Days
    <2>3. day \in w.days
      BY <2>1, <2>2, LeastExists
    <2>. QED  BY <2>1, <2>3
  <1>. HIDE DEF day
  <1>5. groups \in [Lines -> 0..MaxRecords] /\ \A l \in Lines : groups[l] = records[l][day]
    BY <1>1, <1>4 DEF Sums
  <1>. HIDE DEF groups
  <1>6. todo \in SUBSET Lines
    OBVIOUS
  <1>. HIDE DEF todo
  <1>7. /\ next \in Sweeps /\ next.days = w.days /\ next.day = day /\ next.groups = groups
    BY <1>1, <1>4, <1>5, <1>6 DEF Sweeps
  <1>. HIDE DEF next
  <1>8. \A l \in Lines : next.groups[l] <= records[l][next.day]
    BY <1>1, <1>4, <1>5, <1>7, MeteringAssumption DEF Sums
  <1>. QED  BY <1>1, <1>2, <1>3, <1>7, <1>8, SweepKeepsInv

(* What is written of a line was summed, and the records have grown since.  *)
LEMMA WriteKeepsInv ==
  ASSUME RollupInv, NEW s \in Sweepers, NEW l \in Lines, RollupWrite(s, l)
  PROVE  RollupInv'
  <1>. DEFINE w == sweep[s]
              next == [w EXCEPT !.todo = w.todo \ {l}]
  <1>1. /\ w \in Sweeps /\ records \in Sums /\ daily \in Sums /\ sweep \in [Sweepers -> Sweeps]
        /\ sweepFaults \in 0..MaxSweepFaults /\ (w.at # "rest" => w.days # {})
        /\ \A m \in Lines : w.groups[m] <= records[m][w.day]
        /\ \A m \in Lines, d \in Days : daily[m][d] <= records[m][d]
    BY RollupTypes DEF RollupInv
  <1>2. /\ w.at = "write" /\ UNCHANGED <<today, records, sweepFaults>>
        /\ daily' = [daily EXCEPT ![l][w.day] = w.groups[l]]
        /\ sweep' = [sweep EXCEPT ![s].todo = w.todo \ {l}]
    BY DEF RollupWrite
  <1>3. sweep' = [sweep EXCEPT ![s] = next]
    BY <1>1, <1>2
  <1>. HIDE DEF w
  <1>4. /\ next \in Sweeps /\ next.at = w.at /\ next.days = w.days /\ next.day = w.day /\ next.groups = w.groups
    BY <1>1 DEF Sweeps
  <1>. HIDE DEF next
  <1>5. daily' \in Sums /\ \A m \in Lines, d \in Days : daily'[m][d] <= records[m][d]
    <2>1. w.day \in Days /\ w.groups[l] \in 0..MaxRecords
      BY <1>1 DEF Sweeps
    <2>2. daily' \in Sums
      BY <1>1, <1>2, <2>1 DEF Sums
    <2>3. ASSUME NEW m \in Lines, NEW d \in Days
          PROVE  daily'[m][d] = IF m = l /\ d = w.day THEN w.groups[l] ELSE daily[m][d]
      BY <1>1, <1>2, <2>1 DEF Sums
    <2>. QED  BY <1>1, <2>2, <2>3
  <1>. QED  BY <1>1, <1>2, <1>3, <1>4, <1>5, SweepKeepsInv

(* Listing the rows changes none.                                           *)
LEMMA OrphansKeepInv ==
  ASSUME RollupInv, NEW s \in Sweepers, RollupOrphans(s)
  PROVE  RollupInv'
  <1>. DEFINE w == sweep[s]
              orphans == {l \in Lines : daily[l][w.day] > 0 /\ w.groups[l] = 0}
              zero == [w EXCEPT !.at = "zero", !.todo = orphans]
              next == IF orphans = {} THEN NextDay(s) ELSE zero
  <1>1. /\ w \in Sweeps /\ daily \in Sums /\ sweepFaults \in 0..MaxSweepFaults /\ (w.at # "rest" => w.days # {})
        /\ \A m \in Lines : w.groups[m] <= records[m][w.day]
        /\ \A m \in Lines, d \in Days : daily[m][d] <= records[m][d]
    BY RollupTypes DEF RollupInv
  <1>2. /\ w.at = "write" /\ UNCHANGED <<today, records, daily, sweepFaults>>
        /\ sweep' = [sweep EXCEPT ![s] = next]
    BY DEF RollupOrphans
  <1>3. /\ NextDay(s) \in Sweeps /\ (NextDay(s).at # "rest" => NextDay(s).days # {})
        /\ \A m \in Lines : NextDay(s).groups[m] <= records[m][NextDay(s).day]
    BY <1>2, NextDayIsSweep
  <1>4. orphans \in SUBSET Lines
    OBVIOUS
  <1>. HIDE DEF w, orphans
  <1>5. zero \in Sweeps /\ zero.days = w.days /\ zero.day = w.day /\ zero.groups = w.groups
    BY <1>1, <1>4 DEF Sweeps
  <1>. HIDE DEF zero
  <1>6. /\ next \in Sweeps /\ (next.at # "rest" => next.days # {})
        /\ \A m \in Lines : next.groups[m] <= records[m][next.day]
    BY <1>1, <1>2, <1>3, <1>5
  <1>. HIDE DEF next
  <1>. QED  BY <1>1, <1>2, <1>6, SweepKeepsInv

(* A row is set to zero, which no sum is below. *)
LEMMA ZeroKeepsInv ==
  ASSUME RollupInv, NEW s \in Sweepers, NEW l \in Lines, RollupZero(s, l)
  PROVE  RollupInv'
  <1>. DEFINE w == sweep[s]
              rest == [w EXCEPT !.todo = w.todo \ {l}]
              next == IF w.todo = {l} THEN NextDay(s) ELSE rest
  <1>1. /\ w \in Sweeps /\ records \in Sums /\ daily \in Sums /\ sweep \in [Sweepers -> Sweeps]
        /\ sweepFaults \in 0..MaxSweepFaults /\ (w.at # "rest" => w.days # {})
        /\ \A m \in Lines : w.groups[m] <= records[m][w.day]
        /\ \A m \in Lines, d \in Days : daily[m][d] <= records[m][d]
    BY RollupTypes DEF RollupInv
  <1>2. /\ w.at = "zero" /\ UNCHANGED <<today, records, sweepFaults>>
        /\ daily' = [daily EXCEPT ![l][w.day] = 0]
        /\ sweep' = [sweep EXCEPT ![s] = next]
    BY DEF RollupZero
  <1>3. /\ NextDay(s) \in Sweeps /\ (NextDay(s).at # "rest" => NextDay(s).days # {})
        /\ \A m \in Lines : NextDay(s).groups[m] <= records[m][NextDay(s).day]
    BY <1>2, NextDayIsSweep
  <1>. HIDE DEF w
  <1>4. rest \in Sweeps /\ rest.days = w.days /\ rest.day = w.day /\ rest.groups = w.groups
    BY <1>1 DEF Sweeps
  <1>. HIDE DEF rest
  <1>5. /\ next \in Sweeps /\ (next.at # "rest" => next.days # {})
        /\ \A m \in Lines : next.groups[m] <= records[m][next.day]
    BY <1>1, <1>2, <1>3, <1>4
  <1>. HIDE DEF next
  <1>6. daily' \in Sums /\ \A m \in Lines, d \in Days : daily'[m][d] <= records[m][d]
    <2>1. w.day \in Days /\ 0 \in 0..MaxRecords
      BY <1>1, MeteringAssumption DEF Sweeps
    <2>2. daily' \in Sums
      BY <1>1, <1>2, <2>1 DEF Sums
    <2>3. ASSUME NEW m \in Lines, NEW d \in Days
          PROVE  daily'[m][d] = IF m = l /\ d = w.day THEN 0 ELSE daily[m][d]
      BY <1>1, <1>2, <2>1 DEF Sums
    <2>4. \A m \in Lines, d \in Days : records[m][d] \in 0..MaxRecords
      BY <1>1 DEF Sums
    <2>5. \A m \in Lines, d \in Days : 0 <= records[m][d]
      BY <2>4, MeteringAssumption
    <2>. QED  BY <1>1, <2>2, <2>3, <2>5
  <1>. QED  BY <1>1, <1>2, <1>5, <1>6, SweepKeepsInv

(* A record adds to the sum of its line and day, within the bound.          *)
LEMMA MeterKeepsInv ==
  ASSUME RollupInv, NEW l \in Lines, meterCall(l)
  PROVE  RollupInv'
  <1>1. /\ today \in Days /\ records \in Sums /\ daily \in Sums /\ sweep \in [Sweepers -> Sweeps]
        /\ \A m \in Lines, d \in Days : daily[m][d] <= records[m][d]
    BY RollupTypes DEF RollupInv
  <1>2. /\ Total(records, Tenants, Days) < MaxRecords
        /\ records' = [records EXCEPT ![l][today] = records[l][today] + 1]
        /\ UNCHANGED <<today, daily, sweep, sweepFaults>>
    BY DEF meterCall
  <1>3. records[l][today] + 1 \in 0..MaxRecords
    <2>1. \A m \in Lines, d \in Days : records[m][d] <= records[m][d]
      <3>1. \A m \in Lines, d \in Days : records[m][d] \in Nat
        BY <1>1, MeteringAssumption DEF Sums
      <3>. QED  BY <3>1
    <2>2. Tenants \in SUBSET Tenants /\ Days \in SUBSET Days
      OBVIOUS
    <2>3. /\ Total(records, Tenants, Days) \in Nat
          /\ \A m \in Tenants \X Models, d \in Days : records[m][d] <= Total(records, Tenants, Days)
      BY <1>1, <2>1, <2>2, TotalsGrow
    <2>4. records[l][today] <= Total(records, Tenants, Days)
      BY <1>1, <2>3 DEF Lines
    <2>5. records[l][today] \in Nat
      BY <1>1, MeteringAssumption DEF Sums
    <2>. QED  BY <1>2, <2>3, <2>4, <2>5, MeteringAssumption
  <1>4. /\ records' \in Sums
        /\ \A m \in Lines, d \in Days :
             records'[m][d] = IF m = l /\ d = today THEN records[l][today] + 1 ELSE records[m][d]
    BY <1>1, <1>2, <1>3 DEF Sums
  <1>5. \A m \in Lines, d \in Days : /\ records[m][d] \in Nat /\ records'[m][d] \in Nat /\ daily[m][d] \in Nat
                                     /\ records[m][d] <= records'[m][d]
    <2>1. \A m \in Lines, d \in Days : records[m][d] \in Nat /\ records'[m][d] \in Nat /\ daily[m][d] \in Nat
      BY <1>1, <1>4, MeteringAssumption DEF Sums
    <2>. QED  BY <1>1, <1>4, <2>1
  <1>6. MeteringTypeOK'
    BY <1>2, <1>4 DEF RollupInv, MeteringTypeOK, Sums
  <1>7. ASSUME NEW s \in Sweepers
        PROVE  /\ sweep'[s].at # "rest" => sweep'[s].days # {}
               /\ \A m \in Lines : sweep'[s].groups[m] <= records'[m][sweep'[s].day]
    <2>. DEFINE w == sweep[s]
    <2>1. w \in Sweeps
      BY <1>1
    <2>2. w.day \in Days /\ \A m \in Lines : w.groups[m] \in Nat
      BY <2>1, MeteringAssumption DEF Sweeps
    <2>3. (w.at # "rest" => w.days # {}) /\ \A m \in Lines : w.groups[m] <= records[m][w.day]
      BY DEF RollupInv
    <2>. HIDE DEF w
    <2>4. \A m \in Lines : w.groups[m] <= records'[m][w.day]
      BY <1>5, <2>2, <2>3
    <2>5. sweep'[s] = w
      BY <1>2 DEF w
    <2>. QED  BY <2>3, <2>4, <2>5
  <1>8. \A m \in Lines, d \in Days : daily'[m][d] <= records'[m][d]
    BY <1>1, <1>2, <1>5
  <1>. QED  BY <1>6, <1>7, <1>8 DEF RollupInv

(* No step reports more than there is.                                      *)
LEMMA RollupInvSteps ==
  RollupInv /\ [MeteringNext]_meteringVars => RollupInv'
  <1>. SUFFICES ASSUME RollupInv, [MeteringNext]_meteringVars PROVE RollupInv'
    OBVIOUS
  <1>0. /\ today \in Days /\ records \in Sums /\ daily \in Sums /\ sweepFaults \in 0..MaxSweepFaults
        /\ \A m \in Lines, d \in Days : daily[m][d] <= records[m][d]
    BY RollupTypes DEF RollupInv
  <1>1. CASE UNCHANGED meteringVars
    BY <1>1 DEF RollupInv, MeteringTypeOK, meteringVars
  <1>2. CASE Midnight
    <2>1. today' \in Days
      BY <1>0, <1>2, MeteringAssumption DEF Midnight, Days
    <2>. QED  BY <1>2, <2>1 DEF Midnight, RollupInv, MeteringTypeOK
  <1>3. ASSUME NEW s \in Sweepers, rollupOnce(s) PROVE RollupInv'
    <2>. DEFINE next == [Resting EXCEPT !.at = "group", !.days = rolledDays]
    <2>1. sweep' = [sweep EXCEPT ![s] = next] /\ UNCHANGED <<today, records, daily, sweepFaults>>
      BY <1>3 DEF rollupOnce
    <2>2. rolledDays \in SUBSET Days /\ rolledDays # {}
      BY <1>0 DEF rolledDays
    <2>3. next \in Sweeps /\ next.days = rolledDays /\ next.day = 0 /\ next.groups = Resting.groups
      BY <2>2, RestingRests DEF Sweeps
    <2>. HIDE DEF next
    <2>4. \A l \in Lines : next.groups[l] <= records[l][next.day]
      <3>1. \A l \in Lines : records[l][0] \in 0..MaxRecords
        BY <1>0, RestingRests DEF Sums
      <3>2. \A l \in Lines : 0 <= records[l][0]
        BY <3>1, MeteringAssumption
      <3>. QED  BY <2>3, <3>2, RestingRests
    <2>. QED  BY <1>0, <2>1, <2>2, <2>3, <2>4, SweepKeepsInv
  <1>4. ASSUME NEW s \in Sweepers, RollupFails(s) PROVE RollupInv'
    <2>1. /\ sweep' = [sweep EXCEPT ![s] = Resting] /\ UNCHANGED <<today, records, daily>>
          /\ sweepFaults < MaxSweepFaults /\ sweepFaults' = sweepFaults + 1
      BY <1>4 DEF RollupFails
    <2>2. sweepFaults' \in 0..MaxSweepFaults
      BY <1>0, <2>1, MeteringAssumption
    <2>3. \A l \in Lines : Resting.groups[l] <= records[l][Resting.day]
      <3>1. \A l \in Lines : records[l][0] \in 0..MaxRecords
        BY <1>0, RestingRests DEF Sums
      <3>2. \A l \in Lines : 0 <= records[l][0]
        BY <3>1, MeteringAssumption
      <3>. QED  BY <3>2, RestingRests
    <2>. QED  BY <1>0, <2>1, <2>2, <2>3, RestingRests, SweepKeepsInv
  <1>. QED  BY <1>1, <1>2, <1>3, <1>4, MeterKeepsInv, GroupsKeepInv, WriteKeepsInv, OrphansKeepInv, ZeroKeepsInv
            DEF MeteringNext, rollupUsage

(* Every sum that is shown or about to be was the records' sum once.        *)
THEOREM RollupInvariant == MeteringSpec => []RollupInv
  BY RollupInvStarts, RollupInvSteps, PTL DEF MeteringSpec

(* A report covers days that exist and those alone. *)
LEMMA WindowHasBounds ==
  ASSUME today \in Days, NEW from \in Days \cup {-1}, NEW to \in Days \cup {-1}
  PROVE  LET window == resolveWindow(from, to)
         IN /\ window.to - window.from \in 0..(MaxDays - 1)
            /\ to # -1 => window.to = to
  <1>. DEFINE end == IF to = -1 THEN today ELSE to
              asked == IF from = -1 THEN end - (DefaultDays - 1) ELSE from
              earliest == end - (MaxDays - 1)
              start == IF asked < earliest THEN earliest ELSE asked
              first == IF start > end THEN end ELSE start
  <1>1. end \in Int /\ asked \in Int /\ MaxDays \in Nat \ {0}
    BY MeteringAssumption DEF Days
  <1>2. resolveWindow(from, to).from = first /\ resolveWindow(from, to).to = end
    BY DEF resolveWindow
  <1>3. to # -1 => end = to
    OBVIOUS
  <1>. HIDE DEF end, asked
  <1>4. end - first \in 0..(MaxDays - 1)
    BY <1>1
  <1>. QED  BY <1>2, <1>3, <1>4

(* The dashboard never shows more than the records say                      *)
(* (db/src/metering.ts), for any tenants, sweepers, days and windows.       *)
THEOREM ReportsNeverOverstate == MeteringSpec => []ReportsUnderstate
  <1>1. RollupInv => ReportsUnderstate
    <2>. SUFFICES ASSUME RollupInv, NEW tenant \in Tenants, NEW from \in Days \cup {-1}, NEW to \in Days \cup {-1}
                  PROVE  LET window == resolveWindow(from, to)
                         IN /\ listUsageDaily(tenant, window) <= spendByTenant(tenant, window)
                            /\ window.to - window.from \in 0..(MaxDays - 1)
                            /\ to # -1 => window.to = to
      BY DEF ReportsUnderstate
    <2>. DEFINE window == resolveWindow(from, to)
                days == (window.from .. window.to) \cap Days
    <2>1. /\ today \in Days /\ records \in Sums /\ daily \in Sums
          /\ \A l \in Lines, d \in Days : daily[l][d] <= records[l][d]
      BY RollupTypes DEF RollupInv
    <2>2. days \in SUBSET Days /\ {tenant} \in SUBSET Tenants
      OBVIOUS
    <2>3. Total(daily, {tenant}, days) <= Total(records, {tenant}, days)
      <3>. HIDE DEF days
      <3>. QED  BY <2>1, <2>2, TotalsGrow
    <2>4. listUsageDaily(tenant, window) <= spendByTenant(tenant, window)
      BY <2>3 DEF listUsageDaily, spendByTenant
    <2>. QED  BY <2>1, <2>4, WindowHasBounds
  <1>. QED  BY <1>1, RollupInvariant, PTL
==============================================================================
