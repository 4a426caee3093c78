------------------------------ MODULE EventFeed ------------------------------
(***************************************************************************)
(* What the progress bus promises the readers of one run: a log that only  *)
(* grows, of which every reader gets a prefix, one event at a time, in     *)
(* order, each exactly once; and the feed ends only when the run is over.  *)
(***************************************************************************)
EXTENDS Naturals, Sequences

CONSTANT Readers

VARIABLES
  published,  \* how many events the run has published so far
  over,       \* the run has concluded
  received,   \* the events each reader got, by their position
  ended       \* the readers whose feed has been closed

feedVars == <<published, over, received, ended>>

FeedInit ==
  /\ published = 0
  /\ over = FALSE
  /\ received = [r \in Readers |-> <<>>]
  /\ ended = {}

PublishEvent ==
  /\ published' = published + 1
  /\ UNCHANGED <<over, received, ended>>

RunConcludes ==
  /\ over' = TRUE
  /\ UNCHANGED <<published, received, ended>>

Receive(r) ==
  /\ r \notin ended
  /\ Len(received[r]) < published
  /\ received' = [received EXCEPT ![r] = Append(@, Len(@) + 1)]
  /\ ended' \in {ended, ended \cup {r}}
  /\ ended' # ended => over
  /\ UNCHANGED <<published, over>>

CloseFeed(r) ==
  /\ over
  /\ ended' = ended \cup {r}
  /\ UNCHANGED <<published, over, received>>

FeedNext ==
  \/ PublishEvent \/ RunConcludes
  \/ \E r \in Readers : Receive(r) \/ CloseFeed(r)

FeedSpec == FeedInit /\ [][FeedNext]_feedVars
=============================================================================
