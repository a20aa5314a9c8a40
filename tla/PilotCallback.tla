--------------------------- MODULE PilotCallback ---------------------------
(***************************************************************************)
(* The callback endpoint of api/pilot_callback.py, as do_POST is written:  *)
(* it checks a signature and the shape of an event, refuses an event id it *)
(* remembers, remembers the others in memory, and keeps nothing else.  It  *)
(* never calls the durable adapter that the same file builds.              *)
(***************************************************************************)
EXTENDS Naturals, Sequences

CONSTANTS
    EventIds,      \* the UUIDs that workers give their events
    Spellings,     \* the ways to write one: its digits in lower or in upper case
    MaxReplayIds,  \* MAX_REPLAY_IDS
    MaxAccepted    \* bounds the history

VARIABLES
    seen,          \* _seen_event_ids, oldest first
    accepted       \* the ids answered 202 and the restarts, in order

cacheVars == <<seen, accepted>>

\* An id is compared with its canonical form in lower case and kept as it was
\* received, so two spellings of one UUID are two ids.
SpelledIds == EventIds \X Spellings

Restarted == <<>>

CacheInit == seen = <<>> /\ accepted = <<>>

\* popitem(last=False), when the cache has outgrown its bound.
DropOldest(ids) == IF Len(ids) > MaxReplayIds THEN Tail(ids) ELSE ids

\* do_POST of a signed event: _record_event_id, then the receipt.  An id that is
\* remembered is answered 409 and changes nothing.
Receive(id) ==
    /\ Len(accepted) < MaxAccepted
    /\ \A i \in DOMAIN seen : seen[i] # id
    /\ seen' = DropOldest(Append(seen, id))
    /\ accepted' = Append(accepted, id)

\* The process is replaced; _seen_event_ids starts out empty.
Restart ==
    /\ Len(accepted) < MaxAccepted
    /\ seen' = <<>>
    /\ accepted' = Append(accepted, Restarted)

CacheNext == (\E id \in SpelledIds : Receive(id)) \/ Restart

CacheSpec == CacheInit /\ [][CacheNext]_cacheVars

-----------------------------------------------------------------------------
\* Less than pilot_callback.py:3-4 says, that a process accepts an event once:
\* between two acceptances of one id, as it is spelled, the process was restarted or
\* accepted at least as many others as its cache remembers.
ReplayBounded ==
    \A i, k \in DOMAIN accepted :
        i < k /\ accepted[i] = accepted[k] /\ accepted[i] # Restarted =>
            \/ \E n \in i..k : accepted[n] = Restarted
            \/ k - i > MaxReplayIds
=============================================================================
