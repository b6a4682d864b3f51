------------------------------ MODULE ChatFeed ------------------------------
(***************************************************************************)
(* What the chat pipeline promises a widget, without workers, buffers or   *)
(* timers: a stream on one channel shows a subsequence of that channel's   *)
(* chat, in the order it arrived, in batches of bounded size; streams end  *)
(* once the server stops, and none opens afterwards.  Chat may be lost (a  *)
(* full queue, a cut batch, nobody watching), never repeated or reordered. *)
(***************************************************************************)
EXTENDS Naturals, Sequences

CONSTANTS ChannelIDs, Streams, None, MaxBatch

VARIABLES
    log,      \* the channel of every message, in order of arrival
    feed,     \* the channel a stream shows
    state,    \* of a stream
    shown,    \* the messages shown on it
    stopping

vars == <<log, feed, state, shown, stopping>>

Init ==
    /\ log = <<>>
    /\ feed = [s \in Streams |-> None]
    /\ state = [s \in Streams |-> "new"]
    /\ shown = [s \in Streams |-> <<>>]
    /\ stopping = FALSE

Arrive(id) ==
    /\ log' = Append(log, id)
    /\ UNCHANGED <<feed, state, shown, stopping>>

Open(s, id) ==
    /\ state[s] = "new" /\ ~stopping
    /\ state' = [state EXCEPT ![s] = "open"]
    /\ feed' = [feed EXCEPT ![s] = id]
    /\ UNCHANGED <<log, shown, stopping>>

Reject(s) ==
    /\ state[s] = "new"
    /\ state' = [state EXCEPT ![s] = "rejected"]
    /\ UNCHANGED <<log, feed, shown, stopping>>

\* A batch of the channel's newer messages, some of them lost.
Show(s) ==
    /\ state[s] = "open"
    /\ \E n \in 1..MaxBatch : Len(shown'[s]) = Len(shown[s]) + n
    /\ \A i \in DOMAIN shown[s] : shown'[s][i] = shown[s][i]
    /\ \A i \in (Len(shown[s]) + 1)..Len(shown'[s]) :
          /\ shown'[s][i] \in DOMAIN log
          /\ log[shown'[s][i]] = feed[s]
          /\ i > 1 => shown'[s][i - 1] < shown'[s][i]
    /\ \A r \in Streams \ {s} : shown'[r] = shown[r]
    /\ UNCHANGED <<log, feed, state, stopping>>

End(s) ==
    /\ state[s] = "open"
    /\ state' = [state EXCEPT ![s] = "ended"]
    /\ UNCHANGED <<log, feed, shown, stopping>>

Stop ==
    /\ stopping' = TRUE
    /\ UNCHANGED <<log, feed, state, shown>>

Next ==
    \/ \E id \in ChannelIDs : Arrive(id) \/ \E s \in Streams : Open(s, id)
    \/ \E s \in Streams : Reject(s) \/ Show(s) \/ End(s)
    \/ Stop

Spec == Init /\ [][Next]_vars

FairSpec == Spec /\ \A s \in Streams : WF_vars(stopping /\ End(s))
=============================================================================
