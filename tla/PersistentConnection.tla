------------------------ MODULE PersistentConnection ------------------------
(***************************************************************************)
(* The connection of the Realtime Database, class PersistentConnection of  *)
(* packages/database/src/core/PersistentConnection.ts.  Its state is part  *)
(* of the client record c, and its methods are operators on it.            *)
(*                                                                         *)
(* Fields of c:                                                            *)
(*   phase    "idle": no realtime_ and no timer, "scheduled": the timer is *)
(*            set, "connecting": fetching tokens or shaking hands,         *)
(*            "open": connected_                                           *)
(*   first    firstConnection_                                             *)
(*   reasons  interruptReasons_                                            *)
(*   online   what OnlineMonitor last heard from the browser               *)
(*   puts     outstandingPuts_ without its holes; put.queued tells whether *)
(*            a put was sent on some connection, and put.hash is NoHash    *)
(*            unless the put is for transactions                           *)
(*   up       the requests of the last connection that the server has not  *)
(*            handled, in the order in which they were sent                *)
(*   cache    the data of the one listen, whose hash a request carries     *)
(*                                                                         *)
(* Delays of the timer are left out, and so are credentials, get(),        *)
(* onDisconnect() and statistics.                                          *)
(***************************************************************************)
EXTENDS Sequences, SequencesExt, Filtering

(* shouldReconnect_                                                        *)
ShouldReconnect(c) == c.reasons = {} /\ c.online

HasRealtime(c) == c.phase \in {"connecting", "open"}

(* scheduleConnect_, where realtime_ is known to be null: a timer that is  *)
(* set already is replaced.                                                *)
ScheduleConnect(c) == [c EXCEPT !.phase = "scheduled"]

InitConnection(c) ==
  IF ~HasRealtime(c) /\ c.first THEN ScheduleConnect(c) ELSE c

(* sendPut_                                                                *)
SendPut(c, put) == [c EXCEPT !.up = Append(@, [kind |-> "put", put |-> put])]

(* putInternal: put() and merge().                                         *)
PutInternal(c, put) ==
  LET d == InitConnection(c)
  IN  IF d.phase = "open"
        THEN SendPut([d EXCEPT !.puts = Append(@, [put EXCEPT !.queued = TRUE])], put)
        ELSE [d EXCEPT !.puts = Append(@, put)]

(* Mutant: only what was never sent is sent on a new connection.           *)
RestoreUnsent(c) ==
  LET sent == [c EXCEPT !.puts = [i \in DOMAIN @ |-> [@[i] EXCEPT !.queued = TRUE]],
                        !.up = <<[kind |-> "listen", hash |-> c.cache]>>]
  IN  FoldLeft(SendPut, sent, Filter(c.puts, {put \in Range(c.puts) : ~put.queued}))

(* restoreState_: listens before puts, puts in their old order.            *)
RestoreState(c) ==
  LET sent == [c EXCEPT !.puts = [i \in DOMAIN @ |-> [@[i] EXCEPT !.queued = TRUE]],
                        !.up = <<[kind |-> "listen", hash |-> c.cache]>>]
  IN  FoldLeft(SendPut, sent, c.puts)

(* onReady_                                                                *)
OnReady(c) == RestoreState([c EXCEPT !.phase = "open", !.first = FALSE])

(* establishConnection_                                                    *)
EstablishConnection(c) ==
  [c EXCEPT !.phase = IF ShouldReconnect(c) THEN "connecting" ELSE "idle"]

(* interrupt, but for the closing of a connection that exists.             *)
Interrupt(c, reason) ==
  [c EXCEPT !.reasons = @ \cup {reason},
            !.phase = IF HasRealtime(c) THEN @ ELSE "idle"]

(* Mutant: resuming waits for the timer, which was cleared.                *)
ResumeUnscheduled(c, reason) == [c EXCEPT !.reasons = @ \ {reason}]

Resume(c, reason) ==
  LET d == [c EXCEPT !.reasons = @ \ {reason}]
  IN  IF d.reasons = {} /\ ~HasRealtime(d) THEN ScheduleConnect(d) ELSE d

(* onOnline_, but for the closing of the connection.                       *)
OnOnline(c, online) ==
  LET d == [c EXCEPT !.online = online]
  IN  IF online /\ ~HasRealtime(d) THEN ScheduleConnect(d) ELSE d

(* onRealtimeDisconnect_ after the cancelled transactions: requests that   *)
(* were sent may still reach the server, their answers are not awaited.    *)
ReconnectLater(c) == IF ShouldReconnect(c) THEN ScheduleConnect(c) ELSE c

(* cancelSentTransactions_ cancels these.                                  *)
IsSentTransaction(put) == put.queued /\ put.txns # << >>

(* The handler of a response takes its put off the list.                   *)
Forget(c, id) ==
  [c EXCEPT !.puts = Filter(@, {put \in Range(@) : put.id # id})]

=============================================================================
