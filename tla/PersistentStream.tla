-------------------------- MODULE PersistentStream --------------------------
(***************************************************************************)
(* The client side of one long-lived RPC: class PersistentStream of        *)
(* packages/firestore/src/remote/persistent_stream.ts, with the parts of   *)
(* PersistentWriteStream that touch its state.  The stream is data owned   *)
(* by the RemoteStore, so its methods are written as operators on a record *)
(* s; a module that owns a stream applies them inside its handlers.        *)
(*                                                                         *)
(* Fields of s used here:                                                  *)
(*   state       the PersistentStreamState (Healthy is kept within Open:   *)
(*               it only decides whether a token is invalidated)           *)
(*   closeCount  the generation that stream callbacks are tagged with      *)
(*   handshake   responseCount > 0                                         *)
(*   idle        the idle timer is running                                 *)
(*   backoff     the backoff timer is running                              *)
(*   stream      index in rpcs of the underlying RPC, 0 for null           *)
(*   rpcs        every attempt auth() began, oldest first: the generation  *)
(*               it captured, the user its token names (0: none yet), how  *)
(*               far it got, and the requests the backend has not read     *)
(***************************************************************************)
EXTENDS Naturals, Sequences

StreamStates == {"Initial", "Starting", "Open", "Error", "Backoff"}
RpcPhases == {"auth", "token", "connecting", "open", "ready", "closed"}

Handshake == 0  \* The request that opens the protocol; mutations are >= 1.

IsOpen(s) == s.state = "Open"

IsStarted(s) == IsOpen(s) \/ s.state \in {"Starting", "Backoff"}

(* auth() leaves a getToken() continuation behind, which remembers the     *)
(* generation it belongs to.                                               *)
Auth(s) ==
  [s EXCEPT !.state = "Starting",
            !.rpcs = Append(@, [cc |-> s.closeCount, phase |-> "auth",
                                user |-> 0, reqs |-> <<>>])]

PerformBackoff(s) == [s EXCEPT !.state = "Backoff", !.backoff = TRUE]

StartStream(s) ==
  LET fresh == [s EXCEPT !.handshake = FALSE]
  IN  IF s.state = "Error" THEN PerformBackoff(fresh) ELSE Auth(fresh)

InhibitBackoff(s) == [s EXCEPT !.state = "Initial"]

MarkIdle(s) == IF IsOpen(s) THEN [s EXCEPT !.idle = TRUE] ELSE s

(* What an RPC makes of messages it is given: once it has ended on either  *)
(* side it drops them ("Not sending because RPC is closed").               *)
Sent(rpc, msgs) ==
  IF rpc.phase = "closed" THEN rpc ELSE [rpc EXCEPT !.reqs = @ \o msgs]

(* Mutant: sending does not mark the stream active again.                  *)
SendKeepsIdleTimer(s, msgs) ==
  IF msgs = <<>> THEN s ELSE [s EXCEPT !.rpcs[s.stream] = Sent(@, msgs)]

(* sendRequest for each of a sequence of messages.                         *)
Send(s, msgs) ==
  IF msgs = <<>>
    THEN s
    ELSE [s EXCEPT !.idle = FALSE, !.rpcs[s.stream] = Sent(@, msgs)]

(* close(): cancel the timers, invalidate the callbacks, drop the RPC.  The *)
(* empty request that tearDown() sends after a handshake changes nothing.  *)
(* The caller runs the onClose listener.                                   *)
CloseStream(s, finalState) ==
  [s EXCEPT !.idle = FALSE, !.backoff = FALSE,
            !.closeCount = @ + 1,
            !.rpcs = IF s.stream = 0
                       THEN @ ELSE [@ EXCEPT ![s.stream].phase = "closed"],
            !.stream = 0,
            !.state = finalState]

(* The RPC ended on the other side.                                        *)
HandleStreamClose(s) == CloseStream([s EXCEPT !.stream = 0], "Error")

=============================================================================
