-------------------------------- MODULE Tunnel --------------------------------
(***************************************************************************)
(* A loopback tunnel over iroh (iroh-transport/src/index.ts): one socket   *)
(* that an application opens to the near end, the stream that is opened    *)
(* for it, the socket the far end opens to its own application, and a pump *)
(* at each of them, while the connection under the stream ends or is       *)
(* replaced (boot.ts, apps/client/src/index.ts).                           *)
(*                                                                         *)
(* A chunk of bytes is the number of the write it comes from.              *)
(***************************************************************************)
EXTENDS Naturals, Sequences, SequencesExt

CONSTANT TunnelChunks     \* bound: what the application of each side writes

Sides == {"near", "far"}
Peer(s) == IF s = "near" THEN "far" ELSE "near"
TunnelAssumption == TunnelChunks \in [Sides -> Nat]

Fin == 0            \* the end of a stream
Second == 2         \* bound: the connections the peer dials

VARIABLES
    attached,   \* startConnectionTunnel: current, 0 for none
    over,       \* the connections that have ended
    biStream,   \* the stream of the socket: its connection and its stage
    socket,     \* the socket of each side
    app,        \* each application: its writes, those read of them, its end
    pump,       \* pipeBiStreamToSocket at each side
    wire,       \* what each side has sent, not read yet
    received    \* what each side has written to its socket

tunnelVars == <<attached, over, biStream, socket, app, pump, wire, received>>

NoPump == [on |-> FALSE, recvDone |-> FALSE, sendDone |-> FALSE, socketEnded |-> FALSE, settled |-> FALSE,
           ended |-> FALSE, stopped |-> FALSE, reading |-> "done", chain |-> <<>>]
NewPump == [NoPump EXCEPT !.on = TRUE, !.reading = "next"]

TunnelInit ==
    /\ attached = 1 /\ over = {}
    /\ biStream = [conn |-> 0, stage |-> "none"]
    /\ socket = [s \in Sides |-> "none"]
    /\ app = [s \in Sides |-> [wrote |-> 0, taken |-> 0, ended |-> FALSE]]
    /\ pump = [s \in Sides |-> NoPump]
    /\ wire = [s \in Sides |-> <<>>] /\ received = [s \in Sides |-> <<>>]

-----------------------------------------------------------------------------
(* What a pump does with its stream *)

(* finishSend: the end is queued behind the data.                           *)
Finished(p) == IF p.sendDone THEN p ELSE [p EXCEPT !.sendDone = TRUE, !.chain = Append(@, Fin)]

(* stopRecv: nothing is stopped twice, nor after the loop has ended.        *)
Stopped(p) == IF p.recvDone THEN p ELSE [p EXCEPT !.recvDone = TRUE, !.stopped = TRUE, !.reading = "done"]

(* settle, with the socket destroyed                                        *)
Settled(p) == IF p.settled THEN p ELSE Stopped(Finished([p EXCEPT !.settled = TRUE]))
Shut(status) == IF status = "open" THEN "destroyed" ELSE status
Settles(s, p) == /\ pump' = [pump EXCEPT ![s] = Settled(p)]
                 /\ socket' = [socket EXCEPT ![s] = Shut(@)]

Carried == biStream.conn \notin over

-----------------------------------------------------------------------------
(* The tunnel and its connections *)

(* The callback of createServer                                             *)
Connects ==
    /\ socket["near"] = "none"
    /\ socket' = [socket EXCEPT !["near"] = IF attached = 0 THEN "destroyed" ELSE "open"]
    /\ biStream' = IF attached = 0 THEN biStream ELSE [conn |-> attached, stage |-> "opening"]
    /\ UNCHANGED <<attached, over, app, pump, wire, received>>

(* openBi resolves, perhaps when the socket is gone, or rejects.            *)
Opens ==
    /\ biStream.stage = "opening"
    /\ \/ /\ biStream' = [biStream EXCEPT !.stage = "open"]
          /\ pump' = [pump EXCEPT !["near"] = NewPump]
          /\ UNCHANGED socket
       \/ /\ ~Carried
          /\ biStream' = [biStream EXCEPT !.stage = "failed"]
          /\ socket' = [socket EXCEPT !["near"] = Shut(@)]
          /\ UNCHANGED pump
    /\ UNCHANGED <<attached, over, app, wire, received>>

(* openSocketStream: the far end learns of a stream by what is sent on it.  *)
CanAccept == biStream.stage = "open" /\ Carried /\ wire["near"] # <<>>
Accepts ==
    /\ CanAccept
    /\ biStream' = [biStream EXCEPT !.stage = "accepted"]
    /\ socket' = [socket EXCEPT !["far"] = "open"]
    /\ pump' = [pump EXCEPT !["far"] = NewPump]
    /\ UNCHANGED <<attached, over, app, wire, received>>

(* pipeBiStreamToPort rejects, which ends the link of the far end.          *)
LinkEnds ==
    /\ CanAccept
    /\ biStream' = [biStream EXCEPT !.stage = "refused"]
    /\ over' = over \cup {biStream.conn}
    /\ UNCHANGED <<attached, socket, app, pump, wire, received>>

(* setConnection *)
SetConnection(next) == /\ socket' = [socket EXCEPT !["near"] = Shut(@)]
                       /\ attached' = next

(* handleClientDialIn: the prior connection is closed.                      *)
DialsIn ==
    /\ attached # Second /\ Second \notin over
    /\ over' = over \cup {1}
    /\ SetConnection(Second)
    /\ UNCHANGED <<biStream, app, pump, wire, received>>

(* onClientGone, of the connection that is attached                         *)
ClientGone ==
    /\ attached # 0 /\ attached \in over
    /\ SetConnection(0)
    /\ UNCHANGED <<over, biStream, app, pump, wire, received>>

ConnectionEnds ==
    /\ attached # 0 /\ attached \notin over
    /\ over' = over \cup {attached}
    /\ UNCHANGED <<attached, biStream, socket, app, pump, wire, received>>

-----------------------------------------------------------------------------
(* The applications *)

(* The far one answers what it has got.                                     *)
Speaks(s) == socket[s] = "open" /\ ~app[s].ended /\ (s = "far" => received[s] # <<>> \/ pump[s].socketEnded)
Writes(s) ==
    /\ Speaks(s) /\ app[s].wrote < TunnelChunks[s]
    /\ app' = [app EXCEPT ![s].wrote = @ + 1]
    /\ UNCHANGED <<attached, over, biStream, socket, pump, wire, received>>
SpeaksLast(s) ==
    /\ Speaks(s)
    /\ app' = [app EXCEPT ![s].ended = TRUE]
    /\ UNCHANGED <<attached, over, biStream, socket, pump, wire, received>>

(* A socket fails under its pump; one whose stream is still being opened has*)
(* no listener for that, and the process ends with all it holds.            *)
Breaks(s) ==
    /\ socket[s] = "open"
    /\ \/ /\ pump[s].on /\ Settles(s, pump[s])
          /\ UNCHANGED <<attached, over, biStream>>
       \/ /\ ~pump[s].on
          /\ attached' = 0 /\ over' = 1..Second
          /\ biStream' = [biStream EXCEPT !.stage = "failed"]
          /\ socket' = [socket EXCEPT ![s] = "closed"]
          /\ UNCHANGED pump
    /\ UNCHANGED <<app, wire, received>>

-----------------------------------------------------------------------------
(* pipeBiStreamToSocket *)

(* The socket's "data"                                                      *)
CanTake(s) == pump[s].on /\ socket[s] = "open" /\ app[s].taken < app[s].wrote
Data(s) ==
    /\ CanTake(s)
    /\ app' = [app EXCEPT ![s].taken = @ + 1]
    /\ pump' = [pump EXCEPT ![s].chain = IF pump[s].sendDone THEN @ ELSE Append(@, app[s].taken + 1)]
    /\ UNCHANGED <<attached, over, biStream, socket, wire, received>>

(* "end".  The sockets are not half-open: one that has ended takes no more. *)
CanEnd(s) == /\ pump[s].on /\ socket[s] = "open" /\ ~pump[s].ended
             /\ app[s].ended /\ app[s].taken = app[s].wrote
End(s) ==
    /\ CanEnd(s)
    /\ pump' = [pump EXCEPT ![s] = Finished([@ EXCEPT !.ended = TRUE])]
    /\ UNCHANGED <<attached, over, biStream, socket, app, wire, received>>

(* "close" *)
CanClose(s) == socket[s] = "destroyed" \/ (socket[s] = "open" /\ pump[s].ended)
Close(s) ==
    /\ CanClose(s)
    /\ socket' = [socket EXCEPT ![s] = "closed"]
    /\ pump' = [pump EXCEPT ![s] = IF @.on THEN Settled(@) ELSE @]
    /\ UNCHANGED <<attached, over, biStream, app, wire, received>>

(* The chain of sends: a write that is refused, for the peer has stopped or *)
(* the connection is gone, keeps whatever is queued behind it.              *)
Send(s) ==
    /\ pump[s].chain # <<>>
    /\ LET chunk == Head(pump[s].chain)
           refused == ~Carried \/ pump[Peer(s)].stopped
           sent == [pump[s] EXCEPT !.chain = Tail(@)]
       IN  \/ /\ refused /\ chunk # Fin
              /\ Settles(s, [pump[s] EXCEPT !.chain = <<>>, !.sendDone = TRUE])
              /\ UNCHANGED wire
           \/ /\ ~refused \/ chunk = Fin
              /\ pump' = [pump EXCEPT ![s] = sent]
              /\ wire' = [wire EXCEPT ![s] = IF refused THEN @ ELSE Append(@, chunk)]
              /\ UNCHANGED socket
    /\ UNCHANGED <<attached, over, biStream, app, received>>

(* recvLoop *)
LoopEnds(s) == [pump[s] EXCEPT !.recvDone = TRUE, !.reading = "done"]
CanReceive(s) == pump[s].reading = "next" /\ (~Carried \/ wire[Peer(s)] # <<>>)
ReadFails(s) == ~Carried /\ Settles(s, pump[s]) /\ UNCHANGED <<wire, received>>
PeerFinished(s) ==
    /\ Carried /\ Head(wire[Peer(s)]) = Fin
    /\ pump' = [pump EXCEPT ![s] = [LoopEnds(s) EXCEPT !.socketEnded = socket[s] = "open"]]
    /\ wire' = [wire EXCEPT ![Peer(s)] = Tail(@)]
    /\ UNCHANGED <<socket, received>>
ChunkArrives(s) ==
    /\ Carried /\ Head(wire[Peer(s)]) # Fin
    /\ wire' = [wire EXCEPT ![Peer(s)] = Tail(@)]
    /\ \/ /\ socket[s] # "open"
          /\ pump' = [pump EXCEPT ![s] = LoopEnds(s)]
          /\ UNCHANGED <<socket, received>>
       \/ /\ socket[s] = "open" /\ pump[s].ended
          /\ Settles(s, pump[s]) /\ UNCHANGED received
       \/ /\ socket[s] = "open" /\ ~pump[s].ended
          /\ received' = [received EXCEPT ![s] = Append(@, Head(wire[Peer(s)]))]
          /\ \E full \in BOOLEAN : pump' = [pump EXCEPT ![s].reading = IF full THEN "drain" ELSE "next"]
          /\ UNCHANGED socket
Receive(s) == /\ CanReceive(s)
              /\ ReadFails(s) \/ PeerFinished(s) \/ ChunkArrives(s)
              /\ UNCHANGED <<attached, over, biStream, app>>

CanDrain(s) == pump[s].reading = "drain" /\ socket[s] = "open"
Drain(s) == /\ CanDrain(s)
            /\ pump' = [pump EXCEPT ![s].reading = "next"]
            /\ UNCHANGED <<attached, over, biStream, socket, app, wire, received>>

TunnelNext == \/ Connects \/ Opens \/ Accepts \/ LinkEnds \/ DialsIn \/ ClientGone \/ ConnectionEnds
              \/ \E s \in Sides : \/ Writes(s) \/ SpeaksLast(s) \/ Breaks(s) \/ Data(s) \/ End(s) \/ Close(s)
                                  \/ Send(s) \/ Receive(s) \/ Drain(s)

TunnelSpec == TunnelInit /\ [][TunnelNext]_tunnelVars

-----------------------------------------------------------------------------
TunnelTypeOK ==
    /\ attached \in 0..Second /\ over \subseteq 1..Second
    /\ biStream.stage \in {"none", "opening", "open", "accepted", "refused", "failed"}
    /\ \A s \in Sides : /\ socket[s] \in {"none", "open", "destroyed", "closed"}
                        /\ pump[s].reading \in {"next", "drain", "done"}
                        /\ app[s].taken <= app[s].wrote

(* Nothing is left for the pumps to do.                                     *)
AtRest == /\ biStream.stage # "opening" /\ ~CanAccept
         /\ \A s \in Sides : /\ ~CanTake(s) /\ ~CanEnd(s) /\ ~CanClose(s) /\ pump[s].chain = <<>>
                             /\ ~CanReceive(s) /\ ~CanDrain(s)

(* An application gets what the other wrote, in order, and an end only after*)
(* all of it, unless the other's socket failed: a later finish() never      *)
(* overtakes data that is still queued.                                     *)
All(n) == [i \in 1..n |-> i]
Relayed ==
    \A s \in Sides :
      /\ IsPrefix(received[s], All(app[Peer(s)].wrote))
      /\ pump[s].socketEnded =>
            IF pump[Peer(s)].ended THEN received[s] = All(app[Peer(s)].wrote) ELSE pump[Peer(s)].settled

(* While both are there nothing waits for ever, slow readers included; and  *)
(* when one is gone, the other has seen the end, and its next write fails.  *)
GoneIsTold ==
    AtRest /\ biStream.stage = "accepted" /\ Carried =>
      \A s \in Sides : socket[s] = "open" =>
         IF socket[Peer(s)] = "open" THEN received[s] = All(app[Peer(s)].wrote)
         ELSE pump[s].socketEnded /\ pump[Peer(s)].stopped

(* A keep-alive client does not talk to a connection that was replaced, and *)
(* no pump outlives its socket, even one that began when it was gone.       *)
SwapCutsOff == /\ socket["near"] = "open" => biStream.conn = attached
               /\ AtRest => \A s \in Sides : pump[s].on /\ socket[s] # "open" => pump[s].settled

TunnelHolds == Relayed /\ GoneIsTold /\ SwapCutsOff
===============================================================================
