------------------------------ MODULE IrohLink ------------------------------
(***************************************************************************)
(* How a peer behind a NAT stays reachable: a remote worker, or the tool   *)
(* client of a local agent, dials the control plane over iroh again and    *)
(* again (niri-runtime/iroh-link.ts, apps/client/src/index.ts), and the    *)
(* control plane keeps one connection of it (apps/server/src/iroh.ts,      *)
(* boot.ts), reachable through a loopback tunnel (iroh-transport), while   *)
(* the agent manager takes registrations and tunnels away.                 *)
(*                                                                         *)
(* The two sides of a connection notice its end at different times, so     *)
(* that several connections of one peer are under way in the server.  What *)
(* flows over the streams is in Tunnel; left out are bad tokens and identities,*)
(* which are a matter of configuration.                                    *)
(***************************************************************************)
EXTENDS Integers

CONSTANTS
    MaxConns,   \* bound: connections dialled
    MaxEdits    \* bound: reconciliations of the agent by the manager

LinkAssumption == MaxConns \in Nat /\ MaxEdits \in Nat

VARIABLES
    role,       \* what dials: "worker" or "client"
    dialled,    \* how many connections there have been
    up,         \* those the transport still carries
    handler,    \* handleConnection of each: its stage
    ingress,    \* the connections whose reverse-RPC ingress is open
    kept,       \* the connection in the registry, or in clientConnections
    route,      \* where requests go: the connection registered in the
                \* control database, or attached to the client's tunnel
    accepts,    \* remoteAgentIds has the agent, or its client tunnel exists
    edits,
    peer,       \* the dialling loop: the connection it has, and its stage
    overtaken   \* the manager has reconciled since kept was registered

linkVars == <<role, dialled, up, handler, ingress, kept, route, accepts, edits,
              peer, overtaken>>

Conns == 1..MaxConns
Handlers == {"none", "handshake", "registering", "live", "closing", "done"}

LinkInit ==
    /\ role \in {"worker", "client"}
    /\ dialled = 0 /\ up = {} /\ ingress = {}
    /\ handler = [c \in Conns |-> "none"]
    /\ kept = 0 /\ route = 0 /\ accepts = TRUE /\ edits = 0
    /\ peer = [conn |-> 0, stage |-> "idle"]
    /\ overtaken = FALSE

LinkTypeOK ==
    /\ dialled \in 0..MaxConns /\ up \subseteq Conns /\ ingress \subseteq Conns
    /\ handler \in [Conns -> Handlers]
    /\ kept \in 0..MaxConns /\ route \in 0..MaxConns
    /\ accepts \in BOOLEAN /\ edits \in 0..MaxEdits /\ overtaken \in BOOLEAN
    /\ peer \in [conn : 0..MaxConns, stage : {"idle", "dialling", "connected", "sleeping"}]

-----------------------------------------------------------------------------
(* The peer *)

(* dialControlPlane: the connection and the handshake line.                 *)
Dial ==
    /\ peer.stage = "idle" /\ dialled < MaxConns
    /\ dialled' = dialled + 1
    /\ up' = up \cup {dialled'}
    /\ handler' = [handler EXCEPT ![dialled'] = "handshake"]
    /\ peer' = [conn |-> dialled', stage |-> "dialling"]
    /\ UNCHANGED <<role, ingress, kept, route, accepts, edits, overtaken>>

(* The acknowledgement arrives.                                             *)
Connected ==
    /\ peer.stage = "dialling" /\ handler[peer.conn] = "live"
    /\ peer' = [peer EXCEPT !.stage = "connected"]
    /\ UNCHANGED <<role, dialled, up, handler, ingress, kept, route, accepts, edits, overtaken>>

(* A dial that is rejected, or lost before its acknowledgement, is closed   *)
(* and tried again after a while.                                           *)
DialFails ==
    /\ peer.stage = "dialling"
    /\ peer.conn \notin up \/ handler[peer.conn] = "done"
    /\ up' = up \ {peer.conn}
    /\ peer' = [conn |-> 0, stage |-> "sleeping"]
    /\ UNCHANGED <<role, dialled, handler, ingress, kept, route, accepts, edits, overtaken>>

Awakes ==
    /\ peer.stage = "sleeping"
    /\ peer' = [peer EXCEPT !.stage = "idle"]
    /\ UNCHANGED <<role, dialled, up, handler, ingress, kept, route, accepts, edits, overtaken>>

(* The pump ends: the connection has closed, or a stream could not be       *)
(* pumped, which the loop takes for the same.  The client closes the        *)
(* connection then, the worker leaves it.                                   *)
PumpEnds(broken) ==
    /\ peer.stage = "connected" /\ (broken \/ peer.conn \notin up)
    /\ up' = IF role = "client" THEN up \ {peer.conn} ELSE up
    /\ peer' = [conn |-> 0, stage |-> "idle"]
    /\ UNCHANGED <<role, dialled, handler, ingress, kept, route, accepts, edits, overtaken>>

(* The transport gives a connection up.                                     *)
Lost(c) ==
    /\ c \in up /\ up' = up \ {c}
    /\ UNCHANGED <<role, dialled, handler, ingress, kept, route, accepts, edits, peer, overtaken>>

-----------------------------------------------------------------------------
(* The control plane: handleConnection *)

(* The handshake fails, or its agent is not expected: the connection is     *)
(* closed.                                                                  *)
Rejects(c) ==
    /\ handler[c] = "handshake" /\ (c \notin up \/ ~accepts)
    /\ handler' = [handler EXCEPT ![c] = "done"]
    /\ up' = up \ {c}
    /\ UNCHANGED <<role, dialled, ingress, kept, route, accepts, edits, peer, overtaken>>

(* A worker's handshake: its tunnel is started before it is registered.     *)
StartTunnel(c) ==
    /\ role = "worker" /\ handler[c] = "handshake" /\ accepts
    /\ handler' = [handler EXCEPT ![c] = "registering"]
    /\ UNCHANGED <<role, dialled, up, ingress, kept, route, accepts, edits, peer, overtaken>>

(* onAgent and the swap of the registry, which closes a prior connection;   *)
(* an agent that is disabled meanwhile is not registered.                   *)
OnAgent(c) ==
    /\ handler[c] = "registering"
    /\ route' = IF accepts THEN c ELSE route
    /\ kept' = c /\ overtaken' = ~accepts
    /\ up' = up \ ({kept} \ {c})
    /\ handler' = [handler EXCEPT ![c] = "live"]
    /\ UNCHANGED <<role, dialled, ingress, accepts, edits, peer>>

(* The tunnel cannot listen, or the registration throws.                    *)
RegistrationFails(c) ==
    /\ handler[c] = "registering"
    /\ handler' = [handler EXCEPT ![c] = "done"]
    /\ up' = up \ {c}
    /\ UNCHANGED <<role, dialled, ingress, kept, route, accepts, edits, peer, overtaken>>

(* handleClientDialIn: the tunnel of the agent is given the connection, and *)
(* the reverse RPC ingress opens for it.                                    *)
OnClient(c) ==
    /\ role = "client" /\ handler[c] = "handshake" /\ accepts
    /\ kept' = c /\ route' = c /\ overtaken' = FALSE
    /\ up' = up \ ({kept} \ {c})
    /\ ingress' = ingress \cup {c}
    /\ handler' = [handler EXCEPT ![c] = "live"]
    /\ UNCHANGED <<role, dialled, accepts, edits, peer>>

(* closed() resolves; a worker's tunnel is closed before the rest.          *)
SeesClose(c) ==
    /\ role = "worker" /\ handler[c] = "live" /\ c \notin up
    /\ handler' = [handler EXCEPT ![c] = "closing"]
    /\ UNCHANGED <<role, dialled, up, ingress, kept, route, accepts, edits, peer, overtaken>>

(* As if nobody asked whose entry it is.                                    *)
Evicts_Always(c) == TRUE

(* The entry is removed, if it still is this connection's, and only then    *)
(* onAgentGone takes the registration away, or onClientGone detaches it.    *)
Evicts(c) == kept = c

(* As if onAgentGone and onClientGone were not called.                      *)
Gone_KeepsRoute(c) ==
    /\ \/ handler[c] = "closing"
       \/ role = "client" /\ handler[c] = "live" /\ c \notin up
    /\ handler' = [handler EXCEPT ![c] = "done"]
    /\ kept' = IF Evicts(c) THEN 0 ELSE kept
    /\ UNCHANGED <<role, dialled, up, ingress, route, accepts, edits, peer, overtaken>>

Gone(c) ==
    /\ \/ handler[c] = "closing"
       \/ role = "client" /\ handler[c] = "live" /\ c \notin up
    /\ handler' = [handler EXCEPT ![c] = "done"]
    /\ kept' = IF Evicts(c) THEN 0 ELSE kept
    /\ route' = IF Evicts(c) THEN 0 ELSE route
    /\ UNCHANGED <<role, dialled, up, ingress, accepts, edits, peer, overtaken>>

(* acceptClientReverseRpc ends when its connection closes, or at the first  *)
(* stream after another connection has taken its place.                     *)
IngressCloses(c) ==
    /\ c \in ingress /\ (c \notin up \/ kept # c)
    /\ ingress' = ingress \ {c}
    /\ UNCHANGED <<role, dialled, up, handler, kept, route, accepts, edits, peer, overtaken>>

(* The manager reconciles the agent.  A remote one is unregistered, and may *)
(* dial in again if it is enabled; stopping a local one, or giving it       *)
(* another kind of client, closes the tunnel its client is attached to, and *)
(* starting it opens one that nobody is attached to.                        *)
Reconcile(enabled) ==
    /\ edits < MaxEdits /\ edits' = edits + 1
    /\ role = "client" => enabled # accepts
    /\ accepts' = enabled
    /\ route' = 0 /\ overtaken' = TRUE
    /\ UNCHANGED <<role, dialled, up, handler, ingress, kept, peer>>

-----------------------------------------------------------------------------
LinkNext ==
    \/ Dial \/ Connected \/ DialFails \/ Awakes
    \/ \E broken \in BOOLEAN : PumpEnds(broken)
    \/ \E c \in Conns :
         \/ Lost(c) \/ Rejects(c) \/ StartTunnel(c) \/ OnAgent(c)
         \/ RegistrationFails(c) \/ OnClient(c) \/ SeesClose(c) \/ Gone(c)
         \/ IngressCloses(c)
    \/ \E enabled \in BOOLEAN : Reconcile(enabled)

LinkSpec == LinkInit /\ [][LinkNext]_linkVars

LinkFairness ==
    /\ WF_linkVars(PumpEnds(FALSE))
    /\ \A c \in Conns : /\ WF_linkVars(Rejects(c)) /\ WF_linkVars(StartTunnel(c))
                        /\ WF_linkVars(OnAgent(c)) /\ WF_linkVars(OnClient(c))
                        /\ WF_linkVars(SeesClose(c)) /\ WF_linkVars(Gone(c))

-----------------------------------------------------------------------------
FairLinkSpec == LinkSpec /\ LinkFairness

(* A peer that believes itself connected is, or learns better, or requests  *)
(* reach it: no older connection's end takes its place away.                *)
ConnectedIsReachable ==
    \A c \in Conns :
        (peer.stage = "connected" /\ peer.conn = c)
            ~> (\/ peer.conn # c \/ c \notin up \/ route = c \/ overtaken)

(* The table the router reads and the registry that keeps the connections   *)
(* agree: traffic goes to a registered connection whose handler has not     *)
(* left, and nobody but the manager takes the route from a connection that  *)
(* is registered.  The end of a replaced connection is handled late, after  *)
(* its successor has registered.                                            *)
RouteIsKept ==
    /\ route # 0 => kept # 0
    /\ kept # 0 /\ ~overtaken => route = kept
    /\ route # 0 => handler[route] \in {"live", "closing"}
=============================================================================
