----------------------------- MODULE QuotePush -----------------------------
(***************************************************************************)
(* The WebSocket side of the quotes: routes that authorize and serve a     *)
(* connection, and the WebSocketManager, whose subscriber reads what the   *)
(* worker publishes and broadcasts it to a snapshot of a channel's         *)
(* clients, one await after another; meanwhile connections come and go and *)
(* the heartbeat drops those it has not heard of.                          *)
(***************************************************************************)
EXTENDS QuoteFeed

CONSTANTS Clients, Entitled,  \* connections; those whose principal holds market:stream
          NoCode, NoCast

ASSUME NoCodeAssumption == NoCode \notin Codes

VARIABLES
    serving,      \* connections whose handler is in its receive loop
    connections,  \* _connections: code -> clients of channel quotes:<code>
    channel,      \* _client_channels: client -> code, or NoCode
    lastPing,     \* _client_last_ping: client -> "fresh", "late" or "none"
    cast,         \* the broadcast under way: [message, rest, dead], or NoCast
    got           \* client -> the last message sent to it

pushVars == <<serving, connections, channel, lastPing, cast, got>>
NoMessage == [code |-> NoCode, batch |-> 0]

PushInit ==
    /\ serving = {} /\ connections = [c \in Codes |-> {}]
    /\ channel = [w \in Clients |-> NoCode]
    /\ lastPing = [w \in Clients |-> "none"]
    /\ cast = NoCast /\ got = [w \in Clients |-> NoMessage]

\* _authorize_channel, which closes the connection of anyone else.
Admitted(w) == w \in Entitled

\* ws_quote: authorized, then connected.  A connection object is new.
Connect(w) ==
    /\ Admitted(w) /\ w \notin serving
    /\ cast # NoCast => w \notin cast.rest \cup cast.dead
    /\ \E c \in Codes :
          /\ connections' = [connections EXCEPT ![c] = @ \cup {w}]
          /\ channel' = [channel EXCEPT ![w] = c]
    /\ serving' = serving \cup {w}
    /\ lastPing' = [lastPing EXCEPT ![w] = "fresh"]
    /\ got' = [got EXCEPT ![w] = NoMessage]
    /\ UNCHANGED cast

\* Mutant: disconnect relies on the channel only and forgets the ping.
DisconnectKeepsPing(ws) ==
    /\ connections' = [c \in Codes |-> connections[c] \ ws]
    /\ channel' = [w \in Clients |-> IF w \in ws THEN NoCode ELSE channel[w]]
    /\ lastPing' = lastPing

\* disconnect of some clients: from every map, once or again.
Disconnect(ws) ==
    /\ connections' = [c \in Codes |-> connections[c] \ ws]
    /\ channel' = [w \in Clients |-> IF w \in ws THEN NoCode ELSE channel[w]]
    /\ lastPing' = [w \in Clients |-> IF w \in ws THEN "none" ELSE lastPing[w]]

\* The peer closes: _serve_channel ends and disconnects in its finally.
PeerCloses(w) ==
    /\ w \in serving
    /\ serving' = serving \ {w}
    /\ Disconnect({w})
    /\ UNCHANGED <<cast, got>>

\* handle_client_message: a ping, also of a client the heartbeat has dropped.
Ping(w) ==
    /\ w \in serving
    /\ lastPing' = [lastPing EXCEPT ![w] = "fresh"]
    /\ UNCHANGED <<serving, connections, channel, cast, got>>

\* HEARTBEAT_TIMEOUT passes without one.
PingIsLate(w) ==
    /\ lastPing[w] = "fresh"
    /\ lastPing' = [lastPing EXCEPT ![w] = "late"]
    /\ UNCHANGED <<serving, connections, channel, cast, got>>

\* _heartbeat_loop: disconnects all of them; the sockets stay open.
Heartbeat ==
    LET stale == {w \in Clients : lastPing[w] = "late"}
    IN /\ stale # {}
       /\ Disconnect(stale)
       /\ UNCHANGED <<serving, cast, got>>

\* dispatch_redis_message and broadcast: the next message, to a snapshot.
Broadcast ==
    /\ cast = NoCast /\ feed # <<>>
    /\ feed' = Tail(feed)
    /\ cast' = [message |-> Head(feed), rest |-> connections[Head(feed).code], dead |-> {}]
    /\ UNCHANGED <<serving, connections, channel, lastPing, got>>

\* One await of send_text, in the order of the snapshot; it raises on a socket
\* that is closed by now, and may raise on another one.
Send(w) ==
    /\ cast # NoCast /\ w \in cast.rest
    /\ \/ /\ w \in serving
          /\ got' = [got EXCEPT ![w] = cast.message]
          /\ cast' = [cast EXCEPT !.rest = @ \ {w}]
       \/ /\ cast' = [cast EXCEPT !.rest = @ \ {w}, !.dead = @ \cup {w}]
          /\ UNCHANGED got
    /\ UNCHANGED <<serving, connections, channel, lastPing>>

BroadcastEnds ==
    /\ cast # NoCast /\ cast.rest = {}
    /\ Disconnect(cast.dead)
    /\ cast' = NoCast
    /\ UNCHANGED <<serving, got>>

PushNext ==
    \/ Broadcast /\ UNCHANGED <<quoteBatches, sync, redis, l1, asked>>
    \/ /\ \/ \E w \in Clients : \/ Connect(w) \/ PeerCloses(w) \/ Ping(w)
                                \/ PingIsLate(w) \/ Send(w)
          \/ Heartbeat \/ BroadcastEnds
       /\ UNCHANGED quoteVars

----------------------------------------------------------------------------

\* WebSocketManager: whatever is awaited while a connection ends - a broadcast
\* to a snapshot that still names it, a heartbeat, its own handler - no map
\* keeps it, and a bucket never holds a client its own entry does not name.
NothingIsLeftBehind ==
    /\ \A w \in Clients \ serving : channel[w] = NoCode /\ lastPing[w] = "none"
    /\ \A w \in Clients, c \in Codes : w \in connections[c] <=> channel[w] = c

\* What either cache holds for a caller, what is published and what a client of
\* that stock was pushed is a quote the provider gave the backend for display, or
\* one that is stored with its provenance in a batch that is closed: a task that
\* dies between storing, closing and publishing, or fails to store, shows nothing
\* unrecorded.
QuotesAreOnRecord ==
    /\ FeedIsOnRecord
    /\ \A w \in Clients : got[w] # NoMessage =>
          /\ OnRecord(got[w].code, got[w].batch)
          /\ channel[w] \in {got[w].code, NoCode}
=============================================================================
