------------------------------- MODULE Connect -------------------------------
(***************************************************************************)
(* One CONNECT request: handleConnect and its two splice goroutines        *)
(* (internal/proxy/proxy.go) when there is no CertStore, handleMITMConnect *)
(* with its single-connection listener and inner http.Server               *)
(* (internal/proxy/mitm.go) when there is one.                             *)
(*                                                                         *)
(* Direction "up" is client to upstream, "down" the reverse.  A byte is    *)
(* its position in its direction, so counters say all about a direction.   *)
(* Peers may speak first: the upstream as soon as it is dialled, the       *)
(* client before it has read the 200, when the server's own reader may     *)
(* take its bytes.                                                         *)
(***************************************************************************)
EXTENDS Integers

CONSTANTS
    MaxBytes,       \* bound on the bytes sent in each direction
    MaxRequests     \* bound on the requests served on an intercepted connection

ASSUME BoundsAssumption == MaxBytes \in Nat /\ MaxRequests \in Nat

Dir == {"up", "down"}
Sender(d) == IF d = "up" THEN "client" ELSE "upstream"
Receiver(d) == IF d = "up" THEN "upstream" ELSE "client"
Reverse(d) == IF d = "up" THEN "down" ELSE "up"

VARIABLES
    certStore,      \* Options.CertStore # nil
    pc,             \* where the handler stands
    reply,          \* what the handler told the client
    client,         \* "server" until hijacked, then "open" or "closed"
    upstream,       \* "none", "open", "closed"
    sent, fin,      \* per direction: bytes sent, and the sender's half-close
    got, eof,       \* per direction: bytes passed on, and CloseWrite done
    splice,         \* per direction: "off", "copy", "closeWrite", "done"
    buffered,       \* bytes of the client that the server's reader took
    reset,          \* peers whose connection broke
    accept,         \* the listener's accept channel holds the connection
    once,           \* the listener's sync.Once has fired
    closes,         \* how often closeCh was closed; a second time panics
    serve,          \* inner.Serve: "off", "accept", "defer", "returned"
    conn,           \* its connection goroutine: "none", "serving", "closed", "ended"
    served          \* requests served on the inner connection

tunnelVars == <<sent, fin, got, eof, splice, buffered, reset>>
mitmVars == <<accept, once, closes, serve, conn, served>>
vars == <<certStore, pc, reply, client, upstream, tunnelVars, mitmVars>>

Init ==
    /\ certStore \in BOOLEAN
    /\ pc = "target"
    /\ reply = "none"
    /\ client = "server"
    /\ upstream = "none"
    /\ sent = [d \in Dir |-> 0]
    /\ fin = [d \in Dir |-> FALSE]
    /\ got = [d \in Dir |-> 0]
    /\ eof = [d \in Dir |-> FALSE]
    /\ splice = [d \in Dir |-> "off"]
    /\ buffered = 0
    /\ reset = {}
    /\ accept = FALSE
    /\ once = FALSE
    /\ closes = 0
    /\ serve = "off"
    /\ conn = "none"
    /\ served = 0

Return == pc' = "returned"

\* http.Error and return, before the connection is taken over.
Refuse(status) ==
    /\ reply' = status
    /\ Return
    /\ UNCHANGED <<certStore, client, tunnelVars, mitmVars>>

-----------------------------------------------------------------------------
(***************************************************************************)
(* Common to both handlers.                                                *)
(***************************************************************************)
BadTarget == pc = "target" /\ Refuse("400") /\ UNCHANGED upstream

GoodTarget ==
    /\ pc = "target"
    /\ pc' = IF certStore THEN "leaf" ELSE "dial"
    /\ UNCHANGED <<certStore, reply, client, upstream, tunnelVars, mitmVars>>

\* upstream.Close(), which handleMITMConnect has no upstream for.
CloseUpstream == upstream' = IF upstream = "open" THEN "closed" ELSE upstream

NotHijacker == pc = "hijack" /\ Refuse("500") /\ CloseUpstream

MutHijackFails ==
    /\ pc = "hijack"
    /\ Return
    /\ UNCHANGED <<certStore, reply, client, upstream, tunnelVars, mitmVars>>

HijackFails ==
    /\ pc = "hijack"
    /\ CloseUpstream
    /\ Return
    /\ UNCHANGED <<certStore, reply, client, tunnelVars, mitmVars>>

Hijack ==
    /\ pc = "hijack"
    /\ client' = "open"
    /\ pc' = "establish"
    /\ UNCHANGED <<certStore, reply, upstream, tunnelVars, mitmVars>>

EstablishFails ==
    /\ pc = "establish"
    /\ CloseUpstream
    /\ client' = "closed"
    /\ Return
    /\ UNCHANGED <<certStore, reply, tunnelVars, mitmVars>>

Establish ==
    /\ pc = "establish"
    /\ reply' = "established"
    /\ pc' = IF certStore THEN "handshake" ELSE "wait"
    /\ splice' = IF certStore THEN splice ELSE [d \in Dir |-> "copy"]
    /\ UNCHANGED <<certStore, client, upstream, sent, fin, got, eof, buffered, reset, mitmVars>>

-----------------------------------------------------------------------------
(***************************************************************************)
(* handleConnect                                                           *)
(***************************************************************************)
DialFails == pc = "dial" /\ Refuse("502") /\ UNCHANGED upstream

Dial ==
    /\ pc = "dial"
    /\ upstream' = "open"
    /\ pc' = "hijack"
    /\ UNCHANGED <<certStore, reply, client, tunnelVars, mitmVars>>

handlerVars == <<certStore, pc, reply, client, upstream>>

\* What the connection of the sender still has to give: the handlers drop the
\* buffered reader that Hijack returns.
Unread(d) == got[d] + (IF d = "up" THEN buffered ELSE 0) < sent[d]

\* io.Copy: a Read of a byte under way and a Write of it.
Copy(d) ==
    /\ splice[d] = "copy"
    /\ reset = {}
    /\ Unread(d)
    /\ got' = [got EXCEPT ![d] = @ + 1]
    /\ UNCHANGED <<handlerVars, sent, fin, eof, splice, buffered, reset, mitmVars>>

\* io.Copy returns: end of file, a failed Read, or a failed Write of bytes read.
CopyEnds(d) ==
    /\ splice[d] = "copy"
    /\ \/ fin[d] /\ ~Unread(d)
       \/ Sender(d) \in reset
       \/ Receiver(d) \in reset /\ Unread(d)
    /\ splice' = [splice EXCEPT ![d] = "closeWrite"]
    /\ UNCHANGED <<handlerVars, sent, fin, got, eof, buffered, reset, mitmVars>>

MutCloseWrite(d) ==
    /\ splice[d] = "closeWrite"
    /\ splice' = [splice EXCEPT ![d] = "done"]
    /\ UNCHANGED <<handlerVars, sent, fin, got, eof, buffered, reset, mitmVars>>

CloseWrite(d) ==
    /\ splice[d] = "closeWrite"
    /\ eof' = [eof EXCEPT ![d] = TRUE]
    /\ splice' = [splice EXCEPT ![d] = "done"]
    /\ UNCHANGED <<handlerVars, sent, fin, got, buffered, reset, mitmVars>>

MutWaited == \E d \in Dir : splice[d] = "done"
Waited == \A d \in Dir : splice[d] = "done"

TunnelOver ==
    /\ pc = "wait"
    /\ Waited
    /\ upstream' = "closed"
    /\ client' = "closed"
    /\ Return
    /\ UNCHANGED <<certStore, reply, tunnelVars, mitmVars>>

-----------------------------------------------------------------------------
(***************************************************************************)
(* handleMITMConnect                                                       *)
(***************************************************************************)
LeafFails == pc = "leaf" /\ Refuse("500") /\ UNCHANGED upstream

Leaf ==
    /\ pc = "leaf"
    /\ pc' = "hijack"
    /\ UNCHANGED <<certStore, reply, client, upstream, tunnelVars, mitmVars>>

HandshakeFails ==
    /\ pc = "handshake"
    /\ client' = "closed"
    /\ Return
    /\ UNCHANGED <<certStore, reply, upstream, tunnelVars, mitmVars>>

\* The handshake succeeds, unless the start of it was lost with the buffered
\* reader; newSingleConnListener and inner.Serve.
Handshake ==
    /\ pc = "handshake" /\ buffered = 0
    /\ accept' = TRUE
    /\ serve' = "accept"
    /\ pc' = "serve"
    /\ UNCHANGED <<certStore, reply, client, upstream, tunnelVars, once, closes, conn, served>>

\* singleConnListener.Close
MutCloseListener == once' = TRUE /\ closes' = closes + 1
CloseListener ==
    /\ once' = TRUE
    /\ closes' = IF once THEN closes ELSE closes + 1

\* Accept takes the connection from its channel; Serve starts its goroutine.
AcceptConn ==
    /\ serve = "accept" /\ accept
    /\ accept' = FALSE
    /\ conn' = "serving"
    /\ UNCHANGED <<handlerVars, tunnelVars, once, closes, serve, served>>

\* Accept returns io.EOF once closeCh is closed; Serve closes the listener.
AcceptEOF ==
    /\ serve = "accept" /\ closes > 0
    /\ serve' = "defer"
    /\ UNCHANGED <<handlerVars, tunnelVars, accept, once, closes, conn, served>>

ServeReturns ==
    /\ serve = "defer"
    /\ CloseListener
    /\ serve' = "returned"
    /\ UNCHANGED <<handlerVars, tunnelVars, accept, conn, served>>

\* The inner handler makes the URL absolute and calls handleHTTP.
ServeRequest ==
    /\ conn = "serving"
    /\ served < MaxRequests
    /\ served' = served + 1
    /\ UNCHANGED <<handlerVars, tunnelVars, accept, once, closes, serve, conn>>

\* The client closes, a timeout fires or a request fails: net/http closes it.
ConnCloses ==
    /\ conn = "serving"
    /\ conn' = "closed"
    /\ client' = "closed"
    /\ UNCHANGED <<certStore, pc, reply, upstream, tunnelVars, accept, once, closes, serve, served>>

\* The ConnState hook for StateClosed.
ConnState ==
    /\ conn = "closed"
    /\ CloseListener
    /\ conn' = "ended"
    /\ UNCHANGED <<handlerVars, tunnelVars, accept, serve, served>>

ServeOver ==
    /\ pc = "serve" /\ serve = "returned"
    /\ Return
    /\ UNCHANGED <<certStore, reply, client, upstream, tunnelVars, mitmVars>>

-----------------------------------------------------------------------------
(***************************************************************************)
(* The peers of a tunnel.                                                  *)
(***************************************************************************)
CanSend(d) ==
    /\ Sender(d) \notin reset /\ ~fin[d]
    /\ IF d = "up" THEN pc \in {"target", "leaf", "dial", "hijack", "establish", "wait"}
                   ELSE upstream = "open"

Send(d) ==
    /\ CanSend(d)
    /\ sent[d] < MaxBytes
    /\ sent' = [sent EXCEPT ![d] = @ + 1]
    /\ UNCHANGED <<handlerVars, fin, got, eof, splice, buffered, reset, mitmVars>>

HalfClose(d) ==
    /\ pc = "wait" /\ CanSend(d)
    /\ fin' = [fin EXCEPT ![d] = TRUE]
    /\ UNCHANGED <<handlerVars, sent, got, eof, splice, buffered, reset, mitmVars>>

\* Until Hijack the server reads ahead on the client's connection.
ReadAhead ==
    /\ client = "server" /\ pc # "returned"
    /\ buffered < sent["up"]
    /\ buffered' = buffered + 1
    /\ UNCHANGED <<handlerVars, sent, fin, got, eof, splice, reset, mitmVars>>

\* A peer breaks its connection.
Break(peer) ==
    /\ pc = "wait" /\ peer \notin reset
    /\ reset' = reset \cup {peer}
    /\ UNCHANGED <<handlerVars, sent, fin, got, eof, splice, buffered, mitmVars>>

Done == pc = "returned" /\ UNCHANGED vars

Handler ==
    \/ BadTarget \/ GoodTarget \/ DialFails \/ Dial \/ LeafFails \/ Leaf
    \/ NotHijacker \/ HijackFails \/ Hijack \/ EstablishFails \/ Establish
    \/ TunnelOver \/ ServeOver

Splice(d) == Copy(d) \/ CopyEnds(d) \/ CloseWrite(d)

InnerServe == AcceptConn \/ AcceptEOF \/ ServeReturns

\* A peer that has seen the end of the other direction ends its own.
PeerCloses(d) == eof[Reverse(d)] /\ (HalfClose(d) \/ Break(Sender(d)))

Next ==
    \/ Handler \/ HandshakeFails \/ Handshake
    \/ \E d \in Dir : Splice(d) \/ Send(d) \/ HalfClose(d) \/ Break(Sender(d))
    \/ ReadAhead \/ InnerServe \/ ServeRequest \/ ConnCloses \/ ConnState
    \/ Done

\* Every goroutine of the proxy runs; of the peers only PeerCloses is assumed,
\* and nothing of a client that does not shake hands or keeps its connection.
Spec ==
    /\ Init /\ [][Next]_vars
    /\ WF_vars(Handler) /\ WF_vars(InnerServe) /\ WF_vars(ConnState)
    /\ \A d \in Dir : WF_vars(Splice(d)) /\ WF_vars(PeerCloses(d))

-----------------------------------------------------------------------------
(* When the handler returns it leaves no connection open: neither the      *)
(* dialled upstream nor a client connection it took over, on any error     *)
(* path and whoever closed first.                                          *)
NoneLeftOpen == pc = "returned" => client # "open" /\ upstream # "open"

(* A tunnel that ends without a broken connection has passed on everything *)
(* both peers sent, except exactly the bytes the server's reader had taken *)
(* from a client that did not wait for the 200: one side's half-close      *)
(* never cuts the other direction, and nothing else is lost or invented.   *)
(* proxy.go:43-44 says that "CONNECT just tunnels bytes through            *)
(* unchanged"; of a client that waits that is so, of the early bytes not.  *)
NothingCut ==
    pc = "returned" /\ reply = "established" /\ ~certStore /\ reset = {} =>
        /\ \A d \in Dir : fin[d] /\ eof[d]
        /\ got["down"] = sent["down"]
        /\ got["up"] + buffered = sent["up"]

(* The inner server accepts its one connection once and the listener is    *)
(* closed once, although the ConnState hook and Serve both close it.       *)
ListenerOnce == closes <= 1 /\ (conn # "none" => ~accept)

(* Once a peer of a tunnel has stopped, or the intercepted connection is   *)
(* closed, the handler returns and frees its goroutines.                   *)
HandlerReturns ==
    ((\E d \in Dir : fin[d]) \/ reset # {} \/ conn = "closed") ~> (pc = "returned")
=============================================================================
