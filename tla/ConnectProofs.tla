---------------------------- MODULE ConnectProofs ----------------------------
(***************************************************************************)
(* What a CONNECT request guarantees whatever the number of bytes and of   *)
(* requests: no connection is left open, a tunnel cuts nothing, and the    *)
(* single-connection listener is closed once.                              *)
(***************************************************************************)
EXTENDS Connect, TLAPS

(* The control states before the connection is taken over, and before the  *)
(* client is told that the tunnel is established.                          *)
BeforeHijack == {"target", "leaf", "dial", "hijack"}
BeforeReply == BeforeHijack \cup {"establish"}

Types ==
    /\ certStore \in BOOLEAN
    /\ pc \in BeforeReply \cup {"handshake", "serve", "wait", "returned"}
    /\ client \in {"server", "open", "closed"}
    /\ upstream \in {"none", "open", "closed"}
    /\ sent \in [Dir -> Nat] /\ got \in [Dir -> Nat] /\ buffered \in Nat
    /\ fin \in [Dir -> BOOLEAN] /\ eof \in [Dir -> BOOLEAN]
    /\ splice \in [Dir -> {"off", "copy", "closeWrite", "done"}]
    /\ accept \in BOOLEAN /\ once \in BOOLEAN
    /\ serve \in {"off", "accept", "defer", "returned"}
    /\ conn \in {"none", "serving", "closed", "ended"}

(* Which handler runs, and which of its states can hold a connection.      *)
Stage ==
    /\ pc \in {"leaf", "handshake", "serve"} => certStore
    /\ pc \in {"dial", "wait"} => ~certStore
    /\ certStore => upstream = "none"
    /\ pc \in BeforeHijack => client = "server"
    /\ client = "server" => pc \in BeforeHijack \cup {"returned"}
    /\ client = "open" => pc \in {"establish", "handshake", "serve", "wait"}
    /\ upstream = "open" => pc \in {"hijack", "establish", "wait"}
    /\ reply = "established" => pc \notin BeforeReply

(* The listener has been closed exactly when its Once has fired, which     *)
(* only the end of the served connection can have caused.                  *)
Listener ==
    /\ closes = IF once THEN 1 ELSE 0
    /\ serve # "off" => pc \in {"serve", "returned"}
    /\ accept => conn = "none"
    /\ conn # "none" => serve # "off"
    /\ once => conn = "ended"
    /\ serve \in {"defer", "returned"} => once
    /\ conn \in {"closed", "ended"} => client = "closed"

(* The bytes of a direction that have left the sender's connection.        *)
Taken(d) == got[d] + (IF d = "up" THEN buffered ELSE 0)

(* A splice passes on no more than was sent, and unless a connection broke *)
(* it ends only behind the sender's half-close and its last byte.          *)
Tunnel ==
    /\ \A d \in Dir :
        /\ Taken(d) <= sent[d]
        /\ client = "server" => got[d] = 0
        /\ pc \in BeforeReply \/ client = "server" => splice[d] = "off"
        /\ splice[d] \in {"closeWrite", "done"} /\ reset = {} => fin[d] /\ Taken(d) = sent[d]
        /\ splice[d] = "done" => eof[d]
    /\ pc = "returned" /\ reply = "established" /\ ~certStore => Waited

IInv == Types /\ Stage /\ Listener /\ Tunnel

(* The handler starts in a state of the invariant.                          *)
LEMMA InitEstablishes == Init => IInv
<1> SUFFICES ASSUME Init PROVE IInv
    OBVIOUS
<1>1. Types
      BY DEF Init, Types, BeforeReply, BeforeHijack
<1>2. Stage /\ Listener
      BY DEF Init, Stage, Listener, BeforeReply, BeforeHijack
<1>3. Tunnel
      BY DEF Init, Tunnel, Taken
<1> QED
      BY <1>1, <1>2, <1>3 DEF IInv

(* Every step of the handler, of a splice, of the inner server and of a    *)
(* peer keeps the invariant.                                               *)
LEMMA StepPreserves == IInv /\ [Next]_vars => IInv'
<1> SUFFICES ASSUME IInv, [Next]_vars PROVE IInv'
    OBVIOUS
<1> USE DEF IInv, Types, Stage, Listener, Tunnel, Taken, Waited, Dir, BeforeReply, BeforeHijack
<1>1. CASE BadTarget
      BY <1>1 DEF BadTarget, Refuse, Return, tunnelVars, mitmVars
<1>2. CASE GoodTarget
      BY <1>2 DEF GoodTarget, tunnelVars, mitmVars
<1>3. CASE DialFails
      BY <1>3 DEF DialFails, Refuse, Return, tunnelVars, mitmVars
<1>4. CASE Dial
      BY <1>4 DEF Dial, tunnelVars, mitmVars
<1>5. CASE LeafFails
      BY <1>5 DEF LeafFails, Refuse, Return, tunnelVars, mitmVars
<1>6. CASE Leaf
      BY <1>6 DEF Leaf, tunnelVars, mitmVars
<1>7. CASE NotHijacker
      BY <1>7 DEF NotHijacker, Refuse, Return, CloseUpstream, tunnelVars,
          mitmVars
<1>8. CASE HijackFails
      BY <1>8 DEF HijackFails, Return, CloseUpstream, tunnelVars, mitmVars
<1>9. CASE Hijack
      BY <1>9 DEF Hijack, tunnelVars, mitmVars
<1>10. CASE EstablishFails
      BY <1>10 DEF EstablishFails, Return, CloseUpstream, tunnelVars, mitmVars
<1>11. CASE Establish
      BY <1>11 DEF Establish, tunnelVars, mitmVars
<1>12. CASE TunnelOver
      BY <1>12 DEF TunnelOver, Return, Waited, tunnelVars, mitmVars
<1>13. CASE ServeOver
      BY <1>13 DEF ServeOver, Return, tunnelVars, mitmVars
<1>14. CASE HandshakeFails
      BY <1>14 DEF HandshakeFails, Return, tunnelVars, mitmVars
<1>15. CASE Handshake
      BY <1>15 DEF Handshake, tunnelVars, mitmVars
<1>16. CASE ReadAhead
      BY <1>16 DEF ReadAhead, handlerVars, tunnelVars, mitmVars
<1>17. CASE AcceptConn
      BY <1>17 DEF AcceptConn, handlerVars, tunnelVars, mitmVars
<1>18. CASE AcceptEOF
      BY <1>18 DEF AcceptEOF, handlerVars, tunnelVars, mitmVars
<1>19. CASE ServeReturns
      BY <1>19 DEF ServeReturns, handlerVars, CloseListener, tunnelVars,
          mitmVars
<1>20. CASE ServeRequest
      BY <1>20 DEF ServeRequest, handlerVars, tunnelVars, mitmVars
<1>21. CASE ConnCloses
      BY <1>21 DEF ConnCloses, tunnelVars, mitmVars
<1>22. CASE ConnState
      BY <1>22 DEF ConnState, handlerVars, CloseListener, tunnelVars, mitmVars
<1>23. CASE Done
      BY <1>23 DEF Done, vars, tunnelVars, mitmVars
<1>24. ASSUME NEW d \in Dir, Copy(d) PROVE IInv'
      BY <1>24 DEF Copy, handlerVars, Unread, mitmVars
<1>25. ASSUME NEW d \in Dir, CopyEnds(d) PROVE IInv'
      BY <1>25 DEF CopyEnds, handlerVars, Unread, mitmVars
<1>26. ASSUME NEW d \in Dir, CloseWrite(d) PROVE IInv'
      BY <1>26 DEF CloseWrite, handlerVars, mitmVars
<1>27. ASSUME NEW d \in Dir, Send(d) PROVE IInv'
      BY <1>27 DEF Send, handlerVars, CanSend, mitmVars
<1>28. ASSUME NEW d \in Dir, HalfClose(d) PROVE IInv'
      BY <1>28 DEF HalfClose, handlerVars, CanSend, mitmVars
<1>29. ASSUME NEW d \in Dir, Break(Sender(d)) PROVE IInv'
      BY <1>29 DEF Break, handlerVars, mitmVars
<1>30. CASE UNCHANGED vars
      BY <1>30 DEF vars, tunnelVars, mitmVars
<1> HIDE DEF IInv
<1> QED
      BY <1>1, <1>2, <1>3, <1>4, <1>5, <1>6, <1>7, <1>8, <1>9, <1>10, <1>11,
          <1>12, <1>13, <1>14, <1>15, <1>16, <1>17, <1>18, <1>19, <1>20, <1>21,
          <1>22, <1>23, <1>24, <1>25, <1>26, <1>27, <1>28, <1>29, <1>30 DEF Next,
          Handler, Splice, InnerServe

LEMMA Invariance == Spec => []IInv
BY InitEstablishes, StepPreserves, PTL DEF Spec

(* handleConnect and handleMITMConnect return, on every path, with the     *)
(* dialled upstream closed and the connection they took over closed.       *)
THEOREM AllClosed == Spec => []NoneLeftOpen
<1>1. IInv => NoneLeftOpen
      BY DEF IInv, Stage, NoneLeftOpen
<1> QED
      BY <1>1, Invariance, PTL

(* A tunnel that no broken connection ended has delivered every byte both  *)
(* peers sent, but for exactly those the server's reader had taken before  *)
(* Hijack, for every number of bytes and every order of the half-closes.   *)
THEOREM TunnelComplete == Spec => []NothingCut
<1>1. IInv => NothingCut
      BY DEF IInv, Types, Tunnel, Taken, Waited, Dir, NothingCut
<1> QED
      BY <1>1, Invariance, PTL

(* The ConnState hook and inner.Serve both close the listener, and closeCh *)
(* is closed once; the accept channel gives its connection once.           *)
THEOREM ListenerClosedOnce == Spec => []ListenerOnce
<1>1. IInv => ListenerOnce
      BY DEF IInv, Types, Listener, ListenerOnce
<1> QED
      BY <1>1, Invariance, PTL
=============================================================================
