--------------------------- MODULE ForwarderProofs ---------------------------
(***************************************************************************)
(* Forwarder never truncates a stream and implements Channel, for any      *)
(* number of chunks and any buffers.                                       *)
(***************************************************************************)
EXTENDS Forwarder, TLAPS

\* Where the handshake has not ended nothing is closed and nothing was copied.
Unstarted ==
    phase \in Handshake =>
        \A e \in Ends : /\ pipe[e] = "read"
                       /\ conn[e] \in {"none", "open", "failed"}

\* A transport fails only because its end has reset the connection.
FailedByReset == \A e \in Ends : conn[e] = "failed" => reset[e]

\* While the pipes run only one that failed has closed a transport; handle
\* closes them when both have returned.
ClosedByPipe ==
    /\ phase = "relay" =>
         \A e \in Ends :
             conn[e] \in {"closing", "closed"} => pipe[Other(e)] = "failed"
    /\ phase = "over" => \A e \in Ends : Returned(e)

Whole(e) == fin[e] /\ taken[e] = sent[e]

\* A pipe returns when it has copied the whole stream, or after a reset.
ReturnedWhole ==
    \A e \in Ends :
        /\ pipe[e] = "ended" => Whole(e) \/ reset[e] \/ reset[Other(e)]
        /\ pipe[e] = "failed" => reset[e] \/ reset[Other(e)]

RelayInv == /\ TypeOK /\ Unstarted /\ FailedByReset /\ ClosedByPipe
            /\ ReturnedWhole /\ NoTruncation
-----------------------------------------------------------------------------
\* RelayInv holds when a client has connected.
LEMMA InitInv == Init => RelayInv
  <1> SUFFICES ASSUME Init PROVE RelayInv  OBVIOUS
  <1> USE RelayAssumption DEF Init
  <1>1. TypeOK
    BY DEF TypeOK, Ends, Other, Handshake, Phases, Pipes, Conns
  <1>2. Unstarted
    BY DEF Unstarted, Ends
  <1>3. FailedByReset
    BY DEF FailedByReset, Ends
  <1>4. ClosedByPipe
    BY DEF ClosedByPipe
  <1>5. ReturnedWhole
    BY DEF ReturnedWhole
  <1>6. NoTruncation
    BY DEF NoTruncation
  <1> QED  BY <1>1, <1>2, <1>3, <1>4, <1>5, <1>6 DEF RelayInv

\* What an end does keeps RelayInv.
LEMMA PeerInv ==
  ASSUME RelayInv, NEW e \in Ends, Peer(e)
  PROVE  RelayInv'
  <1> USE RelayAssumption DEF RelayInv, Cut
  <1>1. CASE Send(e)
    <2>1. TypeOK'
      BY <1>1 DEF Send, relay, TypeOK
    <2>2. Unstarted'
      BY <1>1 DEF Send, relay, Unstarted
    <2>3. FailedByReset'
      BY <1>1 DEF Send, relay, FailedByReset
    <2>4. ClosedByPipe'
      BY <1>1 DEF Send, relay, ClosedByPipe, Returned
    <2>5. ReturnedWhole'
      BY <1>1 DEF Send, relay, ReturnedWhole, Whole
    <2>6. NoTruncation'
      BY <1>1 DEF Send, relay, NoTruncation
    <2> QED  BY <2>1, <2>2, <2>3, <2>4, <2>5, <2>6
  <1>2. CASE ShutWriting(e)
    <2>1. TypeOK'
      BY <1>2 DEF ShutWriting, relay, TypeOK
    <2>2. Unstarted'
      BY <1>2 DEF ShutWriting, relay, Unstarted
    <2>3. FailedByReset'
      BY <1>2 DEF ShutWriting, relay, FailedByReset
    <2>4. ClosedByPipe'
      BY <1>2 DEF ShutWriting, relay, ClosedByPipe, Returned
    <2>5. ReturnedWhole'
      BY <1>2 DEF ShutWriting, relay, ReturnedWhole, Whole
    <2>6. NoTruncation'
      BY <1>2 DEF ShutWriting, relay, NoTruncation
    <2> QED  BY <2>1, <2>2, <2>3, <2>4, <2>5, <2>6
  <1>3. CASE Reset(e)
    <2>1. TypeOK'
      BY <1>3 DEF Reset, relay, TypeOK
    <2>2. Unstarted'
      BY <1>3 DEF Reset, relay, Unstarted
    <2>3. FailedByReset'
      BY <1>3 DEF Reset, relay, FailedByReset
    <2>4. ClosedByPipe'
      BY <1>3 DEF Reset, relay, ClosedByPipe, Returned
    <2>5. ReturnedWhole'
      BY <1>3 DEF Reset, TypeOK, ReturnedWhole, Ends, Other
    <2>6. NoTruncation'
      BY <1>3 DEF Reset, relay, NoTruncation
    <2> QED  BY <2>1, <2>2, <2>3, <2>4, <2>5, <2>6
  <1>4. CASE Receive(e)
    <2>1. TypeOK'
      BY <1>4 DEF Receive, relay, TypeOK, Ends, Other
    <2>2. Unstarted'
      BY <1>4 DEF Receive, relay, Unstarted
    <2>3. FailedByReset'
      BY <1>4 DEF Receive, relay, FailedByReset
    <2>4. ClosedByPipe'
      BY <1>4 DEF Receive, relay, ClosedByPipe, Returned
    <2>5. ReturnedWhole'
      BY <1>4 DEF Receive, relay, ReturnedWhole, Whole
    <2>6. NoTruncation'
      BY <1>4 DEF Receive, relay, TypeOK, NoTruncation, Ends, Other
    <2> QED  BY <2>1, <2>2, <2>3, <2>4, <2>5, <2>6
  <1>5. CASE HearEnd(e)
    <2>1. TypeOK'
      BY <1>5 DEF HearEnd, relay, TypeOK
    <2>2. Unstarted'
      BY <1>5 DEF HearEnd, relay, Unstarted
    <2>3. FailedByReset'
      BY <1>5 DEF HearEnd, relay, FailedByReset
    <2>4. ClosedByPipe'
      BY <1>5 DEF HearEnd, relay, ClosedByPipe, Returned
    <2>5. ReturnedWhole'
      BY <1>5 DEF HearEnd, relay, ReturnedWhole, Whole
    <2>6. NoTruncation'
      BY <1>5
         DEF HearEnd, Listening, relay, TypeOK, Unstarted,
             ClosedByPipe, ReturnedWhole, NoTruncation, Ends, Other,
             Whole, Returned, Phases
    <2> QED  BY <2>1, <2>2, <2>3, <2>4, <2>5, <2>6
  <1>6. CASE HearReset(e)
    <2>1. TypeOK'
      BY <1>6 DEF HearReset, relay, TypeOK
    <2>2. Unstarted'
      BY <1>6 DEF HearReset, relay, Unstarted
    <2>3. FailedByReset'
      BY <1>6 DEF HearReset, relay, FailedByReset
    <2>4. ClosedByPipe'
      BY <1>6 DEF HearReset, relay, ClosedByPipe, Returned
    <2>5. ReturnedWhole'
      BY <1>6 DEF HearReset, relay, ReturnedWhole, Whole
    <2>6. NoTruncation'
      BY <1>6 DEF HearReset, relay, NoTruncation
    <2> QED  BY <2>1, <2>2, <2>3, <2>4, <2>5, <2>6
  <1> QED  BY <1>1, <1>2, <1>3, <1>4, <1>5, <1>6 DEF Peer

\* A step of _pipe keeps RelayInv.
LEMMA PipeInv ==
  ASSUME RelayInv, NEW e \in Ends, Pipe(e)
  PROVE  RelayInv'
  <1> USE RelayAssumption DEF RelayInv, Cut
  <1>1. CASE Copy(e)
    <2>1. TypeOK'
      BY <1>1 DEF Copy, peers, Go, TypeOK, Ends, Other, Pipes
    <2>2. Unstarted'
      BY <1>1 DEF Copy, At, Unstarted, Handshake
    <2>3. FailedByReset'
      BY <1>1 DEF Copy, peers, FailedByReset
    <2>4. ClosedByPipe'
      BY <1>1 DEF Copy, At, Go, ClosedByPipe
    <2>5. ReturnedWhole'
      BY <1>1 DEF Copy, peers, Go, TypeOK, ReturnedWhole, Whole
    <2>6. NoTruncation'
      BY <1>1 DEF Copy, peers, NoTruncation
    <2> QED  BY <2>1, <2>2, <2>3, <2>4, <2>5, <2>6
  <1>2. CASE Drained(e)
    <2>1. TypeOK'
      BY <1>2 DEF Drained, peers, Go, TypeOK, Pipes
    <2>2. Unstarted'
      BY <1>2 DEF Drained, At, Unstarted
    <2>3. FailedByReset'
      BY <1>2 DEF Drained, peers, FailedByReset
    <2>4. ClosedByPipe'
      BY <1>2 DEF Drained, At, Go, ClosedByPipe
    <2>5. ReturnedWhole'
      BY <1>2 DEF Drained, peers, Go, ReturnedWhole, Whole
    <2>6. NoTruncation'
      BY <1>2 DEF Drained, peers, NoTruncation
    <2> QED  BY <2>1, <2>2, <2>3, <2>4, <2>5, <2>6
  <1>3. CASE Abandon(e)
    <2>1. TypeOK'
      BY <1>3 DEF Abandon, peers, Go, Close, TypeOK, Pipes, Conns
    <2>2. Unstarted'
      BY <1>3 DEF Abandon, At, Raises, Unstarted, Handshake
    <2>3. FailedByReset'
      BY <1>3 DEF Abandon, peers, Close, FailedByReset
    <2>4. ClosedByPipe'
      BY <1>3 DEF Abandon, Go, TypeOK, ClosedByPipe, Ends, Other, Returned
    <2>5. ReturnedWhole'
      BY <1>3
         DEF Abandon, peers, Raises, FailedByReset, ReturnedWhole,
             Ends, Other
    <2>6. NoTruncation'
      BY <1>3 DEF Abandon, peers, NoTruncation
    <2> QED  BY <2>1, <2>2, <2>3, <2>4, <2>5, <2>6
  <1>4. CASE HalfClose(e)
    <2>1. TypeOK'
      BY <1>4 DEF HalfClose, peers, Go, TypeOK, Pipes
    <2>2. Unstarted'
      BY <1>4 DEF HalfClose, At, AtEof, Unstarted, Handshake
    <2>3. FailedByReset'
      BY <1>4 DEF HalfClose, peers, FailedByReset
    <2>4. ClosedByPipe'
      BY <1>4 DEF HalfClose, At, Go, AtEof, ClosedByPipe
    <2>5. ReturnedWhole'
      BY <1>4
         DEF HalfClose, peers, At, Go, AtEof, ClosedByPipe,
             ReturnedWhole, Ends, Other, Whole
    <2>6. NoTruncation'
      BY <1>4 DEF HalfClose, peers, NoTruncation
    <2> QED  BY <2>1, <2>2, <2>3, <2>4, <2>5, <2>6
  <1>5. CASE HalfCloseFails(e)
    <2>1. TypeOK'
      BY <1>5 DEF HalfCloseFails, peers, Go, Close, TypeOK, Pipes, Conns
    <2>2. Unstarted'
      BY <1>5 DEF HalfCloseFails, At, AtEof, Unstarted, Handshake
    <2>3. FailedByReset'
      BY <1>5 DEF HalfCloseFails, peers, FailedByReset
    <2>4. ClosedByPipe'
      BY <1>5
         DEF HalfCloseFails, Go, TypeOK, ClosedByPipe, Ends, Other,
             Returned
    <2>5. ReturnedWhole'
      BY <1>5 DEF HalfCloseFails, peers, ReturnedWhole, Ends, Other
    <2>6. NoTruncation'
      BY <1>5 DEF HalfCloseFails, peers, NoTruncation
    <2> QED  BY <2>1, <2>2, <2>3, <2>4, <2>5, <2>6
  <1> QED  BY <1>1, <1>2, <1>3, <1>4, <1>5 DEF Pipe

\* A step of a transport keeps RelayInv.
LEMMA TransportInv ==
  ASSUME RelayInv, NEW e \in Ends, Flushed(e) \/ Notice(e)
  PROVE  RelayInv'
  <1> USE RelayAssumption DEF RelayInv, Cut
  <1>1. CASE Flushed(e)
    <2>1. TypeOK'
      BY <1>1 DEF Flushed, peers, TypeOK, Conns
    <2>2. Unstarted'
      BY <1>1 DEF Flushed, Unstarted
    <2>3. FailedByReset'
      BY <1>1 DEF Flushed, peers, FailedByReset
    <2>4. ClosedByPipe'
      BY <1>1 DEF Flushed, ClosedByPipe, Returned
    <2>5. ReturnedWhole'
      BY <1>1 DEF Flushed, peers, ReturnedWhole, Whole
    <2>6. NoTruncation'
      BY <1>1 DEF Flushed, peers, NoTruncation
    <2> QED  BY <2>1, <2>2, <2>3, <2>4, <2>5, <2>6
  <1>2. CASE Notice(e)
    <2>1. TypeOK'
      BY <1>2 DEF Notice, peers, TypeOK, Conns
    <2>2. Unstarted'
      BY <1>2 DEF Notice, Unstarted
    <2>3. FailedByReset'
      BY <1>2 DEF Notice, peers, FailedByReset
    <2>4. ClosedByPipe'
      BY <1>2 DEF Notice, ClosedByPipe, Returned
    <2>5. ReturnedWhole'
      BY <1>2 DEF Notice, peers, ReturnedWhole, Ends, Other
    <2>6. NoTruncation'
      BY <1>2 DEF Notice, peers, NoTruncation
    <2> QED  BY <2>1, <2>2, <2>3, <2>4, <2>5, <2>6
  <1> QED  BY <1>1, <1>2

\* handle, the handshake and the death of the relay keep RelayInv.
LEMMA HandleInv ==
  ASSUME RelayInv,
         Dialled \/ MethodAccepted \/ Granted \/ Refuse \/ Finish \/ Killed
  PROVE  RelayInv'
  <1> USE RelayAssumption DEF RelayInv, Cut
  <1>1. CASE Dialled
    <2>1. TypeOK'
      BY <1>1 DEF Dialled, peers, Progress, TypeOK, Handshake, Phases, Conns
    <2>2. Unstarted'
      BY <1>1 DEF Dialled, Progress, Unstarted, Handshake
    <2>3. FailedByReset'
      BY <1>1 DEF Dialled, peers, FailedByReset
    <2>4. ClosedByPipe'
      BY <1>1 DEF Dialled, Progress, ClosedByPipe
    <2>5. ReturnedWhole'
      BY <1>1 DEF Dialled, peers, ReturnedWhole, Whole
    <2>6. NoTruncation'
      BY <1>1 DEF Dialled, peers, Progress, NoTruncation
    <2> QED  BY <2>1, <2>2, <2>3, <2>4, <2>5, <2>6
  <1>2. CASE MethodAccepted
    <2>1. TypeOK'
      BY <1>2 DEF MethodAccepted, peers, Progress, TypeOK, Handshake, Phases
    <2>2. Unstarted'
      BY <1>2 DEF MethodAccepted, Progress, Unstarted, Handshake
    <2>3. FailedByReset'
      BY <1>2 DEF MethodAccepted, peers, FailedByReset
    <2>4. ClosedByPipe'
      BY <1>2 DEF MethodAccepted, Progress, ClosedByPipe
    <2>5. ReturnedWhole'
      BY <1>2 DEF MethodAccepted, peers, ReturnedWhole, Whole
    <2>6. NoTruncation'
      BY <1>2 DEF MethodAccepted, peers, Progress, NoTruncation
    <2> QED  BY <2>1, <2>2, <2>3, <2>4, <2>5, <2>6
  <1>3. CASE Granted
    <2>1. TypeOK'
      BY <1>3 DEF Granted, peers, Progress, TypeOK, Phases
    <2>2. Unstarted'
      BY <1>3 DEF Granted, Progress, Unstarted, Handshake
    <2>3. FailedByReset'
      BY <1>3 DEF Granted, peers, FailedByReset
    <2>4. ClosedByPipe'
      BY <1>3 DEF Granted, Progress, Unstarted, ClosedByPipe, Handshake
    <2>5. ReturnedWhole'
      BY <1>3 DEF Granted, peers, ReturnedWhole, Whole
    <2>6. NoTruncation'
      BY <1>3 DEF Granted, peers, Progress, NoTruncation
    <2> QED  BY <2>1, <2>2, <2>3, <2>4, <2>5, <2>6
  <1>4. CASE Refuse
    <2>1. TypeOK'
      BY <1>4 DEF Refuse, peers, Close, TypeOK, Phases, Conns
    <2>2. Unstarted'
      BY <1>4 DEF Refuse, Unstarted, Handshake
    <2>3. FailedByReset'
      BY <1>4 DEF Refuse, peers, Close, FailedByReset
    <2>4. ClosedByPipe'
      BY <1>4 DEF Refuse, ClosedByPipe
    <2>5. ReturnedWhole'
      BY <1>4 DEF Refuse, Unstarted, ReturnedWhole
    <2>6. NoTruncation'
      BY <1>4 DEF Refuse, NoTruncation
    <2> QED  BY <2>1, <2>2, <2>3, <2>4, <2>5, <2>6
  <1>5. CASE Finish
    <2>1. TypeOK'
      BY <1>5 DEF Finish, peers, Close, TypeOK, Phases, Conns
    <2>2. Unstarted'
      BY <1>5 DEF Finish, Unstarted, Handshake
    <2>3. FailedByReset'
      BY <1>5 DEF Finish, peers, Close, FailedByReset
    <2>4. ClosedByPipe'
      BY <1>5 DEF Finish, Returned, ClosedByPipe
    <2>5. ReturnedWhole'
      BY <1>5 DEF Finish, peers, ReturnedWhole, Whole
    <2>6. NoTruncation'
      BY <1>5 DEF Finish, peers, NoTruncation
    <2> QED  BY <2>1, <2>2, <2>3, <2>4, <2>5, <2>6
  <1>6. CASE Killed
    <2>1. TypeOK'
      BY <1>6 DEF Killed, peers, TypeOK, Phases, Conns
    <2>2. Unstarted'
      BY <1>6 DEF Killed, Unstarted, Handshake
    <2>3. FailedByReset'
      BY <1>6 DEF Killed, peers, FailedByReset
    <2>4. ClosedByPipe'
      BY <1>6 DEF Killed, ClosedByPipe
    <2>5. ReturnedWhole'
      BY <1>6 DEF Killed, peers, ReturnedWhole, Whole
    <2>6. NoTruncation'
      BY <1>6 DEF Killed, NoTruncation
    <2> QED  BY <2>1, <2>2, <2>3, <2>4, <2>5, <2>6
  <1> QED  BY <1>1, <1>2, <1>3, <1>4, <1>5, <1>6

\* RelayInv is an invariant.
LEMMA RelayInvariance == Safety => []RelayInv
  <1>1. RelayInv /\ [Next]_vars => RelayInv'
    <2> SUFFICES ASSUME RelayInv, [Next]_vars PROVE RelayInv'  OBVIOUS
    <2>1. CASE Next
      BY <2>1, PeerInv, PipeInv, TransportInv, HandleInv DEF Next
    <2>2. CASE UNCHANGED vars
      BY <2>2
         DEF RelayInv, TypeOK, Unstarted, FailedByReset, ClosedByPipe,
             ReturnedWhole, NoTruncation, Whole, Returned, Cut,
             vars, peers, relay
    <2> QED  BY <2>1, <2>2
  <1> QED  BY InitInv, <1>1, PTL DEF Safety
-----------------------------------------------------------------------------
\* No variable leaves its range: TypeOK, for any number of chunks.
THEOREM RelayTyped == Spec => []TypeOK
  BY RelayInvariance, PTL DEF Spec, RelayInv

\* NoTruncation for streams of any length and buffers of any size.
THEOREM NothingTruncated == Spec => []NoTruncation
  BY RelayInvariance, PTL DEF Spec, RelayInv
-----------------------------------------------------------------------------
\* The ends whose stream is broken, as Stream sees them.
Broken == {e \in Ends : reset[e] \/ Cut}

\* Nothing is broken and nothing was sent when a client has connected.
LEMMA InitRefines == Init => Stream!Init
  BY DEF Init, Stream!Init, Stream!Ends, Ends, Cut

\* What an end does is what the channel does for it, or breaks its stream.
LEMMA PeerRefines ==
  ASSUME RelayInv, NEW e \in Ends, Peer(e)
  PROVE  Stream!Next
  <1> USE RelayAssumption DEF RelayInv, Cut, Stream!Next, Stream!Ends
  <1>1. CASE Send(e)
    BY <1>1 DEF Send, relay, Stream!Send, Ends
  <1>2. CASE ShutWriting(e)
    BY <1>2 DEF ShutWriting, relay, Stream!Finish, Ends
  <1>3. CASE Reset(e)
    <2>1. Broken' = Broken \cup {e}
      BY <1>3 DEF Reset, relay, Broken, TypeOK
    <2>2. UNCHANGED <<sent, fin, got, told>>  BY <1>3 DEF Reset
    <2> QED  BY <2>1, <2>2 DEF Broken, Stream!Break, Ends
  <1>4. CASE Receive(e)
    <2>1. got[e] < sent[Other(e)]
      BY <1>4 DEF Receive, TypeOK, Other, Ends
    <2> QED
      BY <1>4, <2>1
         DEF Receive, Listening, relay, Stream!Deliver, Stream!Other,
             Other, Ends
  <1>5. CASE HearEnd(e)
    <2>1. Stream!Complete(Other(e)) \/ Other(e) \in Broken
      BY <1>5
         DEF HearEnd, Listening, TypeOK, Unstarted, ClosedByPipe,
             ReturnedWhole, Whole, Returned, Broken, Stream!Complete,
             Stream!Other, Stream!Ends, Other, Ends, Phases
    <2> QED
      BY <1>5, <2>1
         DEF HearEnd, Listening, relay, Broken, Stream!End,
             Stream!Other, Other, Ends
  <1>6. CASE HearReset(e)
    <2>1. Broken # {}
      BY <1>6
         DEF HearReset, TypeOK, Unstarted, ClosedByPipe,
             ReturnedWhole, Whole, Returned, Broken, Other, Ends,
             Phases
    <2> QED
      BY <1>6, <2>1 DEF HearReset, Listening, relay, Broken, Stream!Abort, Ends
  <1> QED  BY <1>1, <1>2, <1>3, <1>4, <1>5, <1>6 DEF Peer

\* The relay is invisible, but for a refusal and its death.
LEMMA RelayRefines ==
  ASSUME UNCHANGED peers, Cut => Cut'
  PROVE  Stream!Next \/ UNCHANGED Stream!vars
  <1>1. Broken \subseteq Broken'
    BY DEF Broken, peers
  <1>2. Broken' = Broken \cup Broken' /\ Broken' \in SUBSET Ends
    BY <1>1 DEF Broken
  <1> QED  BY <1>2
     DEF peers, Broken, Stream!Next, Stream!Break, Stream!Ends, Ends

\* A forwarded connection is a channel: ImplementsChannel, for streams of any
\* length and buffers of any size.
THEOREM RelayIsChannel == Spec => ImplementsChannel
  <1>1. RelayInv /\ [Next]_vars => [Stream!Next]_(Stream!vars)
    <2> SUFFICES ASSUME RelayInv, [Next]_vars
                 PROVE  Stream!Next \/ UNCHANGED Stream!vars
      OBVIOUS
    <2>1. CASE \E e \in Ends : Peer(e)
      BY <2>1, PeerRefines
    <2>2. CASE Next /\ ~\E e \in Ends : Peer(e)
      <3>1. UNCHANGED peers /\ (Cut => Cut')
        BY <2>2
           DEF Next, Pipe, Copy, Drained, Abandon, HalfClose,
               HalfCloseFails, Flushed, Notice, Dialled,
               MethodAccepted, Granted, Progress, Refuse, Finish,
               Killed, Cut
      <3> QED  BY <3>1, RelayRefines
    <2>3. CASE UNCHANGED vars
      BY <2>3 DEF vars, peers, relay, Stream!vars, Cut
    <2> QED  BY <2>1, <2>2, <2>3
  <1> QED  BY <1>1, InitRefines, RelayInvariance, PTL
           DEF Spec, Safety, ImplementsChannel, Stream!Spec
=============================================================================
