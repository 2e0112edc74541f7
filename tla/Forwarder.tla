------------------------------ MODULE Forwarder ------------------------------
(***************************************************************************)
(* One connection of the relay process, forwarder.py: serve.handle dials   *)
(* the SOCKS5 proxy of the instance, socks5_connect asks it for the remote *)
(* host, and two _pipe tasks then copy a direction each.                   *)
(*                                                                         *)
(* The ends are the native client and the remote service; the proxy and    *)
(* the tailnet behind the upstream socket carry what the remote does.  An  *)
(* end may send, shut its writing side, reset the connection, or receive,  *)
(* at any time.  The transports are asyncio's: a chunk stands for what one *)
(* read returns, and chunks are counted.                                   *)
(***************************************************************************)
EXTENDS Naturals

CONSTANTS
    MaxChunks,   \* bound: chunks an end may send
    Kernel,      \* chunks the sockets hold that the transport has let go of
    HighWater    \* chunks the transport holds before drain() waits

ASSUME RelayAssumption ==
    MaxChunks \in Nat /\ Kernel \in Nat /\ HighWater \in Nat

Ends == {"client", "remote"}
Other(e) == IF e = "client" THEN "remote" ELSE "client"

VARIABLES
    sent,    \* chunks each end has written
    fin,     \* has it shut its writing side?
    reset,   \* has it reset the connection?
    got,     \* chunks it has received
    told,    \* what it has been told: "nothing", "eof" or "reset"
    taken,   \* chunks _pipe has read from it, and written to the other end
    pipe,    \* the _pipe that reads from it
    conn,    \* the relay's transport towards it
    phase    \* of handle

peers == <<sent, fin, reset, got, told>>
relay == <<taken, pipe, conn, phase>>
vars  == <<peers, relay>>

\* "failed" is connection_lost with an exception, which the reader and drain()
\* then raise; "closed" is connection_lost without, which ends the reader.
Conns == {"none", "open", "closing", "closed", "failed"}
\* "ended": returned after write_eof; "failed": returned after dst.close().
Pipes == {"read", "drain", "ended", "failed"}
Handshake == {"dial", "method", "request"}
Phases == Handshake \cup {"relay", "over", "refused", "killed"}

Init ==
    /\ sent  = [e \in Ends |-> 0]
    /\ fin   = [e \in Ends |-> FALSE]
    /\ reset = [e \in Ends |-> FALSE]
    /\ got   = [e \in Ends |-> 0]
    /\ told  = [e \in Ends |-> "nothing"]
    /\ taken = [e \in Ends |-> 0]
    /\ pipe  = [e \in Ends |-> "read"]
    /\ conn  = [client |-> "open", remote |-> "none"]
    /\ phase = "dial"

InFlight(e) == taken[Other(e)] - got[e]
Returned(e) == pipe[e] \in {"ended", "failed"}
-----------------------------------------------------------------------------
(* The ends.                                                               *)

\* Before the tunnel stands there is no remote: what the proxy does is Refuse.
Connected(e) == e = "remote" => phase \in {"relay", "over", "killed"}

Send(e) ==
    /\ Connected(e) /\ ~fin[e] /\ ~reset[e] /\ told[e] # "reset"
    /\ sent[e] < MaxChunks
    /\ sent' = [sent EXCEPT ![e] = @ + 1]
    /\ UNCHANGED <<fin, reset, got, told, relay>>

ShutWriting(e) ==
    /\ Connected(e) /\ ~fin[e] /\ ~reset[e] /\ told[e] # "reset"
    /\ fin' = [fin EXCEPT ![e] = TRUE]
    /\ UNCHANGED <<sent, reset, got, told, relay>>

\* After its FIN as well: a program that has closed its socket answers what
\* still comes with a reset.
Reset(e) ==
    /\ Connected(e) /\ ~reset[e] /\ told[e] # "reset"
    /\ reset' = [reset EXCEPT ![e] = TRUE]
    /\ UNCHANGED <<sent, fin, got, told, relay>>

Listening(e) == Connected(e) /\ ~reset[e] /\ told[e] = "nothing"

Receive(e) ==
    /\ Listening(e)
    /\ got[e] < taken[Other(e)]
    /\ got' = [got EXCEPT ![e] = @ + 1]
    /\ UNCHANGED <<sent, fin, reset, told, relay>>

\* What the relay wrote comes before the end of the stream, except what the
\* transport still held when the process was killed.
HearEnd(e) ==
    /\ Listening(e)
    /\ \/ got[e] = taken[Other(e)] /\ (pipe[Other(e)] = "ended" \/ conn[e] = "closed")
       \/ phase = "killed" /\ conn[e] = "closed"
    /\ told' = [told EXCEPT ![e] = "eof"]
    /\ UNCHANGED <<sent, fin, reset, got, relay>>

\* A socket closed with unread data answers with a reset.
HearReset(e) ==
    /\ Listening(e)
    /\ conn[e] = "closed" /\ taken[e] < sent[e]
    /\ told' = [told EXCEPT ![e] = "reset"]
    /\ UNCHANGED <<sent, fin, reset, got, relay>>
-----------------------------------------------------------------------------
(* The transports.                                                         *)

\* Mutant: close() does nothing while the transport holds data.
CloseOnlyIdle(e) == IF conn[e] = "open" /\ InFlight(e) = 0 THEN "closing" ELSE conn[e]

\* transport.close(): what is buffered is written first.
Close(e) == IF conn[e] = "open" THEN "closing" ELSE conn[e]

Flushed(e) ==
    /\ conn[e] = "closing" /\ InFlight(e) <= Kernel
    /\ conn' = [conn EXCEPT ![e] = "closed"]
    /\ UNCHANGED <<peers, taken, pipe, phase>>

\* A read or a write meets the reset.
Notice(e) ==
    /\ reset[e]
    /\ conn[e] = "open" \/ (conn[e] = "closing" /\ InFlight(e) > Kernel)
    /\ conn' = [conn EXCEPT ![e] = "failed"]
    /\ UNCHANGED <<peers, taken, pipe, phase>>
-----------------------------------------------------------------------------
(* socks5_connect.                                                         *)

Progress(from, to) == phase = from /\ phase' = to

Dialled ==
    /\ Progress("dial", "method")
    /\ conn' = [conn EXCEPT !["remote"] = "open"]
    /\ UNCHANGED <<peers, taken, pipe>>

MethodAccepted ==
    /\ Progress("method", "request")
    /\ UNCHANGED <<peers, taken, pipe, conn>>

Granted ==
    /\ Progress("request", "relay")
    /\ UNCHANGED <<peers, taken, pipe, conn>>

\* No proxy, its refusal, or its connection lost: handle closes the client.
\* The upstream StreamWriter closes its transport when it is collected.
Refuse ==
    /\ phase \in Handshake
    /\ phase' = "refused"
    /\ conn' = [e \in Ends |-> Close(e)]
    /\ UNCHANGED <<peers, taken, pipe>>
-----------------------------------------------------------------------------
(* _pipe(e, Other(e)).                                                     *)

At(e, place) == phase = "relay" /\ pipe[e] = place
Go(e, place) == pipe' = [pipe EXCEPT ![e] = place]

\* Mutant: a piece is written twice.
CopyTwice(e) ==
    /\ At(e, "read") /\ conn[e] # "failed"
    /\ taken[e] < sent[e]
    /\ taken' = [taken EXCEPT ![e] = @ + 2]
    /\ Go(e, "drain")
    /\ UNCHANGED <<peers, conn, phase>>

\* `data := await src.read(...)`, dst.write(data).  A failed transport drops
\* what is written.
Copy(e) ==
    /\ At(e, "read") /\ conn[e] # "failed"
    /\ taken[e] < sent[e]
    /\ taken' = [taken EXCEPT ![e] = @ + 1]
    /\ Go(e, "drain")
    /\ UNCHANGED <<peers, conn, phase>>

Drained(e) ==
    /\ At(e, "drain") /\ conn[Other(e)] # "failed"
    /\ InFlight(Other(e)) <= Kernel + HighWater
    /\ Go(e, "read")
    /\ UNCHANGED <<peers, taken, conn, phase>>

\* read() or drain() raises.
Raises(e) == \/ At(e, "read") /\ conn[e] = "failed"
             \/ At(e, "drain") /\ conn[Other(e)] = "failed"

\* Mutant: the exception only ends the task.
AbandonOpen(e) ==
    /\ Raises(e)
    /\ Go(e, "failed")
    /\ UNCHANGED <<peers, taken, conn, phase>>

Abandon(e) ==
    /\ Raises(e)
    /\ Go(e, "failed")
    /\ conn' = [conn EXCEPT ![Other(e)] = Close(Other(e))]
    /\ UNCHANGED <<peers, taken, phase>>

\* read() returned b"": the end shut its writing side and all is read, or the
\* transport was closed under the reader.
AtEof(e) ==
    /\ At(e, "read")
    /\ \/ fin[e] /\ taken[e] = sent[e] /\ conn[e] \in {"open", "closing"}
       \/ conn[e] = "closed"

\* Mutant: a full close in the place of write_eof.
FullClose(e) ==
    /\ AtEof(e)
    /\ Go(e, "ended")
    /\ conn' = [conn EXCEPT ![Other(e)] = Close(Other(e))]
    /\ UNCHANGED <<peers, taken, phase>>

HalfClose(e) ==
    /\ AtEof(e)
    /\ Go(e, "ended")
    /\ UNCHANGED <<peers, taken, conn, phase>>

\* write_eof raises: the other end is gone and nobody has noticed.
HalfCloseFails(e) ==
    /\ AtEof(e)
    /\ conn[Other(e)] = "open" /\ reset[Other(e)]
    /\ Go(e, "failed")
    /\ conn' = [conn EXCEPT ![Other(e)] = Close(Other(e))]
    /\ UNCHANGED <<peers, taken, phase>>

\* Mutant: the first direction to end closes both.
FinishOnFirst ==
    /\ phase = "relay" /\ \E e \in Ends : Returned(e)
    /\ phase' = "over"
    /\ conn' = [e \in Ends |-> Close(e)]
    /\ UNCHANGED <<peers, taken, pipe>>

\* gather() is over: handle closes both writers.
Finish ==
    /\ phase = "relay" /\ \A e \in Ends : Returned(e)
    /\ phase' = "over"
    /\ conn' = [e \in Ends |-> Close(e)]
    /\ UNCHANGED <<peers, taken, pipe>>

\* down, reap or reset killed the relay; the kernel closes its sockets.
Killed ==
    /\ phase # "killed"
    /\ phase' = "killed"
    /\ conn' = [e \in Ends |-> IF conn[e] \in {"none", "failed"} THEN conn[e]
                               ELSE "closed"]
    /\ UNCHANGED <<peers, taken, pipe>>
-----------------------------------------------------------------------------
Peer(e) == \/ Send(e) \/ ShutWriting(e) \/ Reset(e)
           \/ Receive(e) \/ HearEnd(e) \/ HearReset(e)

Pipe(e) == \/ Copy(e) \/ Drained(e) \/ Abandon(e)
           \/ HalfClose(e) \/ HalfCloseFails(e)

Next ==
    \/ \E e \in Ends : Peer(e) \/ Pipe(e) \/ Flushed(e) \/ Notice(e)
    \/ Dialled \/ MethodAccepted \/ Granted \/ Refuse \/ Finish \/ Killed

\* The transport meets a reset when it reads, which it does until it has read
\* the FIN, or when it has something to write.
MustNotice(e) ==
    /\ (pipe[e] = "read" /\ ~fin[e]) \/ InFlight(e) > Kernel
    /\ Notice(e)

\* The event loop runs what is ready, and an end goes on receiving.  Nothing
\* is assumed of what an end sends, nor that the proxy ever answers.
Fairness ==
    /\ WF_vars(Finish)
    /\ \A e \in Ends : /\ WF_vars(Pipe(e))
                       /\ WF_vars(Flushed(e)) /\ WF_vars(MustNotice(e))
                       /\ WF_vars(Receive(e)) /\ WF_vars(HearEnd(e) \/ HearReset(e))

Safety == Init /\ [][Next]_vars
Spec   == Safety /\ Fairness
-----------------------------------------------------------------------------
\* Every variable keeps its range, and nothing is received that was not taken,
\* nor taken that was not sent.
TypeOK ==
    /\ sent \in [Ends -> 0 .. MaxChunks]
    /\ fin \in [Ends -> BOOLEAN] /\ reset \in [Ends -> BOOLEAN]
    /\ got \in [Ends -> 0 .. MaxChunks]
    /\ told \in [Ends -> {"nothing", "eof", "reset"}]
    /\ taken \in [Ends -> 0 .. MaxChunks]
    /\ pipe \in [Ends -> Pipes] /\ conn \in [Ends -> Conns]
    /\ phase \in Phases
    /\ \A e \in Ends : taken[e] <= sent[e] /\ got[Other(e)] <= taken[e]

\* No tunnel, or no relay any more.
Cut == phase \in {"refused", "killed"}

\* "Does NOT fully close dst -- that would truncate" (_pipe): an end that is
\* told the stream is over has all of it, unless the other end reset the
\* connection, the tunnel was refused or the relay was killed.
NoTruncation ==
    \A e \in Ends :
        told[e] = "eof" =>
            \/ fin[Other(e)] /\ got[e] = sent[Other(e)]
            \/ reset[Other(e)]
            \/ Cut

Stream == INSTANCE Channel
    WITH broken <- {e \in Ends : reset[e] \/ Cut}

\* The relay is a channel: in order, each direction on its own, no end of a
\* stream before all of it and no reset that neither end caused.
ImplementsChannel == Stream!Spec

\* Once the tunnel stands, an end that finishes or resets is heard of at the
\* other one ("so the peer doesn't hang").
EndIsHeard ==
    \A e \in Ends :
        (phase = "relay" /\ (fin[e] \/ reset[e]))
            ~> (told[Other(e)] # "nothing" \/ reset[Other(e)])

AllClosed == \A e \in Ends : conn[e] \in {"none", "closed", "failed"}

\* handle gives back both sockets after a refusal, after both ends are done,
\* and after one of them reset the connection while it could still send.
NothingLeaks ==
    (\/ phase = "refused"
     \/ phase = "relay" /\ \A e \in Ends : fin[e] \/ reset[e]
     \/ phase = "relay" /\ \E e \in Ends : reset[e] /\ ~fin[e])
        ~> AllClosed
=============================================================================
