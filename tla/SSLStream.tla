------------------------------ MODULE SSLStream ------------------------------
(***************************************************************************)
(* Two SSLStreams (streams/ssl.cpp) that talk to each other over a pair of *)
(* connected streams.  OpenSSL works on two memory BIOs; the stream moves  *)
(* what it leaves in m_writeBio through m_writeBuffer to its parent, and   *)
(* what it reads from its parent through m_readBuffer to m_readBio.  When  *)
(* OpenSSL wants input, connect(), accept() and close() flush what is      *)
(* pending before they read; read() only reads.                            *)
(*                                                                         *)
(* The SSL engine is external: a handshake is an exchange of flights, that *)
(* the client begins; then come records, and at the end close_notify.      *)
(***************************************************************************)
EXTENDS Naturals, Sequences

CONSTANTS
    Flights,      \* number of flights of the handshake; odd ones are the client's
    MaxRecords,   \* bound: records that a side writes
    Buffered      \* the sides whose parent is a BufferedStream

Sides == {"client", "server"}
Other(s) == IF s = "client" THEN "server" ELSE "client"
Mine(s, i) == (i % 2 = 1) <=> (s = "client")

VARIABLES
    phase,      \* phase[s]: "handshake", "open", "closing" (SSL_shutdown not yet answered), "closed"
    flights,    \* flights[s]: flights that s has sent or taken in
    written, received,   \* records
    m_writeBio, m_writeBuffer, parentBuffer,   \* on their way out
    wire,       \* wire[s]: what s can read from its parent
    m_readBio,  \* what OpenSSL at s has as input
    shutdown,   \* shutdown[s]: SSL_SENT_SHUTDOWN, SSL_RECEIVED_SHUTDOWN
    blocked     \* blocked[s]: the fiber of s is in parent()->read()

sslVars == <<phase, flights, written, received, m_writeBio, m_writeBuffer, parentBuffer, wire,
             m_readBio, shutdown, blocked>>

SSLInit ==
    /\ phase = [s \in Sides |-> "handshake"] /\ flights = [s \in Sides |-> 0]
    /\ written = [s \in Sides |-> 0] /\ received = [s \in Sides |-> 0]
    /\ m_writeBio = [s \in Sides |-> <<>>] /\ m_writeBuffer = [s \in Sides |-> <<>>]
    /\ parentBuffer = [s \in Sides |-> <<>>] /\ wire = [s \in Sides |-> <<>>]
    /\ m_readBio = [s \in Sides |-> <<>>]
    /\ shutdown = [s \in Sides |-> {}] /\ blocked = [s \in Sides |-> FALSE]

-----------------------------------------------------------------------------
\* flush(flushParent) of s with bio left in m_writeBio: everything goes to the parent,
\* which keeps it if it is buffered until it is flushed; nothing pending, no flush.
Flushed(s, bio, flushParent) ==
    LET out == m_writeBuffer[s] \o bio
        kept == parentBuffer[s] \o out
        send == s \notin Buffered \/ (flushParent /\ out # <<>>)
    IN /\ m_writeBio' = [m_writeBio EXCEPT ![s] = <<>>]
       /\ m_writeBuffer' = [m_writeBuffer EXCEPT ![s] = <<>>]
       /\ parentBuffer' = [parentBuffer EXCEPT ![s] = IF send THEN <<>> ELSE kept]
       /\ wire' = [wire EXCEPT ![Other(s)] = IF send THEN @ \o kept ELSE @]

\* Nothing is flushed, and bio stays in m_writeBio.
Unflushed(s, bio) ==
    /\ m_writeBio' = [m_writeBio EXCEPT ![s] = bio]
    /\ UNCHANGED <<m_writeBuffer, parentBuffer, wire>>

\* Mutant of WantRead: what OpenSSL wants to say first is not flushed.
WantReadFirst(s, bio) == Unflushed(s, bio) /\ blocked' = [blocked EXCEPT ![s] = TRUE]

\* SSL_ERROR_WANT_READ in connect(), accept() and close(): flush(), then wantRead().
WantRead(s, bio) == Flushed(s, bio, TRUE) /\ blocked' = [blocked EXCEPT ![s] = TRUE]

\* What the engine answers to a flight that it takes in: its own next flight.
Answers(s, n) == IF n < Flights /\ Mine(s, n + 1) THEN <<"flight">> ELSE <<>>

\* SSL_connect() or SSL_accept(), and what connect() or accept() does with the result.
Handshake(s) ==
    /\ phase[s] = "handshake" /\ ~blocked[s]
    /\ LET in == Len(m_readBio[s])
           first == IF flights[s] = 0 /\ s = "client" THEN 1 ELSE 0
           seen == flights[s] + in
           said == IF first = 1 THEN <<"flight">> ELSE IF in > 0 THEN Answers(s, seen) ELSE <<>>
           all == seen + Len(said)
           bio == m_writeBio[s] \o said
       IN /\ flights' = [flights EXCEPT ![s] = all]
          /\ m_readBio' = [m_readBio EXCEPT ![s] = <<>>]
          /\ IF all = Flights
             THEN phase' = [phase EXCEPT ![s] = "open"] /\ Flushed(s, bio, FALSE) /\ UNCHANGED blocked
             ELSE WantRead(s, bio) /\ UNCHANGED phase
    /\ UNCHANGED <<written, received, shutdown>>

\* wantRead(): the parent has something, which goes to m_readBio.  (A parent that ends
\* without close_notify, for which m_readBio reads as the end from then on, is left out.)
Arrives(s) ==
    /\ blocked[s] /\ wire[s] # <<>>
    /\ m_readBio' = [m_readBio EXCEPT ![s] = @ \o <<Head(wire[s])>>]
    /\ wire' = [wire EXCEPT ![s] = Tail(@)]
    /\ blocked' = [blocked EXCEPT ![s] = FALSE]
    /\ UNCHANGED <<phase, flights, written, received, m_writeBio, m_writeBuffer, parentBuffer, shutdown>>

\* write(): what is pending is flushed, the new record stays in m_writeBio.
write(s) ==
    /\ phase[s] = "open" /\ ~blocked[s] /\ written[s] < MaxRecords
    /\ written' = [written EXCEPT ![s] = @ + 1]
    /\ LET out == m_writeBuffer[s] \o m_writeBio[s]
       IN /\ m_writeBio' = [m_writeBio EXCEPT ![s] = <<"record">>]
          /\ m_writeBuffer' = [m_writeBuffer EXCEPT ![s] = <<>>]
          /\ IF s \in Buffered
             THEN parentBuffer' = [parentBuffer EXCEPT ![s] = @ \o out] /\ UNCHANGED wire
             ELSE wire' = [wire EXCEPT ![Other(s)] = @ \o out] /\ UNCHANGED parentBuffer
    /\ UNCHANGED <<phase, flights, received, m_readBio, shutdown, blocked>>
flush(s) ==
    /\ phase[s] = "open" /\ ~blocked[s] /\ m_writeBio[s] \o m_writeBuffer[s] # <<>>
    /\ Flushed(s, m_writeBio[s], TRUE)
    /\ UNCHANGED <<phase, flights, written, received, m_readBio, shutdown, blocked>>

\* read(): SSL_read() has a record, or close_notify (which reads as the end), or wants more.
read(s) ==
    /\ phase[s] = "open" /\ ~blocked[s] /\ "received" \notin shutdown[s]
    /\ IF m_readBio[s] = <<>>
       THEN blocked' = [blocked EXCEPT ![s] = TRUE] /\ UNCHANGED <<received, shutdown, m_readBio>>
       ELSE /\ m_readBio' = [m_readBio EXCEPT ![s] = Tail(@)]
            /\ IF Head(m_readBio[s]) = "record"
               THEN received' = [received EXCEPT ![s] = @ + 1] /\ UNCHANGED shutdown
               ELSE shutdown' = [shutdown EXCEPT ![s] = @ \cup {"received"}] /\ UNCHANGED received
            /\ UNCHANGED blocked
    /\ UNCHANGED <<phase, flights, written, m_writeBio, m_writeBuffer, parentBuffer, wire>>

\* close(): the first SSL_shutdown() leaves close_notify, which is flushed to the parent.
close(s) ==
    /\ phase[s] = "open" /\ ~blocked[s]
    /\ phase' = [phase EXCEPT ![s] = "closing"]
    /\ shutdown' = [shutdown EXCEPT ![s] = @ \cup {"sent"}]
    /\ Flushed(s, m_writeBio[s] \o <<"close_notify">>, FALSE)
    /\ UNCHANGED <<flights, written, received, m_readBio, blocked>>

\* The loop of close(), until the peer's close_notify has come; records are dropped.  Then
\* parent()->close(), which flushes a parent that is buffered.
Closing(s) ==
    /\ phase[s] = "closing" /\ ~blocked[s]
    /\ IF "received" \in shutdown[s] \/ "close_notify" \in {m_readBio[s][i] : i \in 1..Len(m_readBio[s])}
       THEN /\ phase' = [phase EXCEPT ![s] = "closed"]
            /\ shutdown' = [shutdown EXCEPT ![s] = @ \cup {"received"}]
            /\ wire' = [wire EXCEPT ![Other(s)] = @ \o parentBuffer[s]]
            /\ parentBuffer' = [parentBuffer EXCEPT ![s] = <<>>]
            /\ UNCHANGED <<m_writeBio, m_writeBuffer, blocked>>
       ELSE WantRead(s, m_writeBio[s]) /\ UNCHANGED <<phase, shutdown>>
    /\ m_readBio' = [m_readBio EXCEPT ![s] = <<>>]
    /\ UNCHANGED <<flights, written, received>>

SSLNext ==
    \E s \in Sides : Handshake(s) \/ Arrives(s) \/ write(s) \/ flush(s) \/ read(s) \/ close(s) \/ Closing(s)

SSLProgress == \E s \in Sides : Handshake(s) \/ Arrives(s) \/ Closing(s)
SSLSpec == SSLInit /\ [][SSLNext]_sslVars /\ WF_sslVars(SSLProgress)

-----------------------------------------------------------------------------
\* Both sides get through the handshake, and a close() that both sides call comes to an end:
\* neither waits for something that the other has not sent off.
SSLUnderWay ==
    \/ \E s \in Sides : phase[s] = "handshake"
    \/ /\ \A s \in Sides : phase[s] \in {"closing", "closed"}
       /\ \E s \in Sides : phase[s] = "closing"
SSLMovesOn == []<>~SSLUnderWay

\* What is read was written, and the end comes after all of it that was flushed.
SSLDelivers ==
    \A s \in Sides : /\ received[s] <= written[Other(s)]
                     /\ phase[s] = "open" /\ "received" \in shutdown[s] => received[s] = written[Other(s)]
=============================================================================
