------------------------------- MODULE Server -------------------------------
(***************************************************************************)
(* The TCP server of internal/server/server.go and its clients, the        *)
(* svacara-cli of cmd/svacara-cli/main.go among them.  The stream from a   *)
(* client is bytes; one Read of a handler takes some of them, and handles  *)
(* them as one message.  The answers of the server are read in full and    *)
(* are one unit each.                                                      *)
(*                                                                         *)
(* The pool is a number of connections here (module Pool has the rest),    *)
(* and whether a query, BEGIN or COMMIT is answered by an error, a result  *)
(* or READY is left open (Sql, Pool).                                      *)
(***************************************************************************)
EXTENDS Protocol, FiniteSets, FiniteSetsExt

CONSTANTS
    Clients,
    BufSize,   \* the buffer of a Read (4096; 512 for the token)
    MaxConns,  \* connections of the pool
    Token,     \* the line with the token
    Results,   \* results the server may have to encode: [cols, rows]
    Loads      \* a sequence of what may happen: [clients, scripts, window, cuts, auth, signal], the
               \* clients there are, what one may send, how many answers it may wait for at
               \* a time, whether a Read may return less than what was sent, whether a
               \* token is asked for, whether SIGINT may come

ASSUME BufSizeAssumption == BufSize \in Nat /\ BufSize >= 5 /\ BufSize < 256 * 256
ASSUME MaxConnsAssumption == MaxConns \in Nat

\* What a client writes at a time: a line of text, or a message with text for a payload.
\* Text has no NUL in it.
Bytes == 0 .. 255
Text  == Bytes \ {0}
IsLine(e) == e # <<>> /\ \A i \in DOMAIN e : e[i] \in Text
IsMessage(e) ==
    /\ Len(e) >= 5 /\ Len(e) - 5 < 256 * 256
    /\ e[1] \in Text /\ SubSeq(e, 2, 5) = PutUint32(Len(e) - 5)
    /\ \A i \in 6 .. Len(e) : e[i] \in Text

ASSUME LoadsAssumption ==
    \A l \in DOMAIN Loads : \A script \in Loads[l].scripts :
        script \in Seq(Seq(Bytes)) /\ \A i \in DOMAIN script : IsLine(script[i]) \/ IsMessage(script[i])

VARIABLES
    load,     \* the load of this behaviour, an index of Loads
    client,   \* client[c]: [phase, script, sent, got, wrote], its messages, how many it has
              \* sent and got an answer for and (a ghost) all that it has sent
    up,       \* up[c]: bytes from the client that have not been read
    down,     \* down[c]: answers it has not read; an answer is given by what it answers (a
              \* ghost): a message, by its number, Piece or Refused
    handler,  \* handler[c]: where handleConn is
    acted,    \* ghost: acted[c]: the messages handleMessage was called with
    main,     \* "up", "returned" or "panicked"
    done      \* the steps of the signal handler that are done

vars == <<load, client, up, down, handler, acted, main, done>>

AllLoads == Loads
now == AllLoads[load]

Piece   == 0
Refused == -1

Up == main = "up"

\* The signal has arrived; Shutdown closes the listener, the pool and the store; cancel.
Steps == <<"signal", "listener", "pool", "store", "cancel">>
Past(step) == \E i \in 1 .. done : Steps[i] = step

Init ==
    /\ load \in DOMAIN AllLoads
    /\ \E script \in [now.clients -> now.scripts] :
          client = [c \in Clients |-> [phase |-> "away", sent |-> 0, got |-> 0, wrote |-> <<>>,
                                       script |-> IF c \in now.clients THEN script[c] ELSE <<>>]]
    /\ up = [c \in Clients |-> <<>>]
    /\ down = [c \in Clients |-> <<>>]
    /\ handler = [c \in Clients |-> "none"]
    /\ acted = [c \in Clients |-> <<>>]
    /\ main = "up"
    /\ done = 0

(***************************************************************************)
(* Clients                                                                 *)
(***************************************************************************)

Open(c) == client[c].phase = "open"

Connect(c) ==
    /\ c \in now.clients /\ client[c].phase = "away"
    /\ Up /\ ~Past("listener")
    /\ client' = [client EXCEPT ![c].phase = "open"]
    /\ handler' = [handler EXCEPT ![c] = "queued"]
    /\ UNCHANGED <<load, up, down, acted, main, done>>

Waiting(c) == Open(c) /\ client[c].got < client[c].sent

\* The next message is written; svacara-cli has a window of one.
Send(c) ==
    /\ Open(c) /\ handler[c] # "closed"
    /\ client[c].sent < Len(client[c].script)
    /\ client[c].sent - client[c].got < now.window
    /\ \E message \in {client[c].script[client[c].sent + 1]} :
          /\ client' = [client EXCEPT ![c].sent = @ + 1, ![c].wrote = @ \o message]
          /\ up' = [up EXCEPT ![c] = @ \o message]
    /\ UNCHANGED <<load, down, handler, acted, main, done>>

Take(c) ==
    /\ Waiting(c) /\ down[c] # <<>>
    /\ client' = [client EXCEPT ![c].got = @ + 1]
    /\ down' = [down EXCEPT ![c] = Tail(@)]
    /\ UNCHANGED <<load, up, handler, acted, main, done>>

\* A client finds the connection closed, or is not interested any more.
Leave(c) ==
    /\ Open(c)
    /\ client' = [client EXCEPT ![c].phase = "gone"]
    /\ down' = [down EXCEPT ![c] = <<>>]
    /\ UNCHANGED <<load, up, handler, acted, main, done>>

Reads(c) == Take(c) \/ (handler[c] = "closed" /\ down[c] = <<>> /\ Leave(c))

(***************************************************************************)
(* handleConn                                                              *)
(***************************************************************************)

\* The answer to what was read: to the last message, if this was all of it.
Answer(c, chunk) ==
    <<IF client[c].sent > 0 /\ chunk = client[c].script[client[c].sent] THEN client[c].sent ELSE Piece>>

\* What one Read may return.
Chunks(c) ==
    LET most == Min({Len(up[c]), BufSize})
    IN {SubSeq(up[c], 1, n) : n \in IF now.cuts THEN 1 .. most ELSE {most} \ {0}}

\* Handler c has read chunk, answers it and is at step next.
Handle(c, chunk, answer, next) ==
    /\ up' = [up EXCEPT ![c] = IF next = "closed" THEN <<>> ELSE SubSeq(@, Len(chunk) + 1, Len(@))]
    /\ down' = [down EXCEPT ![c] = @ \o answer]
    /\ handler' = [handler EXCEPT ![c] = next]
    /\ UNCHANGED <<load, client, main, done>>

\* The bytes in front of the first end of a line, or none.
FirstLine(chunk) ==
    LET ends == {i \in DOMAIN chunk : chunk[i] \in {10, 13}}
    IN IF ends = {} THEN <<>> ELSE SubSeq(chunk, 1, Min(ends) - 1)

ASSUME TokenAssumption == FirstLine(Token) # <<>>

\* Mutant: a client that fails is told so and stays.
ReadToken_NoReturn(c) ==
    /\ Up /\ handler[c] = "auth"
    /\ \E chunk \in Chunks(c) :
          Handle(c, chunk, Answer(c, chunk), "acquire")
    /\ UNCHANGED acted

\* The token is expected in one Read; what follows it there is dropped.
ReadToken(c) ==
    /\ Up /\ handler[c] = "auth"
    /\ \E chunk \in Chunks(c) :
          Handle(c, chunk, Answer(c, chunk), IF FirstLine(chunk) = FirstLine(Token) THEN "acquire" ELSE "closed")
    /\ UNCHANGED acted

InPool == {c \in Clients : handler[c] = "loop"}

Acquire(c) ==
    /\ Up /\ handler[c] = "acquire"
    /\ IF Past("pool") \/ Cardinality(InPool) >= MaxConns
       THEN Handle(c, <<>>, <<Refused>>, "closed")
       ELSE Handle(c, <<>>, <<>>, "loop")
    /\ UNCHANGED acted

\* Mutants: no deadline is set; the end of the stream is no reason to stop.
ReadFails_NoDeadline(c) ==
    /\ Up /\ handler[c] \in {"auth", "loop"}
    /\ client[c].phase = "gone" /\ up[c] = <<>>
    /\ Handle(c, <<>>, <<>>, "closed")
    /\ UNCHANGED acted

ReadFails_Stays(c) ==
    /\ Up /\ handler[c] \in {"auth", "loop"}
    /\ client[c].phase = "gone" /\ up[c] = <<>>
    /\ UNCHANGED vars

\* Nothing has arrived until the deadline, or the client has closed its end.  The
\* connection goes back to the pool.
ReadFails(c) ==
    /\ Up /\ handler[c] \in {"auth", "loop"}
    /\ Handle(c, <<>>, <<>>, "closed")
    /\ UNCHANGED acted

Ends(how) ==
    /\ main' = how
    /\ handler' = [c \in Clients |-> IF handler[c] = "none" THEN "none" ELSE "closed"]
    /\ up' = [c \in Clients |-> <<>>]
    /\ UNCHANGED <<load, client, down, done>>

\* The types of handleMessage.
Handled == {MsgQuery, MsgBegin, MsgCommit, MsgAbort}

\* Mutant: an error is sent, and READY after it.
ReadMessage_NoReturn(c) ==
    /\ Up /\ handler[c] = "loop"
    /\ \E chunk \in Chunks(c) : Handle(c, chunk, Answer(c, chunk) \o Answer(c, chunk), "loop")
    /\ UNCHANGED acted

\* A message that cannot be decoded and one of another type are answered by an
\* error; handleQuery panics over a row that is not there in full.
ReadMessage(c) ==
    /\ Up /\ handler[c] = "loop"
    /\ \E chunk \in Chunks(c) : \E msg \in {DecodeMessage(chunk)} :
          \/ /\ ~(msg.ok /\ msg.type \in Handled)
             /\ Handle(c, chunk, Answer(c, chunk), "loop")
             /\ UNCHANGED acted
          \/ /\ msg.ok /\ msg.type \in Handled
             /\ Handle(c, chunk, Answer(c, chunk), "loop")
             /\ acted' = [acted EXCEPT ![c] = Append(@, <<msg.type, msg.payload>>)]
          \/ /\ msg.ok /\ msg.type = MsgQuery
             /\ Ends("panicked")
             /\ acted' = [acted EXCEPT ![c] = Append(@, <<msg.type, msg.payload>>)]

Serve(c) == ReadToken(c) \/ Acquire(c) \/ ReadFails(c) \/ ReadMessage(c)

(***************************************************************************)
(* serve and Shutdown                                                      *)
(***************************************************************************)

Accept(c) ==
    /\ Up /\ handler[c] = "queued"
    /\ handler' = [handler EXCEPT ![c] = IF now.auth THEN "auth" ELSE "acquire"]
    /\ UNCHANGED <<load, client, up, down, acted, main, done>>

\* Mutants: the loop ends at the first error; it never ends.
AcceptFails_First ==
    /\ Up /\ Past("listener")
    /\ Ends("returned")
    /\ UNCHANGED acted

AcceptFails_Continue ==
    /\ Up /\ Past("listener")
    /\ UNCHANGED vars

\* The loop comes to its end: the listener is closed and the context cancelled.
\* Until then it tries again, to no effect.
AcceptFails ==
    /\ Up /\ Past("listener") /\ Past("cancel")
    /\ Ends("returned")
    /\ UNCHANGED acted

Signal ==
    /\ Up /\ now.signal /\ done = 0
    /\ done' = 1
    /\ UNCHANGED <<load, client, up, down, handler, acted, main>>

\* A connection that has not been accepted is lost with the listener.
ShutdownStep ==
    /\ Up /\ done > 0 /\ done < Len(Steps)
    /\ done' = done + 1
    /\ handler' = [c \in Clients |-> IF handler[c] = "queued" /\ Steps[done + 1] = "listener"
                                     THEN "closed" ELSE handler[c]]
    /\ UNCHANGED <<load, client, up, down, acted, main>>

Next ==
    \/ Signal \/ ShutdownStep \/ AcceptFails
    \/ \E c \in Clients :
          Connect(c) \/ Send(c) \/ Take(c) \/ Leave(c) \/ Accept(c) \/ Serve(c)

\* Goroutines run; deadlines pass; a client that waits for an answer reads it.
Spec ==
    /\ Init /\ [][Next]_vars
    /\ WF_vars(ShutdownStep) /\ WF_vars(AcceptFails)
    /\ \A c \in Clients : WF_vars(Reads(c)) /\ WF_vars(Accept(c)) /\ WF_vars(Serve(c))

(***************************************************************************)
(* Properties                                                              *)
(***************************************************************************)

\* The j-th call of handleMessage for c was with message i of the client.
Acted(c, j, i) == DecodeMessage(client[c].script[i]) = Message(acted[c][j][1], acted[c][j][2])

\* handleMessage is called with messages the client has sent, in their order and at
\* most once each, however the stream is cut into Reads: the pieces of a message
\* are errors, and no piece is taken for a message of its own.
NoPhantom ==
    \A c \in Clients : \E f \in [DOMAIN acted[c] -> 1 .. client[c].sent] :
        /\ \A j \in DOMAIN f : Acted(c, j, f[j])
        /\ \A j, k \in DOMAIN f : j < k => f[j] < f[k]

\* With a token in the configuration no message is handled on a connection whose
\* first line was another one.
AuthFirst ==
    now.auth => \A c \in Clients :
        acted[c] # <<>> => FirstLine(client[c].wrote) = FirstLine(Token)

\* The i-th answer that waits for the client is to its message, of which it got the
\* answers before; a connection refused by the pool gets that as its only answer.
Answered(c, i) == down[c][i] \in {Refused, client[c].got + i}

\* A client that waits for every answer, on a network where a Read returns the whole
\* message, gets the answer to its message and no other one: no answer is missing or
\* left over.
AnswersMatch ==
    (now.window = 1 /\ ~now.cuts) =>
    \A c \in Clients : (\A i \in DOMAIN client[c].script : Len(client[c].script[i]) <= BufSize)
                         => \A i \in DOMAIN down[c] : Answered(c, i)

\* serve returns only when the store has been closed: cancel comes after Shutdown.
ClosedOnReturn == main = "returned" => Past("store")

\* The client prints the columns and the rows that EncodeResult was given.
Misprinted ==
    {r \in Results : printResult(Body(EncodeResult(r.cols, r.rows))) #
        <<r.cols>> \o [k \in DOMAIN r.rows |-> [i \in DOMAIN r.cols |-> r.rows[k][r.cols[i]]]]}
ResultsPrinted == Up => Misprinted = {}

\* A client that waits for an answer gets one or finds the connection closed, also
\* when its message was dropped: the deadline of the Read sees to it.
AnswerOrEnd == \A c \in Clients : Waiting(c) ~> ~Waiting(c)

\* When a client is gone its handler returns, and its connection to the pool.
ConnReturned == \A c \in Clients : client[c].phase = "gone" ~> handler[c] \in {"none", "closed"}

\* After a signal the process ends, whatever the clients do.
SignalEnds == done > 0 ~> ~Up

\* A client that waits for every answer gets the one to its message on every network
\* (README.md:97, length-prefixed framing).
FramingKeepsAnswers ==
    now.window = 1 => \A c \in Clients : Open(c) => \A i \in DOMAIN down[c] : Answered(c, i)
=============================================================================
