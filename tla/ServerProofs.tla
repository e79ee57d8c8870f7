---------------------------- MODULE ServerProofs ----------------------------
(***************************************************************************)
(* The theorems about the server: its inductive invariant, which also      *)
(* gives StreamProofs the types, and what follows from it.                 *)
(***************************************************************************)
EXTENDS Server, TLAPS, WellFoundedInduction

(***************************************************************************)
(* Sequences                                                               *)
(***************************************************************************)

\* Sequences with the same elements are equal.
LEMMA SameElements ==
    ASSUME NEW S, NEW s \in Seq(S), NEW t \in Seq(S), Len(s) = Len(t), \A i \in 1 .. Len(s) : s[i] = t[i]
    PROVE  s = t
  OBVIOUS

\* A sequence of no elements, and one behind another.
LEMMA EmptyConcat ==
    ASSUME NEW S, NEW s \in Seq(S)
    PROVE  (Len(s) = 0 => s = <<>>) /\ s \o <<>> = s /\ <<>> \o s = s
  OBVIOUS

\* A sequence with an element behind it.
LEMMA AppendParts ==
    ASSUME NEW S, NEW s \in Seq(S), NEW e \in S
    PROVE  /\ Append(s, e) \in Seq(S) /\ Len(Append(s, e)) = Len(s) + 1
           /\ DOMAIN Append(s, e) = 1 .. Len(s) + 1
           /\ \A i \in 1 .. Len(s) : Append(s, e)[i] = s[i]
           /\ Append(s, e)[Len(s) + 1] = e
  OBVIOUS

\* What two sequences make when one is appended to the other.
LEMMA Concat ==
    ASSUME NEW a \in Seq(Bytes), NEW b \in Seq(Bytes)
    PROVE  /\ a \o b \in Seq(Bytes) /\ Len(a \o b) = Len(a) + Len(b)
           /\ \A i \in 1 .. Len(a) : (a \o b)[i] = a[i]
           /\ \A i \in 1 .. Len(b) : (a \o b)[Len(a) + i] = b[i]
  OBVIOUS

(***************************************************************************)
(* One message or one answer under way                                     *)
(***************************************************************************)

\* What the answers on the way to a client are after one is taken and after
\* one is added.
LEMMA TailParts ==
    ASSUME NEW d \in Seq(Int), d # <<>>
    PROVE  /\ Len(Tail(d)) = Len(d) - 1 /\ Len(d) \in Nat /\ DOMAIN d = 1 .. Len(d)
           /\ DOMAIN Tail(d) = 1 .. Len(d) - 1
           /\ \A i \in 1 .. Len(d) - 1 : Tail(d)[i] = d[i + 1]
OBVIOUS

\* The refusal may follow any answers.
LEMMA RefusedLast ==
    ASSUME NEW d \in Seq(Int), NEW g \in Nat, \A i \in DOMAIN d : d[i] \in {Refused, g + i}
    PROVE  \A i \in DOMAIN Append(d, Refused) : Append(d, Refused)[i] \in {Refused, g + i}
<1> TAKE i \in DOMAIN Append(d, Refused)
<1>1. i \in 1 .. Len(d) + 1 /\ Len(d) \in Nat /\ DOMAIN d = 1 .. Len(d)
  BY AppendParts
<1>2. Append(d, Refused)[i] = IF i <= Len(d) THEN d[i] ELSE Refused
  BY <1>1, AppendParts
<1> QED
  BY <1>1, <1>2

\* The first answer under way is the only one.
LEMMA OneAnswer ==
    ASSUME NEW n
    PROVE  <<>> \o <<n>> = <<n>> /\ DOMAIN <<n>> = {1} /\ <<n>>[1] = n
OBVIOUS

\* A client that waits for every answer has got them all before it sends.
LEMMA NoneOutstanding ==
    ASSUME NEW n \in Nat, NEW g \in Nat, g <= n, NEW window, window = 1, n - g < window
    PROVE  n = g
OBVIOUS

\* To a client that has sent n elements of s and got g answers, of which u is still to be
\* read and d to be delivered; h is the handler.
LockstepIn(n, g, h, u, s, d) ==
    /\ n <= g + 1
    /\ h # "closed" =>
         /\ u # <<>> => n = g + 1 /\ u = s[n] /\ d = <<>>
         /\ d # <<>> => n = g + 1 /\ d = <<n>>
    /\ \A i \in DOMAIN d : d[i] \in {Refused, g + i}

\* Reading all of it, or nothing, without an answer.
LEMMA LockstepQuiet ==
    ASSUME NEW n, NEW g, NEW h, NEW u, NEW s, NEW d, NEW k, NEW v, LockstepIn(n, g, h, u, s, d),
           k # "closed" => h # "closed" /\ (v = u \/ v = <<>>)
    PROVE  LockstepIn(n, g, k, v, s, d)
  BY Zenon DEF LockstepIn

\* Sending the next message when every answer has come.
LEMMA LockstepSent ==
    ASSUME NEW n \in Nat, NEW g \in Nat, NEW h, NEW u, NEW s, NEW d, LockstepIn(n, g, h, u, s, d),
           h # "closed", n = g, s[n + 1] \in Seq(Bytes)
    PROVE  LockstepIn(n + 1, g, h, u \o s[n + 1], s, d)
<1>1. n # g + 1 /\ n + 1 <= g + 1 /\ n + 1 = g + 1
  OBVIOUS
<1>2. u = <<>> /\ d = <<>> /\ DOMAIN d = {}
  BY <1>1 DEF LockstepIn
<1>3. u \o s[n + 1] = s[n + 1]
  BY <1>2, EmptyConcat
<1> QED
  BY <1>1, <1>2, <1>3, Zenon DEF LockstepIn

\* Taking an answer.
LEMMA LockstepTaken ==
    ASSUME NEW n \in Nat, NEW g \in Nat, NEW h, NEW u, NEW s, NEW d \in Seq(Int),
           LockstepIn(n, g, h, u, s, d), d # <<>>
    PROVE  LockstepIn(n, g + 1, h, u, s, Tail(d))
<1>1. /\ Len(Tail(d)) = Len(d) - 1 /\ Len(d) \in Nat /\ DOMAIN d = 1 .. Len(d)
      /\ DOMAIN Tail(d) = 1 .. Len(d) - 1
      /\ \A i \in 1 .. Len(d) - 1 : Tail(d)[i] = d[i + 1]
  BY TailParts, Zenon
<1>2. ASSUME NEW i \in DOMAIN Tail(d) PROVE Tail(d)[i] \in {Refused, g + 1 + i}
  <2>1. i \in 1 .. Len(d) - 1 /\ i + 1 \in DOMAIN d /\ g + (i + 1) = g + 1 + i
    BY <1>1
  <2>2. Tail(d)[i] = d[i + 1] /\ d[i + 1] \in {Refused, g + (i + 1)}
    BY <1>1, <2>1, Zenon DEF LockstepIn
  <2> QED
    BY <2>1, <2>2, Zenon
<1>3. h # "closed" => u = <<>> /\ Tail(d) = <<>>
  <2> SUFFICES ASSUME h # "closed" PROVE u = <<>> /\ Tail(d) = <<>>
    OBVIOUS
  <2>1. u = <<>> /\ d = <<n>>
    BY Zenon DEF LockstepIn
  <2>2. Tail(d) = <<>>
    BY <2>1
  <2> QED
    BY <2>1, <2>2
<1>4. n <= g + 1 + 1
  BY DEF LockstepIn
<1> QED
  BY <1>2, <1>3, <1>4, Zenon DEF LockstepIn

\* Throwing away the answers of a client that has left.
LEMMA LockstepLeft ==
    ASSUME NEW n, NEW g, NEW h, NEW u, NEW s, NEW d, LockstepIn(n, g, h, u, s, d)
    PROVE  LockstepIn(n, g, h, u, s, <<>>)
<1>1. DOMAIN <<>> = {}
  OBVIOUS
<1> QED
  BY <1>1, Zenon DEF LockstepIn

\* Refusing the connection.
LEMMA LockstepRefused ==
    ASSUME NEW n, NEW g \in Nat, NEW h, NEW u, NEW s, NEW d \in Seq(Int),
           LockstepIn(n, g, h, u, s, d), NEW v
    PROVE  LockstepIn(n, g, "closed", v, s, Append(d, Refused))
<1>1. \A i \in DOMAIN d : d[i] \in {Refused, g + i}
  BY Zenon DEF LockstepIn
<1>2. \A i \in DOMAIN Append(d, Refused) : Append(d, Refused)[i] \in {Refused, g + i}
  BY <1>1, RefusedLast, Zenon
<1> QED
  BY <1>2, Zenon DEF LockstepIn

\* Reading the message under way and answering it.
LEMMA LockstepAnswered ==
    ASSUME NEW n \in Nat, NEW g \in Nat, NEW h, NEW s, n = g + 1
    PROVE  LockstepIn(n, g, h, <<>>, s, <<>> \o <<n>>)
<1>1. <<>> \o <<n>> = <<n>> /\ DOMAIN <<n>> = {1} /\ <<n>>[1] = n
  BY OneAnswer, Zenon
<1>2. n <= g + 1
  OBVIOUS
<1> QED
  BY <1>1, <1>2, Zenon DEF LockstepIn

(***************************************************************************)
(* The invariant                                                           *)
(***************************************************************************)

Script == {s \in Seq(Seq(Bytes)) : \A i \in DOMAIN s : IsLine(s[i]) \/ IsMessage(s[i])}

\* What a client writes is at least one byte.
LEMMA ScriptElement ==
    ASSUME NEW s \in Script, NEW i \in 1 .. Len(s)
    PROVE  /\ s[i] \in Seq(Bytes) /\ Len(s[i]) \in Nat /\ Len(s[i]) >= 1
           /\ IsLine(s[i]) \/ IsMessage(s[i])
<1>1. s \in Seq(Seq(Bytes)) /\ \A j \in DOMAIN s : IsLine(s[j]) \/ IsMessage(s[j])
  BY DEF Script
<1>2. s[i] \in Seq(Bytes) /\ (IsLine(s[i]) \/ IsMessage(s[i]))
  BY <1>1
<1> QED
  BY <1>2 DEF IsLine, IsMessage

Handlers == {"none", "queued", "auth", "acquire", "loop", "closed"}

ClientRecord ==
    [phase : {"away", "open", "gone"}, script : Script, sent : Nat, got : Nat, wrote : Seq(Bytes)]

ClientType(c) ==
    /\ client[c] \in ClientRecord
    /\ client[c].got <= client[c].sent /\ client[c].sent <= Len(client[c].script)
    /\ up[c] \in Seq(Bytes) /\ down[c] \in Seq(Int)
    /\ handler[c] \in Handlers
    /\ acted[c] \in Seq(Bytes \X Seq(Bytes))

\* Every variable of the clients is a function on them.
PerClient ==
    /\ client = [c \in Clients |-> client[c]]
    /\ up = [c \in Clients |-> up[c]]
    /\ down = [c \in Clients |-> down[c]]
    /\ handler = [c \in Clients |-> handler[c]]
    /\ acted = [c \in Clients |-> acted[c]]

ServerType ==
    /\ load \in DOMAIN Loads
    /\ PerClient /\ \A c \in Clients : ClientType(c)
    /\ main \in {"up", "returned", "panicked"}
    /\ done \in 0 .. 5

\* A client that is away has done nothing; nothing is read before the token is.
Unread(c) ==
    /\ handler[c] = "none" <=> client[c].phase = "away"
    /\ handler[c] = "none" => client[c].wrote = <<>>
    /\ handler[c] \in {"none", "queued", "auth"} => up[c] = client[c].wrote /\ acted[c] = <<>>

\* Who gets past the token has sent it in the first line.
TokenSeen(c) ==
    (now.auth /\ (handler[c] \in {"acquire", "loop"} \/ acted[c] # <<>>))
       => FirstLine(client[c].wrote) = FirstLine(Token)

\* One message or one answer is under way, to a client that waits for every answer.
Lockstep(c) ==
    LockstepIn(client[c].sent, client[c].got, handler[c], up[c], client[c].script, down[c])

OneByOneOf(c) ==
    /\ now.window = 1 /\ ~now.cuts
    /\ \A i \in DOMAIN client[c].script : Len(client[c].script[i]) <= BufSize

ServerInv ==
    /\ ServerType
    /\ \A c \in Clients : Unread(c) /\ TokenSeen(c) /\ (OneByOneOf(c) => Lockstep(c))
    /\ main = "returned" => done = 5

(***************************************************************************)
(* A step as one client sees it                                            *)
(***************************************************************************)

Same(c) ==
    /\ client'[c] = client[c] /\ up'[c] = up[c] /\ down'[c] = down[c]
    /\ handler'[c] = handler[c] /\ acted'[c] = acted[c]

Connects(c) ==
    /\ client[c].phase = "away" /\ client'[c] = [client[c] EXCEPT !.phase = "open"]
    /\ handler'[c] = "queued"
    /\ up'[c] = up[c] /\ down'[c] = down[c] /\ acted'[c] = acted[c]

Sends(c) ==
    LET message == client[c].script[client[c].sent + 1]
    IN /\ Open(c) /\ handler[c] # "closed"
       /\ client[c].sent < Len(client[c].script) /\ client[c].sent - client[c].got < now.window
       /\ client'[c] = [client[c] EXCEPT !.sent = @ + 1, !.wrote = @ \o message]
       /\ up'[c] = up[c] \o message
       /\ down'[c] = down[c] /\ handler'[c] = handler[c] /\ acted'[c] = acted[c]

Takes(c) ==
    /\ client[c].got < client[c].sent /\ down[c] # <<>>
    /\ client'[c] = [client[c] EXCEPT !.got = @ + 1]
    /\ down'[c] = Tail(down[c])
    /\ up'[c] = up[c] /\ handler'[c] = handler[c] /\ acted'[c] = acted[c]

Leaves(c) ==
    /\ Open(c) /\ client'[c] = [client[c] EXCEPT !.phase = "gone"]
    /\ down'[c] = <<>>
    /\ up'[c] = up[c] /\ handler'[c] = handler[c] /\ acted'[c] = acted[c]

\* The handler comes to its next step; nothing is read or answered.
Advances(c) ==
    /\ \/ handler[c] = "queued" /\ handler'[c] = IF now.auth THEN "auth" ELSE "acquire"
       \/ handler[c] = "queued" /\ handler'[c] = "closed"
       \/ handler[c] = "acquire" /\ handler'[c] = "loop"
    /\ client'[c] = client[c] /\ up'[c] = up[c] /\ down'[c] = down[c] /\ acted'[c] = acted[c]

\* The handler returns, or the process ends.
Closes(c) ==
    /\ handler'[c] = IF handler[c] = "none" THEN "none" ELSE "closed"
    /\ up'[c] = <<>>
    /\ down'[c] = down[c] \/ (handler'[c] = "closed" /\ down'[c] = Append(down[c], Refused))
    /\ client'[c] = client[c] /\ acted'[c] = acted[c]

\* m bytes may be what one Read returns.
MayRead(c, m) ==
    /\ m \in 1 .. Len(up[c]) /\ m <= BufSize
    /\ (~now.cuts /\ Len(up[c]) <= BufSize) => m = Len(up[c])

ReadsToken(c, m) ==
    LET chunk == SubSeq(up[c], 1, m)
    IN /\ handler[c] = "auth" /\ MayRead(c, m)
       /\ \/ /\ FirstLine(chunk) = FirstLine(Token) /\ handler'[c] = "acquire"
             /\ up'[c] = SubSeq(up[c], m + 1, Len(up[c]))
          \/ handler'[c] = "closed" /\ up'[c] = <<>>
       /\ down'[c] = down[c] \o Answer(c, chunk)
       /\ client'[c] = client[c] /\ acted'[c] = acted[c]

ReadsMessage(c, m) ==
    LET chunk == SubSeq(up[c], 1, m)
        msg   == DecodeMessage(chunk)
    IN /\ handler[c] = "loop" /\ MayRead(c, m)
       /\ client'[c] = client[c]
       /\ \/ /\ handler'[c] = "loop" /\ up'[c] = SubSeq(up[c], m + 1, Len(up[c]))
             /\ down'[c] = down[c] \o Answer(c, chunk)
          \/ handler'[c] = "closed" /\ up'[c] = <<>> /\ down'[c] = down[c]
       /\ \/ acted'[c] = acted[c]
          \/ /\ msg.ok /\ msg.type \in Handled
             /\ acted'[c] = Append(acted[c], <<msg.type, msg.payload>>)

ClientStep(c) ==
    \/ Same(c) \/ Connects(c) \/ Sends(c) \/ Takes(c) \/ Leaves(c) \/ Advances(c) \/ Closes(c)
    \/ \E m \in Nat : ReadsToken(c, m) \/ ReadsMessage(c, m)

\* The handler that reads a message stays in its loop or returns.
LEMMA MessageReader ==
    ASSUME NEW c, NEW m, ReadsMessage(c, m)
    PROVE  handler[c] = "loop" /\ client'[c] = client[c] /\ handler'[c] \in {"loop", "closed"}
  BY Zenon DEF ReadsMessage

\* The smaller of the buffer and of what has arrived.
LEMMA MinOfTwo ==
    ASSUME NEW a \in Int, NEW b \in Int
    PROVE  Min({a, b}) = IF a <= b THEN a ELSE b
<1> DEFINE m == IF a <= b THEN a ELSE b
<1>1. m \in {a, b} /\ \A y \in {a, b} : m <= y
  OBVIOUS
<1>2. \A x \in {a, b} : (\A y \in {a, b} : x <= y) => x = m
  OBVIOUS
<1> HIDE DEF m
<1>3. Min({a, b}) \in {a, b} /\ \A y \in {a, b} : Min({a, b}) <= y
  BY <1>1 DEF Min
<1> QED
  BY <1>2, <1>3 DEF m

\* What a Read returns is the front of what has arrived.
LEMMA ChunkIsFront ==
    ASSUME NEW c \in Clients, up[c] \in Seq(Bytes), NEW chunk \in Chunks(c)
    PROVE  \E m \in Nat : /\ MayRead(c, m)
                          /\ chunk = SubSeq(up[c], 1, m) /\ chunk \in Seq(Bytes) /\ Len(chunk) = m
<1> DEFINE most == Min({Len(up[c]), BufSize})
<1>1. Len(up[c]) \in Nat /\ BufSize \in Nat
  BY BufSizeAssumption
<1>2. most = IF Len(up[c]) <= BufSize THEN Len(up[c]) ELSE BufSize
  BY <1>1, MinOfTwo
<1>3. PICK m \in (IF now.cuts THEN 1 .. most ELSE {most} \ {0}) : chunk = SubSeq(up[c], 1, m)
  BY Zenon DEF Chunks
<1> HIDE DEF most
<1>4. m \in Nat /\ m \in 1 .. Len(up[c]) /\ m <= BufSize /\ (~now.cuts => m = most)
  BY <1>1, <1>2, <1>3
<1>5. MayRead(c, m)
  BY <1>1, <1>2, <1>4 DEF MayRead
<1>6. chunk \in Seq(Bytes) /\ Len(chunk) = m
  BY <1>3, <1>4
<1> QED
  BY <1>3, <1>4, <1>5, <1>6

\* The end of the process closes every handler.
LEMMA EndsCloses ==
    ASSUME NEW how, Ends(how), NEW c \in Clients, acted'[c] = acted[c]
    PROVE  Closes(c)
  BY DEF Ends, Closes

\* A step of the system is, for every client, one of its few kinds of step.
LEMMA NextIsClientStep ==
    ASSUME ServerType, Next
    PROVE  load' = load /\ PerClient' /\ \A d \in Clients : ClientStep(d)
<1> USE DEF ServerType
<1>0. \A d \in Clients : up[d] \in Seq(Bytes) /\ down[d] \in Seq(Int)
  BY DEF ClientType
<1>1. CASE Signal
  BY <1>1 DEF Signal, PerClient, ClientStep, Same
<1>2. CASE ShutdownStep
  <2>1. load' = load /\ PerClient'
    BY <1>2 DEF ShutdownStep, PerClient
  <2>2. ASSUME NEW d \in Clients PROVE Same(d) \/ Advances(d)
    BY <1>2 DEF ShutdownStep, Same, Advances
  <2> QED
    BY <2>1, <2>2 DEF ClientStep
<1>3. CASE AcceptFails
  <2>1. load' = load /\ PerClient'
    BY <1>3 DEF AcceptFails, Ends, PerClient
  <2>2. \A d \in Clients : Closes(d)
    BY <1>3, EndsCloses DEF AcceptFails
  <2> QED
    BY <2>1, <2>2 DEF ClientStep
<1>4. ASSUME NEW c \in Clients, Connect(c) PROVE load' = load /\ PerClient' /\ \A d \in Clients : ClientStep(d)
  <2>1. load' = load /\ PerClient'
    BY <1>4, Zenon DEF Connect, PerClient
  <2>2. Connects(c)
    BY <1>4 DEF Connect, Connects, PerClient
  <2>3. \A d \in Clients \ {c} : Same(d)
    BY <1>4 DEF Connect, Same, PerClient
  <2> QED
    BY <2>1, <2>2, <2>3 DEF ClientStep
<1>5. ASSUME NEW c \in Clients, Send(c) PROVE load' = load /\ PerClient' /\ \A d \in Clients : ClientStep(d)
  <2> DEFINE message == client[c].script[client[c].sent + 1]
  <2>0. /\ client' = [client EXCEPT ![c].sent = @ + 1, ![c].wrote = @ \o message]
        /\ up' = [up EXCEPT ![c] = @ \o message]
        /\ Open(c) /\ handler[c] # "closed" /\ client[c].sent < Len(client[c].script)
        /\ client[c].sent - client[c].got < now.window
        /\ UNCHANGED <<load, down, handler, acted, main, done>>
    BY <1>5, Zenon DEF Send
  <2> HIDE DEF message
  <2>1. load' = load /\ PerClient'
    BY <2>0, ZenonT(30) DEF PerClient
  <2>2. /\ client'[c] = [client[c] EXCEPT !.sent = @ + 1, !.wrote = @ \o message]
        /\ up'[c] = up[c] \o message
    BY <2>0 DEF PerClient
  <2>3. Sends(c)
    BY <2>0, <2>2, Zenon DEF Sends, message
  <2>4. \A d \in Clients \ {c} : Same(d)
    BY <2>0 DEF Same, PerClient
  <2> QED
    BY <2>1, <2>3, <2>4 DEF ClientStep
<1>6. ASSUME NEW c \in Clients, Take(c) PROVE load' = load /\ PerClient' /\ \A d \in Clients : ClientStep(d)
  <2>1. load' = load /\ PerClient'
    BY <1>6, Zenon DEF Take, PerClient
  <2>2. Takes(c)
    BY <1>6 DEF Take, Takes, PerClient, Waiting
  <2>3. \A d \in Clients \ {c} : Same(d)
    BY <1>6 DEF Take, Same, PerClient
  <2> QED
    BY <2>1, <2>2, <2>3 DEF ClientStep
<1>7. ASSUME NEW c \in Clients, Leave(c) PROVE load' = load /\ PerClient' /\ \A d \in Clients : ClientStep(d)
  <2>1. load' = load /\ PerClient'
    BY <1>7, Zenon DEF Leave, PerClient
  <2>2. Leaves(c)
    BY <1>7 DEF Leave, Leaves, PerClient
  <2>3. \A d \in Clients \ {c} : Same(d)
    BY <1>7 DEF Leave, Same, PerClient
  <2> QED
    BY <2>1, <2>2, <2>3 DEF ClientStep
<1>8. ASSUME NEW c \in Clients, Accept(c) PROVE load' = load /\ PerClient' /\ \A d \in Clients : ClientStep(d)
  <2>1. load' = load /\ PerClient'
    BY <1>8, Zenon DEF Accept, PerClient
  <2>2. Advances(c)
    BY <1>8 DEF Accept, Advances, PerClient
  <2>3. \A d \in Clients \ {c} : Same(d)
    BY <1>8 DEF Accept, Same, PerClient
  <2> QED
    BY <2>1, <2>2, <2>3 DEF ClientStep
<1>9. ASSUME NEW c \in Clients, NEW chunk, NEW answer, NEW next, Handle(c, chunk, answer, next)
      PROVE  /\ load' = load /\ client'[c] = client[c]
             /\ client' = [d \in Clients |-> client'[d]] /\ up' = [d \in Clients |-> up'[d]]
             /\ down' = [d \in Clients |-> down'[d]] /\ handler' = [d \in Clients |-> handler'[d]]
             /\ handler'[c] = next /\ down'[c] = down[c] \o answer
             /\ up'[c] = IF next = "closed" THEN <<>> ELSE SubSeq(up[c], Len(chunk) + 1, Len(up[c]))
             /\ \A d \in Clients \ {c} : acted'[d] = acted[d] => Same(d)
  BY <1>9, Zenon DEF Handle, PerClient, Same
<1>10. ASSUME NEW c \in Clients, Acquire(c) PROVE load' = load /\ PerClient' /\ \A d \in Clients : ClientStep(d)
  <2>1. acted' = acted /\ handler[c] = "acquire"
        /\ (Handle(c, <<>>, <<Refused>>, "closed") \/ Handle(c, <<>>, <<>>, "loop"))
    BY <1>10 DEF Acquire
  <2>2. CASE Handle(c, <<>>, <<Refused>>, "closed")
    <3>1. /\ load' = load /\ PerClient' /\ client'[c] = client[c]
          /\ handler'[c] = "closed" /\ down'[c] = down[c] \o <<Refused>> /\ up'[c] = <<>>
          /\ \A d \in Clients \ {c} : Same(d)
      BY <1>9, <2>1, <2>2, ZenonT(30) DEF PerClient
    <3>2. down[c] \o <<Refused>> = Append(down[c], Refused)
      BY <1>0 DEF Refused
    <3>3. Closes(c)
      BY <2>1, <3>1, <3>2 DEF Closes
    <3> QED
      BY <3>1, <3>3 DEF ClientStep
  <2>3. CASE Handle(c, <<>>, <<>>, "loop")
    <3>1. /\ load' = load /\ PerClient' /\ client'[c] = client[c]
          /\ handler'[c] = "loop" /\ down'[c] = down[c] \o <<>>
          /\ up'[c] = SubSeq(up[c], Len(<<>>) + 1, Len(up[c]))
          /\ \A d \in Clients \ {c} : Same(d)
      BY <1>9, <2>1, <2>3, ZenonT(30) DEF PerClient
    <3>2. down'[c] = down[c] /\ up'[c] = up[c]
      BY <1>0, <3>1
    <3>3. Advances(c)
      BY <2>1, <3>1, <3>2 DEF Advances
    <3> QED
      BY <3>1, <3>3 DEF ClientStep
  <2> QED
    BY <2>1, <2>2, <2>3
<1>11. ASSUME NEW c \in Clients, ReadFails(c) PROVE load' = load /\ PerClient' /\ \A d \in Clients : ClientStep(d)
  <2>1. acted' = acted /\ handler[c] \in {"auth", "loop"} /\ Handle(c, <<>>, <<>>, "closed")
    BY <1>11 DEF ReadFails
  <2>2. /\ load' = load /\ PerClient' /\ client'[c] = client[c]
        /\ handler'[c] = "closed" /\ down'[c] = down[c] \o <<>> /\ up'[c] = <<>>
        /\ \A d \in Clients \ {c} : Same(d)
    BY <1>9, <2>1, Zenon DEF PerClient
  <2>3. down'[c] = down[c]
    BY <1>0, <2>2
  <2>4. Closes(c)
    BY <2>1, <2>2, <2>3 DEF Closes
  <2> QED
    BY <2>2, <2>4 DEF ClientStep
<1>12. ASSUME NEW c \in Clients, ReadToken(c) PROVE load' = load /\ PerClient' /\ \A d \in Clients : ClientStep(d)
  <2>1. PICK chunk \in Chunks(c) :
          Handle(c, chunk, Answer(c, chunk), IF FirstLine(chunk) = FirstLine(Token) THEN "acquire" ELSE "closed")
    BY <1>12 DEF ReadToken
  <2>2. acted' = acted /\ handler[c] = "auth"
    BY <1>12 DEF ReadToken
  <2>3. PICK m \in Nat : MayRead(c, m) /\ chunk = SubSeq(up[c], 1, m) /\ Len(chunk) = m
    BY <1>0, ChunkIsFront
  <2> DEFINE next == IF FirstLine(chunk) = FirstLine(Token) THEN "acquire" ELSE "closed"
             answer == Answer(c, chunk)
  <2>4. Handle(c, chunk, answer, next)
    BY <2>1
  <2>5. (next = "acquire" /\ FirstLine(chunk) = FirstLine(Token)) \/ next = "closed"
    OBVIOUS
  <2> HIDE DEF next, answer
  <2>6. /\ load' = load /\ PerClient' /\ client'[c] = client[c]
        /\ handler'[c] = next /\ down'[c] = down[c] \o answer
        /\ up'[c] = IF next = "closed" THEN <<>> ELSE SubSeq(up[c], Len(chunk) + 1, Len(up[c]))
        /\ \A d \in Clients \ {c} : Same(d)
    BY <1>9, <2>2, <2>4 DEF PerClient
  <2>7. \/ FirstLine(chunk) = FirstLine(Token) /\ handler'[c] = "acquire"
              /\ up'[c] = SubSeq(up[c], m + 1, Len(up[c]))
        \/ handler'[c] = "closed" /\ up'[c] = <<>>
    BY <2>3, <2>5, <2>6
  <2>8. ReadsToken(c, m)
    BY <2>2, <2>3, <2>6, <2>7 DEF ReadsToken, answer
  <2> QED
    BY <2>6, <2>8 DEF ClientStep
<1>13. ASSUME NEW c \in Clients, ReadMessage(c) PROVE load' = load /\ PerClient' /\ \A d \in Clients : ClientStep(d)
  <2>1. handler[c] = "loop"
    BY <1>13 DEF ReadMessage
  <2>2. PICK chunk \in Chunks(c) : \E msg \in {DecodeMessage(chunk)} :
          \/ /\ ~(msg.ok /\ msg.type \in Handled)
             /\ Handle(c, chunk, Answer(c, chunk), "loop")
             /\ UNCHANGED acted
          \/ /\ msg.ok /\ msg.type \in Handled
             /\ Handle(c, chunk, Answer(c, chunk), "loop")
             /\ acted' = [acted EXCEPT ![c] = Append(@, <<msg.type, msg.payload>>)]
          \/ /\ msg.ok /\ msg.type = MsgQuery
             /\ Ends("panicked")
             /\ acted' = [acted EXCEPT ![c] = Append(@, <<msg.type, msg.payload>>)]
    BY <1>13 DEF ReadMessage
  <2>3. PICK m \in Nat : MayRead(c, m) /\ chunk = SubSeq(up[c], 1, m) /\ Len(chunk) = m
    BY <1>0, ChunkIsFront
  <2> DEFINE msg == DecodeMessage(chunk)
             answer == Answer(c, chunk)
             acts == /\ msg.ok /\ msg.type \in Handled
                     /\ acted' = [acted EXCEPT ![c] = Append(@, <<msg.type, msg.payload>>)]
  <2>4. \/ Handle(c, chunk, answer, "loop") /\ acted' = acted
        \/ Handle(c, chunk, answer, "loop") /\ acts
        \/ Ends("panicked") /\ acts
    BY <2>2 DEF Handled
  <2>5. /\ acted' = acted \/ acts => acted' = [d \in Clients |-> acted'[d]]
        /\ acted' = acted \/ acts => \A d \in Clients \ {c} : acted'[d] = acted[d]
        /\ acts => acted'[c] = Append(acted[c], <<msg.type, msg.payload>>)
    <3> HIDE DEF msg
    <3> QED
      BY DEF PerClient
  <2>6. acts => msg.ok /\ msg.type \in Handled
    OBVIOUS
  <2> HIDE DEF acts, answer, msg
  <2>7. CASE Handle(c, chunk, answer, "loop") /\ (acted' = acted \/ acts)
    <3>1. /\ load' = load /\ PerClient' /\ client'[c] = client[c]
          /\ handler'[c] = "loop" /\ down'[c] = down[c] \o answer
          /\ up'[c] = SubSeq(up[c], m + 1, Len(up[c]))
          /\ \A d \in Clients \ {c} : Same(d)
      <4>1. /\ acted' = [d \in Clients |-> acted'[d]]
            /\ \A d \in Clients \ {c} : acted'[d] = acted[d]
        BY <2>5, <2>7
      <4>2. Handle(c, chunk, answer, "loop")
        BY <2>7
      <4>3. /\ load' = load /\ client'[c] = client[c]
            /\ client' = [d \in Clients |-> client'[d]] /\ up' = [d \in Clients |-> up'[d]]
            /\ down' = [d \in Clients |-> down'[d]] /\ handler' = [d \in Clients |-> handler'[d]]
            /\ handler'[c] = "loop" /\ down'[c] = down[c] \o answer
            /\ up'[c] = SubSeq(up[c], Len(chunk) + 1, Len(up[c]))
            /\ \A d \in Clients \ {c} : acted'[d] = acted[d] => Same(d)
        BY <1>9, <4>2, ZenonT(30)
      <4> QED
        BY <2>3, <4>1, <4>3 DEF PerClient
    <3>2. acted'[c] = acted[c] \/ (msg.ok /\ msg.type \in Handled /\ acted'[c] = Append(acted[c], <<msg.type, msg.payload>>))
      BY <2>5, <2>6, <2>7
    <3>3. ReadsMessage(c, m)
      BY <2>1, <2>3, <3>1, <3>2 DEF ReadsMessage, answer, msg
    <3> QED
      BY <3>1, <3>3 DEF ClientStep
  <2>8. CASE Ends("panicked") /\ acts
    <3>1. load' = load /\ PerClient'
      BY <2>5, <2>8 DEF Ends, PerClient
    <3>2. \A d \in Clients \ {c} : Closes(d)
      BY <2>5, <2>8, EndsCloses
    <3>3. /\ msg.ok /\ msg.type \in Handled /\ acted'[c] = Append(acted[c], <<msg.type, msg.payload>>)
          /\ handler'[c] = "closed" /\ up'[c] = <<>> /\ down'[c] = down[c] /\ client'[c] = client[c]
      BY <2>1, <2>5, <2>6, <2>8 DEF Ends
    <3>4. ReadsMessage(c, m)
      BY <2>1, <2>3, <3>3 DEF ReadsMessage, msg
    <3> QED
      BY <3>1, <3>2, <3>4 DEF ClientStep
  <2> QED
    BY <2>4, <2>7, <2>8
<1> QED
  BY <1>1, <1>2, <1>3, <1>4, <1>5, <1>6, <1>7, <1>8, <1>10, <1>11, <1>12, <1>13, Zenon DEF Next, Serve

(***************************************************************************)
(* Every step keeps the types                                              *)
(***************************************************************************)

\* What one Read returns and what it leaves.
LEMMA ReadFront ==
    ASSUME NEW c \in Clients, up[c] \in Seq(Bytes), NEW m \in Nat, MayRead(c, m)
    PROVE  LET chunk == SubSeq(up[c], 1, m)
               rest  == SubSeq(up[c], m + 1, Len(up[c]))
           IN /\ m \in 1 .. Len(up[c]) /\ m <= BufSize /\ Len(up[c]) \in Nat
              /\ chunk \in Seq(Bytes) /\ Len(chunk) = m /\ \A k \in 1 .. m : chunk[k] = up[c][k]
              /\ rest \in Seq(Bytes) /\ Len(rest) = Len(up[c]) - m
              /\ \A k \in 1 .. Len(up[c]) - m : rest[k] = up[c][m + k]
<1> DEFINE u == up[c]
           chunk == SubSeq(u, 1, m)
           rest == SubSeq(u, m + 1, Len(u))
<1>1. u \in Seq(Bytes) /\ m \in 1 .. Len(u) /\ m <= BufSize /\ Len(u) \in Nat
  BY DEF MayRead
<1> HIDE DEF u
<1>2. chunk \in Seq(Bytes) /\ Len(chunk) = m /\ \A k \in 1 .. m : chunk[k] = u[k]
  BY <1>1
<1>3. rest \in Seq(Bytes) /\ Len(rest) = Len(u) - m
  BY <1>1
<1>4. \A k \in 1 .. Len(u) - m : rest[k] = u[m + k]
  BY <1>1
<1> QED
  BY <1>1, <1>2, <1>3, <1>4 DEF u

\* A digit to the base 256 is a byte.
LEMMA ByteIs ==
    \A x : x \in Bytes <=> x \in Nat /\ x < 256
  BY DEF Bytes

\* A length below 64 KB has two zeroes in front.
LEMMA HighBytes ==
    ASSUME NEW a \in Nat, NEW b \in Nat, NEW c \in Nat, NEW d \in Nat,
           256 * (256 * (256 * a + b) + c) + d < 256 * 256
    PROVE  a = 0 /\ b = 0
  OBVIOUS

\* The bytes of the length, and those of the payload.
LEMMA LengthBytes ==
    ASSUME NEW data \in Seq(Bytes), Len(data) >= 5
    PROVE  LET len == SubSeq(data, 2, 5)
           IN len[1] = data[2] /\ len[2] = data[3] /\ len[3] = data[4] /\ len[4] = data[5]
  OBVIOUS

\* The payload, where it is in the buffer.
LEMMA PayloadBytes ==
    ASSUME NEW data \in Seq(Bytes), NEW m \in Nat, m >= 5, m <= Len(data)
    PROVE  LET payload == SubSeq(data, 6, m)
           IN /\ payload \in Seq(Bytes) /\ Len(payload) = m - 5
              /\ \A k \in 1 .. m - 5 : payload[k] = data[5 + k]
  OBVIOUS

\* The first bytes of what is taken for a message from one buffer: with less than
\* 64 KB the two higher bytes of the length are 0.
LEMMA DecodedHeader ==
    ASSUME NEW data \in Seq(Bytes), Len(data) <= BufSize, DecodeMessage(data).ok
    PROVE  /\ Len(data) >= 5
           /\ data[2] = 0 /\ data[3] = 0
           /\ Len(data) >= 5 + Uint32(SubSeq(data, 2, 5))
           /\ DecodeMessage(data) = Message(data[1], SubSeq(data, 6, 5 + Uint32(SubSeq(data, 2, 5))))
<1> DEFINE len == SubSeq(data, 2, 5)
<1>1. DecodeMessage(data) # Invalid
  BY DEF Invalid
<1>2. /\ ~(Len(data) < 5) /\ ~(Len(data) < 5 + Uint32(len))
      /\ DecodeMessage(data) = Message(data[1], SubSeq(data, 6, 5 + Uint32(len)))
  BY <1>1 DEF DecodeMessage
<1>3. Len(data) \in Nat /\ Len(data) >= 5
  BY <1>2
<1>4. len[1] = data[2] /\ len[2] = data[3] /\ len[3] = data[4] /\ len[4] = data[5]
  BY <1>3
<1>5. data[2] \in Nat /\ data[3] \in Nat /\ data[4] \in Nat /\ data[5] \in Nat
  BY <1>3, ByteIs
<1> HIDE DEF len
<1>6. Uint32(len) = 256 * (256 * (256 * data[2] + data[3]) + data[4]) + data[5]
  BY <1>4 DEF Uint32
<1> DEFINE a == data[2]  b == data[3]  c == data[4]  d == data[5]
<1>7. a \in Nat /\ b \in Nat /\ c \in Nat /\ d \in Nat
  BY <1>5
<1>8. Uint32(len) = 256 * (256 * (256 * a + b) + c) + d
  BY <1>6
<1> HIDE DEF a, b, c, d
<1>9. 256 * (256 * (256 * a + b) + c) + d < 256 * 256
  BY <1>2, <1>3, <1>7, <1>8, BufSizeAssumption
<1>10. a = 0 /\ b = 0
  BY <1>7, <1>9, HighBytes
<1>11. Len(data) >= 5 + Uint32(len)
  BY <1>2, <1>3, <1>7, <1>8
<1> QED
  BY <1>2, <1>3, <1>10, <1>11 DEF len, a, b

\* The type and the payload of a decoded message.
LEMMA DecodedParts ==
    ASSUME NEW data \in Seq(Bytes), Len(data) <= BufSize, DecodeMessage(data).ok
    PROVE  LET msg == DecodeMessage(data)
           IN /\ msg.type = data[1] /\ msg.type \in Bytes /\ msg.payload \in Seq(Bytes)
              /\ msg = Message(msg.type, msg.payload)
<1> DEFINE n == Uint32(SubSeq(data, 2, 5))
           msg == DecodeMessage(data)
           payload == SubSeq(data, 6, 5 + n)
<1>1. Len(data) >= 5 /\ Len(data) >= 5 + n /\ msg = Message(data[1], payload)
  BY DecodedHeader
<1>2. n \in Nat
  <2> DEFINE x == SubSeq(data, 2, 5)
  <2>1. x[1] = data[2] /\ x[2] = data[3] /\ x[3] = data[4] /\ x[4] = data[5]
    BY <1>1, LengthBytes
  <2>2. data[2] \in Nat /\ data[3] \in Nat /\ data[4] \in Nat /\ data[5] \in Nat
    BY <1>1, ByteIs
  <2> DEFINE a == x[1]  b == x[2]  c == x[3]  d == x[4]
  <2>4. a \in Nat /\ b \in Nat /\ c \in Nat /\ d \in Nat
    BY <2>1, <2>2
  <2>5. Uint32(x) = 256 * (256 * (256 * a + b) + c) + d
    BY DEF Uint32
  <2> HIDE DEF x, a, b, c, d
  <2>3. Uint32(x) \in Nat
    BY <2>4, <2>5
  <2> QED
    BY <2>3 DEF x
<1> HIDE DEF n
<1>3. payload \in Seq(Bytes) /\ data[1] \in Bytes
  <2> DEFINE k == 5 + n
  <2>1. k \in Nat /\ k >= 5 /\ k <= Len(data)
    BY <1>1, <1>2
  <2> HIDE DEF k
  <2>2. SubSeq(data, 6, k) \in Seq(Bytes)
    BY <2>1, PayloadBytes
  <2>3. data[1] \in Bytes
    BY <1>1
  <2> QED
    BY <2>2, <2>3 DEF k
<1> HIDE DEF msg, payload
<1>4. msg.type = data[1] /\ msg.payload = payload
  BY <1>1 DEF Message
<1> QED
  BY <1>1, <1>3, <1>4 DEF msg

\* What handleMessage is called with.
LEMMA HandledParts ==
    ASSUME NEW c \in Clients, up[c] \in Seq(Bytes), NEW m \in Nat, MayRead(c, m),
           DecodeMessage(SubSeq(up[c], 1, m)).ok
    PROVE  LET msg == DecodeMessage(SubSeq(up[c], 1, m))
           IN /\ msg.type = SubSeq(up[c], 1, m)[1] /\ <<msg.type, msg.payload>> \in Bytes \X Seq(Bytes)
              /\ msg = Message(msg.type, msg.payload)
<1> DEFINE data == SubSeq(up[c], 1, m)
<1>1. data \in Seq(Bytes) /\ Len(data) <= BufSize /\ DecodeMessage(data).ok
  BY ReadFront
<1> HIDE DEF data
<1>2. LET msg == DecodeMessage(data)
      IN /\ msg.type = data[1] /\ msg.type \in Bytes /\ msg.payload \in Seq(Bytes)
         /\ msg = Message(msg.type, msg.payload)
  BY <1>1, DecodedParts
<1> QED
  BY <1>2, ZenonT(30) DEF data

\* Every step of a client keeps its types.
LEMMA TypeStep ==
    ASSUME NEW c \in Clients, ClientType(c), ClientStep(c)
    PROVE  ClientType(c)'
<1> DEFINE r == client[c]
<1>1. /\ r \in ClientRecord /\ r.got <= r.sent /\ r.sent <= Len(r.script)
      /\ up[c] \in Seq(Bytes) /\ down[c] \in Seq(Int) /\ handler[c] \in Handlers
      /\ acted[c] \in Seq(Bytes \X Seq(Bytes))
  BY DEF ClientType
<1>2. /\ r.sent \in Nat /\ r.got \in Nat /\ r.wrote \in Seq(Bytes) /\ r.script \in Script
      /\ r.script \in Seq(Seq(Bytes)) /\ Len(r.script) \in Nat
  BY <1>1 DEF ClientRecord, Script
<1>3. ASSUME client'[c] = client[c], up'[c] \in Seq(Bytes), down'[c] \in Seq(Int),
             handler'[c] \in Handlers, acted'[c] \in Seq(Bytes \X Seq(Bytes))
      PROVE  ClientType(c)'
  BY <1>1, <1>3 DEF ClientType
<1> HIDE DEF r
<1>4. CASE Same(c)
  BY <1>1, <1>3, <1>4 DEF Same
<1>5. CASE Connects(c)
  <2>1. client'[c] = [r EXCEPT !.phase = "open"] /\ handler'[c] = "queued" /\ up'[c] = up[c]
        /\ down'[c] = down[c] /\ acted'[c] = acted[c]
    BY <1>5 DEF Connects, r
  <2>2. client'[c] \in ClientRecord /\ client'[c].got = r.got /\ client'[c].sent = r.sent /\ client'[c].script = r.script
    BY <1>1, <2>1, Zenon DEF ClientRecord
  <2> QED
    BY <1>1, <2>1, <2>2 DEF ClientType, Handlers
<1>6. CASE Sends(c)
  <2> DEFINE message == r.script[r.sent + 1]
  <2>1. /\ client'[c] = [r EXCEPT !.sent = @ + 1, !.wrote = @ \o message]
        /\ up'[c] = up[c] \o message /\ r.sent < Len(r.script)
        /\ down'[c] = down[c] /\ handler'[c] = handler[c] /\ acted'[c] = acted[c]
    BY <1>6 DEF Sends, r
  <2>2. message \in Seq(Bytes)
    BY <1>2, <2>1
  <2> HIDE DEF message
  <2>3. up'[c] \in Seq(Bytes) /\ r.wrote \o message \in Seq(Bytes)
    BY <1>1, <1>2, <2>1, <2>2, Concat
  <2>4. client'[c] \in ClientRecord /\ client'[c].got = r.got /\ client'[c].sent = r.sent + 1 /\ client'[c].script = r.script
    <3> DEFINE sent == r.sent + 1
               wrote == r.wrote \o message
    <3>1. sent \in Nat /\ wrote \in Seq(Bytes)
      BY <1>2, <2>3
    <3>2. client'[c] = [r EXCEPT !.sent = sent, !.wrote = wrote]
      BY <2>1
    <3> HIDE DEF sent, wrote
    <3>3. client'[c] \in ClientRecord /\ client'[c].got = r.got /\ client'[c].sent = sent /\ client'[c].script = r.script
      BY <1>1, <3>1, <3>2, Zenon DEF ClientRecord
    <3> QED
      BY <3>3 DEF sent
  <2>5. r.got <= r.sent + 1 /\ r.sent + 1 <= Len(r.script)
    BY <1>1, <1>2, <2>1, SMTT(20)
  <2> QED
    BY <1>1, <2>1, <2>3, <2>4, <2>5, SMTT(20) DEF ClientType
<1>7. CASE Takes(c)
  <2>1. /\ client'[c] = [r EXCEPT !.got = @ + 1] /\ r.got < r.sent /\ down[c] # <<>>
        /\ down'[c] = Tail(down[c])
        /\ up'[c] = up[c] /\ handler'[c] = handler[c] /\ acted'[c] = acted[c]
    BY <1>7 DEF Takes, r
  <2>2. client'[c] \in ClientRecord /\ client'[c].got = r.got + 1 /\ client'[c].sent = r.sent /\ client'[c].script = r.script
    <3> DEFINE got == r.got + 1
    <3>1. got \in Nat
      BY <1>2
    <3>2. client'[c] = [r EXCEPT !.got = got]
      BY <2>1
    <3> HIDE DEF got
    <3>3. client'[c] \in ClientRecord /\ client'[c].got = got /\ client'[c].sent = r.sent /\ client'[c].script = r.script
      BY <1>1, <3>1, <3>2, Zenon DEF ClientRecord
    <3> QED
      BY <3>3 DEF got
  <2>3. r.got + 1 <= r.sent /\ down'[c] \in Seq(Int)
    BY <1>1, <1>2, <2>1
  <2> QED
    BY <1>1, <2>1, <2>2, <2>3 DEF ClientType
<1>8. CASE Leaves(c)
  <2>1. /\ client'[c] = [r EXCEPT !.phase = "gone"] /\ down'[c] = <<>>
        /\ up'[c] = up[c] /\ handler'[c] = handler[c] /\ acted'[c] = acted[c]
    BY <1>8 DEF Leaves, r
  <2>2. client'[c] \in ClientRecord /\ client'[c].got = r.got /\ client'[c].sent = r.sent /\ client'[c].script = r.script
    BY <1>1, <2>1, Zenon DEF ClientRecord
  <2>3. down'[c] \in Seq(Int)
    BY <2>1
  <2> QED
    BY <1>1, <2>1, <2>2, <2>3 DEF ClientType
<1>9. CASE Advances(c)
  BY <1>1, <1>3, <1>9 DEF Advances, Handlers
<1>10. CASE Closes(c)
  <2>1. up'[c] \in Seq(Bytes) /\ handler'[c] \in Handlers
    BY <1>10 DEF Closes, Handlers
  <2>2. down[c] \in Seq(Int) /\ Append(down[c], Refused) \in Seq(Int)
    BY <1>1, AppendParts DEF Refused
  <2>3. down'[c] \in Seq(Int)
    BY <1>10, <2>2, Zenon DEF Closes
  <2> QED
    BY <1>1, <1>3, <1>10, <2>1, <2>3 DEF Closes
<1>11. ASSUME NEW m \in Nat, MayRead(c, m)
       PROVE  /\ SubSeq(up[c], m + 1, Len(up[c])) \in Seq(Bytes) /\ <<>> \in Seq(Bytes)
              /\ down[c] \o Answer(c, SubSeq(up[c], 1, m)) \in Seq(Int)
  <2> DEFINE chunk == SubSeq(up[c], 1, m)
  <2>1. SubSeq(up[c], m + 1, Len(up[c])) \in Seq(Bytes)
    BY <1>1, <1>11, ReadFront
  <2>2. Answer(c, chunk) \in Seq(Int)
    <3> HIDE DEF chunk
    <3> QED
      BY <1>2 DEF Answer, Piece, r
  <2> HIDE DEF chunk
  <2>3. down[c] \o Answer(c, chunk) \in Seq(Int)
    BY <1>1, <2>2
  <2> QED
    BY <2>1, <2>3 DEF chunk
<1>12. ASSUME NEW m \in Nat, ReadsToken(c, m) PROVE ClientType(c)'
  <2>1. MayRead(c, m)
    BY <1>12 DEF ReadsToken
  <2> QED
    BY <1>1, <1>3, <1>11, <1>12, <2>1, Zenon DEF ReadsToken, Handlers
<1>13. ASSUME NEW m \in Nat, ReadsMessage(c, m) PROVE ClientType(c)'
  <2>1. MayRead(c, m)
    BY <1>13 DEF ReadsMessage
  <2> DEFINE msg == DecodeMessage(SubSeq(up[c], 1, m))
             entry == <<msg.type, msg.payload>>
  <2>2. msg.ok => entry \in Bytes \X Seq(Bytes)
    BY <1>1, <2>1, HandledParts
  <2>3. acted'[c] = acted[c] \/ (msg.ok /\ acted'[c] = Append(acted[c], entry))
    BY <1>13 DEF ReadsMessage
  <2> DEFINE Entries == Bytes \X Seq(Bytes)
             ok == msg.ok
  <2>4. acted'[c] \in Seq(Entries)
    <3>1. acted[c] \in Seq(Entries) /\ (ok => entry \in Entries)
      BY <1>1, <2>2
    <3>2. acted'[c] = acted[c] \/ (ok /\ acted'[c] = Append(acted[c], entry))
      BY <2>3
    <3> HIDE DEF entry, Entries, ok
    <3>3. ok => Append(acted[c], entry) \in Seq(Entries)
      BY <3>1, AppendParts
    <3> QED
      BY <3>1, <3>2, <3>3, Zenon
  <2> HIDE DEF msg
  <2>5. up'[c] \in Seq(Bytes) /\ down'[c] \in Seq(Int) /\ handler'[c] \in Handlers /\ client'[c] = client[c]
    BY <1>1, <1>11, <1>13, <2>1, Zenon DEF ReadsMessage, Handlers
  <2> QED
    BY <1>3, <2>4, <2>5
<1> QED
  BY <1>4, <1>5, <1>6, <1>7, <1>8, <1>9, <1>10, <1>12, <1>13, Zenon DEF ClientStep

\* Unless the client sends, its stream is as it was and the handler reads on or stays.
StreamKept(c) ==
    /\ client'[c].wrote = client[c].wrote /\ client'[c].script = client[c].script
    /\ client'[c].sent = client[c].sent
    /\ \/ up'[c] = up[c] \/ up'[c] = <<>>
       \/ \E m \in Nat : MayRead(c, m) /\ up'[c] = SubSeq(up[c], m + 1, Len(up[c]))

\* The cases the stream and the messages handled tell apart.
LEMMA StreamCases ==
    ASSUME NEW c \in Clients, ClientType(c), ClientStep(c)
    PROVE  \/ Sends(c)
           \/ StreamKept(c) /\ acted'[c] = acted[c]
           \/ StreamKept(c) /\ \E m \in Nat : ReadsMessage(c, m)
<1>0. client[c] \in ClientRecord
  BY DEF ClientType
<1>1. ASSUME client'[c] = client[c], up'[c] = up[c] \/ up'[c] = <<>> PROVE StreamKept(c)
  BY <1>1 DEF StreamKept
<1>2. CASE Same(c)
  BY <1>1, <1>2 DEF Same
<1>3. CASE Connects(c)
  BY <1>0, <1>3 DEF Connects, StreamKept, ClientRecord
<1>4. CASE Takes(c)
  BY <1>0, <1>4 DEF Takes, StreamKept, ClientRecord
<1>5. CASE Leaves(c)
  BY <1>0, <1>5 DEF Leaves, StreamKept, ClientRecord
<1>6. CASE Advances(c)
  BY <1>1, <1>6 DEF Advances
<1>7. CASE Closes(c)
  BY <1>1, <1>7 DEF Closes
<1>8. ASSUME NEW m \in Nat, ReadsToken(c, m) PROVE StreamKept(c) /\ acted'[c] = acted[c]
  BY <1>8 DEF ReadsToken, StreamKept
<1>9. ASSUME NEW m \in Nat, ReadsMessage(c, m) PROVE StreamKept(c)
  BY <1>9, Zenon DEF ReadsMessage, StreamKept
<1> QED
  BY <1>2, <1>3, <1>4, <1>5, <1>6, <1>7, <1>8, <1>9, Zenon DEF ClientStep, Same, Connects, Takes, Leaves, Advances, Closes

\* A client never changes its script.
LEMMA ScriptStays ==
    ASSUME NEW c \in Clients, ClientType(c), ClientStep(c)
    PROVE  client'[c].script = client[c].script
<1>1. CASE Sends(c)
  BY <1>1 DEF Sends, ClientType, ClientRecord
<1>2. StreamKept(c) => client'[c].script = client[c].script
  BY Zenon DEF StreamKept
<1> QED
  BY <1>1, <1>2, StreamCases, Zenon

(***************************************************************************)
(* The first line                                                          *)
(***************************************************************************)

\* A set of indices that is not empty has a least one.
LEMMA LeastIndex ==
    ASSUME NEW S \in SUBSET Nat, S # {}
    PROVE  Min(S) \in S /\ \A v \in S : Min(S) <= v
<1>1. PICK m \in S : \A v \in S : <<v, m>> \notin OpToRel(<, Nat)
  BY NatLessThanWellFounded, WFMin, Zenon
<1>2. \A v \in S : ~(v < m)
  BY <1>1, Zenon DEF OpToRel
<1>3. \A v \in S : m <= v
  BY <1>2
<1> QED
  BY <1>3, Zenon DEF Min

\* Once the first line has come to its end, nothing that follows changes it.
LEMMA FirstLineStays ==
    ASSUME NEW a \in Seq(Bytes), NEW w \in Seq(Bytes), Len(a) <= Len(w),
           \A i \in 1 .. Len(a) : a[i] = w[i], FirstLine(a) # <<>>
    PROVE  FirstLine(w) = FirstLine(a)
<1> DEFINE ends(x) == {i \in DOMAIN x : x[i] \in {10, 13}}
           A == ends(a)
           W == ends(w)
<1>1. /\ Len(a) \in Nat /\ Len(w) \in Nat /\ A \subseteq 1 .. Len(a) /\ W \subseteq 1 .. Len(w)
      /\ A \subseteq W /\ \A i \in W : i <= Len(a) => i \in A
  OBVIOUS
<1>2. /\ FirstLine(a) = IF A = {} THEN <<>> ELSE SubSeq(a, 1, Min(A) - 1)
      /\ FirstLine(w) = IF W = {} THEN <<>> ELSE SubSeq(w, 1, Min(W) - 1)
  BY DEF FirstLine
<1> HIDE DEF A, W
<1>3. A # {} /\ W # {} /\ A \in SUBSET Nat /\ W \in SUBSET Nat
  BY <1>1, <1>2
<1> DEFINE m == Min(A)
           k == Min(W)
<1>4. m \in A /\ (\A v \in A : m <= v) /\ k \in W /\ \A v \in W : k <= v
  BY <1>3, LeastIndex
<1> HIDE DEF m, k
<1>5. m \in 1 .. Len(a) /\ k \in 1 .. Len(w) /\ k <= m
  BY <1>1, <1>4
<1>6. k \in A
  BY <1>1, <1>4, <1>5
<1>7. k = m
  BY <1>4, <1>5, <1>6
<1>8. SubSeq(a, 1, m - 1) = SubSeq(w, 1, m - 1)
  <2> DEFINE n == m - 1
             x == SubSeq(a, 1, n)
             y == SubSeq(w, 1, n)
  <2>1. n \in Nat /\ n <= Len(a) /\ n <= Len(w)
    BY <1>1, <1>5
  <2> HIDE DEF n
  <2>2. x \in Seq(Bytes) /\ Len(x) = n /\ \A i \in 1 .. n : x[i] = a[i]
    BY <2>1
  <2>3. y \in Seq(Bytes) /\ Len(y) = n /\ \A i \in 1 .. n : y[i] = w[i]
    BY <2>1
  <2>4. \A i \in 1 .. n : x[i] = y[i]
    BY <1>1, <2>1, <2>2, <2>3
  <2> HIDE DEF x, y
  <2>5. x = y
    BY <2>2, <2>3, <2>4, SameElements
  <2> QED
    BY <2>5, Zenon DEF x, y, n
<1> QED
  BY <1>2, <1>3, <1>7, <1>8, Zenon DEF m, k

\* Every step keeps the token in front of all that is handled.
LEMMA TokenStep ==
    ASSUME NEW c \in Clients, ClientType(c), ClientStep(c), load' = load, Unread(c), TokenSeen(c)
    PROVE  Unread(c)' /\ TokenSeen(c)'
<1> DEFINE r == client[c]
           w == client[c].wrote
<1>1. r \in ClientRecord /\ w \in Seq(Bytes) /\ up[c] \in Seq(Bytes)
  BY DEF ClientType, ClientRecord
<1>2. now' = now
  BY DEF now, AllLoads
<1>3. ASSUME client'[c].phase = r.phase, client'[c].wrote = w, up'[c] = up[c],
             acted'[c] = acted[c], handler'[c] = handler[c]
      PROVE  Unread(c)' /\ TokenSeen(c)'
  BY <1>2, <1>3 DEF Unread, TokenSeen
<1>4. CASE Same(c)
  BY <1>3, <1>4, Zenon DEF Same
<1>5. CASE Connects(c)
  <2>1. /\ client'[c].phase = "open" /\ client'[c].wrote = w /\ handler'[c] = "queued"
        /\ up'[c] = up[c] /\ acted'[c] = acted[c] /\ r.phase = "away"
    BY <1>1, <1>5 DEF Connects, ClientRecord
  <2>2. handler[c] = "none" /\ up[c] = w /\ acted[c] = <<>>
    BY <2>1 DEF Unread
  <2> QED
    BY <2>1, <2>2 DEF Unread, TokenSeen
<1>6. CASE Sends(c)
  <2> DEFINE e == r.script[r.sent + 1]
  <2>1. /\ client'[c].phase = r.phase /\ client'[c].wrote = w \o e /\ up'[c] = up[c] \o e
        /\ handler'[c] = handler[c] /\ acted'[c] = acted[c] /\ r.phase = "open"
        /\ r.sent < Len(r.script)
    BY <1>1, <1>6, Zenon DEF Sends, ClientRecord, Open
  <2>2. e \in Seq(Bytes)
    <3>1. r.script \in Script /\ r.sent \in Nat /\ Len(r.script) \in Nat
      BY <1>1 DEF ClientRecord, Script
    <3> HIDE DEF r
    <3>2. r.sent + 1 \in 1 .. Len(r.script)
      BY <2>1, <3>1
    <3> QED
      BY <3>1, <3>2, ScriptElement
  <2> HIDE DEF e
  <2>3. Unread(c)'
    BY <2>1, Zenon DEF Unread
  <2>4. FirstLine(w) = FirstLine(Token) => FirstLine(w \o e) = FirstLine(Token)
    <3>1. /\ w \o e \in Seq(Bytes) /\ Len(w) <= Len(w \o e)
          /\ \A i \in 1 .. Len(w) : w[i] = (w \o e)[i]
      <4> HIDE DEF w
      <4>1. Len(w) \in Nat /\ Len(e) \in Nat
        BY <1>1, <2>2
      <4> QED
        BY <1>1, <2>2, <4>1, Concat
    <3> HIDE DEF w
    <3> QED
      BY <1>1, <3>1, FirstLineStays, TokenAssumption, Zenon
  <2>5. TokenSeen(c)'
    BY <1>2, <2>1, <2>4 DEF TokenSeen
  <2> QED
    BY <2>3, <2>5
<1>7. CASE Takes(c)
  BY <1>1, <1>3, <1>7 DEF Takes, ClientRecord
<1>8. CASE Leaves(c)
  <2>1. /\ client'[c].phase = "gone" /\ client'[c].wrote = w /\ handler'[c] = handler[c]
        /\ up'[c] = up[c] /\ acted'[c] = acted[c] /\ r.phase = "open"
    BY <1>1, <1>8 DEF Leaves, ClientRecord, Open
  <2> QED
    BY <1>2, <2>1 DEF Unread, TokenSeen
<1>9. CASE Advances(c)
  BY <1>2, <1>9 DEF Advances, Unread, TokenSeen
<1>10. CASE Closes(c)
  BY <1>2, <1>10, SMTT(20) DEF Closes, Unread, TokenSeen
<1>11. ASSUME NEW m \in Nat, ReadsToken(c, m) PROVE Unread(c)' /\ TokenSeen(c)'
  <2> DEFINE chunk == SubSeq(up[c], 1, m)
  <2>1. /\ handler[c] = "auth" /\ MayRead(c, m) /\ client'[c] = client[c] /\ acted'[c] = acted[c]
        /\ (handler'[c] = "acquire" /\ FirstLine(chunk) = FirstLine(Token)) \/ handler'[c] = "closed"
    BY <1>11 DEF ReadsToken
  <2>2. up[c] = w /\ acted[c] = <<>> /\ r.phase # "away"
    BY <2>1 DEF Unread
  <2>3. FirstLine(chunk) = FirstLine(Token) => FirstLine(w) = FirstLine(Token)
    <3>1. /\ chunk \in Seq(Bytes) /\ Len(chunk) = m /\ m <= Len(up[c])
          /\ \A i \in 1 .. m : chunk[i] = up[c][i]
      BY <1>1, <2>1, ReadFront
    <3> HIDE DEF chunk, w
    <3> QED
      BY <1>1, <2>2, <3>1, FirstLineStays, TokenAssumption
  <2> HIDE DEF chunk
  <2> QED
    BY <1>2, <2>1, <2>2, <2>3, SMTT(20) DEF Unread, TokenSeen
<1>12. ASSUME NEW m \in Nat, ReadsMessage(c, m) PROVE Unread(c)' /\ TokenSeen(c)'
  <2>1. handler[c] = "loop" /\ client'[c] = client[c] /\ handler'[c] \in {"loop", "closed"}
    BY <1>12, MessageReader, Zenon
  <2> QED
    BY <1>2, <2>1 DEF Unread, TokenSeen
<1> QED
  BY <1>4, <1>5, <1>6, <1>7, <1>8, <1>9, <1>10, <1>11, <1>12, Zenon DEF ClientStep

(***************************************************************************)
(* One message at a time                                                   *)
(***************************************************************************)

\* A Read takes the one message that is under way, and answers it.
LEMMA ReadsWhole ==
    ASSUME NEW c \in Clients, ClientType(c), OneByOneOf(c), Lockstep(c), handler[c] # "closed",
           NEW m \in Nat, MayRead(c, m)
    PROVE  /\ down[c] = <<>> /\ client[c].sent = client[c].got + 1
           /\ Answer(c, SubSeq(up[c], 1, m)) = <<client[c].sent>>
           /\ SubSeq(up[c], m + 1, Len(up[c])) = <<>>
<1> DEFINE u == up[c]
           n == client[c].sent
           s == client[c].script
<1>1. u \in Seq(Bytes) /\ n \in Nat /\ client[c].got \in Nat /\ n <= Len(s) /\ s \in Script
  BY DEF ClientType, ClientRecord
<1>2. m \in 1 .. Len(u) /\ Len(u) \in Nat
  BY <1>1, ReadFront
<1>3. u # <<>>
  BY <1>2
<1>4. n = client[c].got + 1 /\ u = s[n] /\ down[c] = <<>>
  BY <1>3 DEF Lockstep, LockstepIn
<1>5. n > 0 /\ n \in DOMAIN s
  <2>1. DOMAIN s = 1 .. Len(s) /\ Len(s) \in Nat
    BY <1>1 DEF Script
  <2> HIDE DEF n, s
  <2> QED
    BY <1>1, <1>4, <2>1
<1>6. Len(u) <= BufSize /\ ~now.cuts
  BY <1>4, <1>5 DEF OneByOneOf
<1>7. m = Len(u)
  BY <1>6 DEF MayRead
<1> DEFINE chunk == SubSeq(u, 1, m)
           rest == SubSeq(u, m + 1, Len(u))
<1>8. /\ chunk \in Seq(Bytes) /\ Len(chunk) = m /\ \A k \in 1 .. m : chunk[k] = u[k]
      /\ rest \in Seq(Bytes) /\ Len(rest) = Len(u) - m
  BY <1>1, ReadFront
<1> HIDE DEF u, chunk, rest
<1>9. chunk = u
  BY <1>1, <1>7, <1>8, SameElements
<1>10. rest = <<>>
  BY <1>2, <1>7, <1>8, EmptyConcat
<1>11. Answer(c, chunk) = <<n>>
  BY <1>4, <1>5, <1>9 DEF Answer
<1> QED
  BY <1>4, <1>10, <1>11, SMTT(20) DEF chunk, rest, u

\* Every step keeps one message or one answer under way.
LEMMA LockstepStep ==
    ASSUME NEW c \in Clients, ClientType(c), ClientStep(c), Unread(c), OneByOneOf(c), Lockstep(c)
    PROVE  Lockstep(c)'
<1>1. PICK n, g, h, u, s, d : /\ n = client[c].sent /\ g = client[c].got /\ h = handler[c]
                              /\ u = up[c] /\ s = client[c].script /\ d = down[c]
  OBVIOUS
<1>2. LockstepIn(n, g, h, u, s, d)
  BY <1>1, Zenon DEF Lockstep
<1>3. client[c] \in ClientRecord /\ g <= n /\ n <= Len(s) /\ d \in Seq(Int)
  BY <1>1, Zenon DEF ClientType
<1>4. n \in Nat /\ g \in Nat /\ s \in Script
  BY <1>1, <1>3, Zenon DEF ClientRecord
<1>5. ASSUME client'[c].sent = n, client'[c].got = g, client'[c].script = s, down'[c] = d,
             handler'[c] # "closed" => h # "closed" /\ (up'[c] = u \/ up'[c] = <<>>)
      PROVE  Lockstep(c)'
  BY <1>2, <1>5, LockstepQuiet, Zenon DEF Lockstep
<1>6. CASE Same(c)
  BY <1>1, <1>5, <1>6, Zenon DEF Same
<1>7. CASE Connects(c)
  <2>1. /\ client'[c].sent = n /\ client'[c].got = g /\ client'[c].script = s
        /\ down'[c] = d /\ up'[c] = u /\ client[c].phase = "away"
    BY <1>1, <1>3, <1>7, Zenon DEF Connects, ClientRecord
  <2>2. h # "closed"
    BY <1>1, <2>1 DEF Unread
  <2> QED
    BY <1>5, <2>1, <2>2, Zenon
<1>8. CASE Sends(c)
  <2>1. /\ client'[c].sent = n + 1 /\ client'[c].got = g /\ client'[c].script = s
        /\ down'[c] = d /\ up'[c] = u \o s[n + 1] /\ handler'[c] = h /\ h # "closed"
        /\ n - g < now.window /\ n < Len(s)
    BY <1>1, <1>3, <1>8, Zenon DEF Sends, ClientRecord
  <2>2. n = g
    BY <1>3, <1>4, <2>1, NoneOutstanding, Zenon DEF OneByOneOf
  <2>3. n + 1 \in 1 .. Len(s)
    BY <1>4, <2>1 DEF Script
  <2>4. s[n + 1] \in Seq(Bytes)
    BY <1>4, <2>3, ScriptElement, Zenon
  <2>5. LockstepIn(n + 1, g, h, u \o s[n + 1], s, d)
    BY <1>2, <1>4, <2>1, <2>2, <2>4, LockstepSent, Zenon
  <2> QED
    BY <2>1, <2>5, Zenon DEF Lockstep
<1>9. CASE Takes(c)
  <2>1. /\ client'[c].sent = n /\ client'[c].got = g + 1 /\ client'[c].script = s /\ d # <<>>
        /\ down'[c] = Tail(d) /\ up'[c] = u /\ handler'[c] = h
    BY <1>1, <1>3, <1>9, Zenon DEF Takes, ClientRecord
  <2>2. LockstepIn(n, g + 1, h, u, s, Tail(d))
    BY <1>2, <1>3, <1>4, <2>1, LockstepTaken, Zenon
  <2> QED
    BY <2>1, <2>2, Zenon DEF Lockstep
<1>10. CASE Leaves(c)
  <2>1. /\ client'[c].sent = n /\ client'[c].got = g /\ client'[c].script = s
        /\ down'[c] = <<>> /\ up'[c] = u /\ handler'[c] = h
    BY <1>1, <1>3, <1>10, Zenon DEF Leaves, ClientRecord
  <2>2. LockstepIn(n, g, h, u, s, <<>>)
    BY <1>2, LockstepLeft, Zenon
  <2> QED
    BY <2>1, <2>2, Zenon DEF Lockstep
<1>11. CASE Advances(c)
  BY <1>1, <1>5, <1>11, Zenon DEF Advances
<1>12. CASE Closes(c)
  <2>1. client'[c] = client[c] /\ up'[c] = <<>> /\ (handler'[c] # "closed" => h # "closed")
    BY <1>1, <1>12 DEF Closes
  <2>2. CASE down'[c] = d
    BY <1>1, <1>5, <2>1, <2>2, Zenon
  <2>3. CASE handler'[c] = "closed" /\ down'[c] = Append(d, Refused)
    <3>1. LockstepIn(n, g, "closed", <<>>, s, Append(d, Refused))
      BY <1>2, <1>3, <1>4, LockstepRefused, Zenon
    <3> QED
      BY <1>1, <2>1, <2>3, <3>1, Zenon DEF Lockstep
  <2> QED
    BY <1>1, <1>12, <2>2, <2>3, Zenon DEF Closes
<1>13. ASSUME NEW m \in Nat, MayRead(c, m), h # "closed", client'[c] = client[c],
              up'[c] = <<>> \/ up'[c] = SubSeq(u, m + 1, Len(u)),
              down'[c] = d \o Answer(c, SubSeq(u, 1, m))
       PROVE  Lockstep(c)'
  <2>1. d = <<>> /\ n = g + 1 /\ Answer(c, SubSeq(u, 1, m)) = <<n>> /\ SubSeq(u, m + 1, Len(u)) = <<>>
    BY <1>1, <1>13, ReadsWhole, Zenon
  <2>2. LockstepIn(n, g, handler'[c], <<>>, s, <<>> \o <<n>>)
    BY <1>4, <2>1, LockstepAnswered, Zenon
  <2> QED
    BY <1>1, <1>13, <2>1, <2>2, Zenon DEF Lockstep
<1>14. ASSUME NEW m \in Nat, ReadsToken(c, m) PROVE Lockstep(c)'
  <2>1. h # "closed"
    BY <1>1, <1>14 DEF ReadsToken
  <2> QED
    BY <1>1, <1>13, <1>14, <2>1, Zenon DEF ReadsToken
<1>15. ASSUME NEW m \in Nat, ReadsMessage(c, m) PROVE Lockstep(c)'
  <2>1. h # "closed"
    BY <1>1, <1>15, MessageReader
  <2> QED
    BY <1>1, <1>5, <1>13, <1>15, <2>1, Zenon DEF ReadsMessage
<1> QED
  BY <1>6, <1>7, <1>8, <1>9, <1>10, <1>11, <1>12, <1>14, <1>15, Zenon DEF ClientStep

(***************************************************************************)
(* The theorems                                                            *)
(***************************************************************************)

\* No client has connected.
LEMMA InitInv ==
    ASSUME Init
    PROVE  ServerInv
<1>1. PICK script \in [now.clients -> now.scripts] :
        client = [c \in Clients |-> [phase |-> "away", sent |-> 0, got |-> 0, wrote |-> <<>>,
                                     script |-> IF c \in now.clients THEN script[c] ELSE <<>>]]
  BY DEF Init
<1>2. load \in DOMAIN Loads /\ now = Loads[load]
  BY DEF Init, AllLoads, now
<1>3. ASSUME NEW c \in Clients
      PROVE  ClientType(c) /\ Unread(c) /\ TokenSeen(c) /\ Lockstep(c)
  <2> DEFINE s == IF c \in now.clients THEN script[c] ELSE <<>>
  <2>1. /\ client[c] = [phase |-> "away", sent |-> 0, got |-> 0, wrote |-> <<>>, script |-> s]
        /\ up[c] = <<>> /\ down[c] = <<>> /\ handler[c] = "none" /\ acted[c] = <<>>
    BY <1>1 DEF Init
  <2>2. s \in Script
    <3>1. CASE c \in now.clients
      <4>1. script[c] \in Loads[load].scripts
        BY <1>1, <1>2, <3>1
      <4> DEFINE t == script[c]
      <4>2. t \in Seq(Seq(Bytes)) /\ \A i \in DOMAIN t : IsLine(t[i]) \/ IsMessage(t[i])
        BY <1>2, <4>1, LoadsAssumption
      <4> HIDE DEF t
      <4>3. t \in Script
        BY <4>2 DEF Script
      <4> QED
        BY <3>1, <4>3 DEF t
    <3>2. CASE c \notin now.clients
      <4>1. <<>> \in Seq(Seq(Bytes)) /\ DOMAIN <<>> = {}
        OBVIOUS
      <4> QED
        BY <3>2, <4>1 DEF Script
    <3> QED
      BY <3>1, <3>2
  <2> HIDE DEF s
  <2>3. /\ client[c].phase = "away" /\ client[c].sent = 0 /\ client[c].got = 0
        /\ client[c].wrote = <<>> /\ client[c].script = s
    BY <2>1
  <2>4. Len(<<>>) = 0 /\ <<>> \in Seq(Bytes) /\ <<>> \in Seq(Int) /\ <<>> \in Seq(Bytes \X Seq(Bytes)) /\ DOMAIN <<>> = {}
        /\ Len(s) \in Nat
    BY <2>2 DEF Script
  <2>5. ClientType(c)
    <3>1. client[c] \in ClientRecord
      BY <2>1, <2>2, <2>4 DEF ClientRecord
    <3>2. client[c].got <= client[c].sent /\ client[c].sent <= Len(client[c].script)
      BY <2>3, <2>4
    <3> QED
      BY <2>1, <2>4, <3>1, <3>2, SMTT(20) DEF ClientType, Handlers
  <2>7. Unread(c) /\ TokenSeen(c) /\ Lockstep(c)
    BY <2>1, <2>3, <2>4 DEF Unread, TokenSeen, Lockstep, LockstepIn
  <2> QED
    BY <2>5, <2>7
<1>4. PerClient /\ main = "up" /\ done = 0
  BY <1>1 DEF Init, PerClient
<1> QED
  BY <1>2, <1>3, <1>4 DEF ServerInv, ServerType

\* serve returns only past the last step of Shutdown.
LEMMA DoneStep ==
    ASSUME ServerInv, Next
    PROVE  /\ main' \in {"up", "returned", "panicked"} /\ done' \in 0 .. 5
           /\ main' = "returned" => done' = 5
<1>1. /\ main \in {"up", "returned", "panicked"} /\ done \in 0 .. 5
      /\ main = "returned" => done = 5
  BY DEF ServerInv, ServerType
<1>2. CASE Signal
  BY <1>1, <1>2 DEF Signal, Up
<1>3. CASE ShutdownStep
  <2>1. Len(Steps) = 5
    BY DEF Steps
  <2> QED
    BY <1>1, <1>3, <2>1 DEF ShutdownStep, Up
<1>4. CASE AcceptFails
  <2>1. PICK i \in 1 .. done : Steps[i] = "cancel"
    BY <1>4 DEF AcceptFails, Past
  <2>2. i \in 1 .. 5
    BY <1>1, <2>1
  <2>3. i = 5
    BY <2>1, <2>2 DEF Steps
  <2>4. done = 5
    BY <1>1, <2>1, <2>3
  <2> QED
    BY <1>4, <2>4 DEF AcceptFails, Ends
<1>5. ASSUME NEW c \in Clients,
             Connect(c) \/ Send(c) \/ Take(c) \/ Leave(c) \/ Accept(c) \/ Serve(c)
      PROVE  done' = done /\ (main' = main \/ main' = "panicked")
  BY <1>5, Zenon DEF Connect, Send, Take, Leave, Accept, Serve, ReadToken, Acquire, ReadFails, ReadMessage, Handle, Ends
<1> QED
  BY <1>1, <1>2, <1>3, <1>4, <1>5 DEF Next

\* Every step keeps the invariant.
LEMMA NextInv ==
    ASSUME ServerInv, Next
    PROVE  ServerInv'
<1>1. load' = load /\ PerClient' /\ \A c \in Clients : ClientStep(c)
  BY NextIsClientStep DEF ServerInv
<1>2. ASSUME NEW c \in Clients
      PROVE  /\ ClientType(c)' /\ Unread(c)' /\ TokenSeen(c)'
             /\ (OneByOneOf(c) => Lockstep(c))'
  <2>1. /\ ClientType(c) /\ ClientStep(c) /\ Unread(c) /\ TokenSeen(c)
        /\ OneByOneOf(c) => Lockstep(c)
    BY <1>1 DEF ServerInv, ServerType
  <2>2. ClientType(c)'
    BY <2>1, TypeStep
  <2>4. Unread(c)' /\ TokenSeen(c)'
    BY <1>1, <2>1, TokenStep
  <2>5. OneByOneOf(c)' <=> OneByOneOf(c)
    BY <1>1, <2>1, ScriptStays DEF OneByOneOf, now, AllLoads
  <2>6. (OneByOneOf(c) => Lockstep(c))'
    BY <1>1, <2>1, <2>5, LockstepStep
  <2> QED
    BY <2>2, <2>4, <2>6
<1>3. load' \in DOMAIN Loads
  BY <1>1 DEF ServerInv, ServerType
<1> QED
  BY <1>1, <1>2, <1>3, DoneStep DEF ServerInv, ServerType

\* The invariant holds in every state of the server.
LEMMA ServerInvariant == Init /\ [][Next]_vars => []ServerInv
<1>1. ASSUME ServerInv, UNCHANGED vars PROVE ServerInv'
  <2>1. UNCHANGED <<load, client, up, down, handler, acted, main, done>>
    BY <1>1 DEF vars
  <2>2. ServerType'
    BY <1>1, <2>1 DEF ServerInv, ServerType, PerClient, ClientType
  <2>3. ASSUME NEW c \in Clients
        PROVE  Unread(c)' /\ TokenSeen(c)' /\ (OneByOneOf(c) => Lockstep(c))'
    <3>1. Unread(c) /\ TokenSeen(c) /\ (OneByOneOf(c) => Lockstep(c))
      BY <1>1, Zenon DEF ServerInv
    <3>3. Unread(c)' /\ TokenSeen(c)'
      BY <2>1, <3>1, Zenon DEF Unread, TokenSeen, now, AllLoads
    <3>4. OneByOneOf(c)' = OneByOneOf(c) /\ Lockstep(c)' = Lockstep(c)
      BY <2>1 DEF OneByOneOf, now, AllLoads, Lockstep
    <3> QED
      BY <3>1, <3>3, <3>4
  <2> QED
    BY <1>1, <2>1, <2>2, <2>3 DEF ServerInv
<1>2. ServerInv /\ [Next]_vars => ServerInv'
  BY <1>1, NextInv
<1>3. Init => ServerInv
  BY InitInv
<1> QED
  BY <1>2, <1>3, PTL

\* With a token configured nothing is handled for a client whose first line is another.
THEOREM TokenComesFirst == Spec => []AuthFirst
<1>1. ServerInv => AuthFirst
  BY DEF ServerInv, TokenSeen, AuthFirst
<1> QED
  BY <1>1, ServerInvariant, PTL DEF Spec

\* A client that waits for every answer gets the one to its message, when its messages
\* fit the buffer and come in one Read.
THEOREM AnswersInStep == Spec => []AnswersMatch
<1>1. ServerInv => AnswersMatch
  BY DEF ServerInv, OneByOneOf, Lockstep, LockstepIn, AnswersMatch, Answered
<1> QED
  BY <1>1, ServerInvariant, PTL DEF Spec

\* The process returns from serve only when the store has been closed.
THEOREM StoreClosedFirst == Spec => []ClosedOnReturn
<1>1. ServerInv => ClosedOnReturn
  <2> SUFFICES ASSUME ServerInv, main = "returned" PROVE Past("store")
    BY DEF ClosedOnReturn
  <2>1. done = 5
    BY DEF ServerInv
  <2>2. 4 \in 1 .. done /\ Steps[4] = "store"
    BY <2>1 DEF Steps
  <2> QED
    BY <2>2 DEF Past
<1> QED
  BY <1>1, ServerInvariant, PTL DEF Spec
=============================================================================
