---------------------------- MODULE HttpSession ----------------------------
(***************************************************************************)
(* The sessions of the HTTP server: the sockets of the accept pool         *)
(* (ILibAsyncSocket.c, ILibAsyncServerSocket.c), the reader of requests    *)
(* (ILibWebClient.c, whose OnData serves both directions) and the answers  *)
(* and idle timers of ILibWebServer.c, all on the chain thread.  Clients   *)
(* pipeline requests, stop reading, reset or leave.  The application       *)
(* answers a request by any number of sends, the last one marked done.     *)
(***************************************************************************)
EXTENDS Integers, Sequences

CONSTANTS
  Slots,        (* the sockets of the accept pool                          *)
  Requests,     (* requests that come over a connection of each            *)
  MaxUnsent     (* buffers waiting in the list of a socket                 *)

ASSUME HttpAssumption ==
  Requests \in [Slots -> Nat] /\ MaxUnsent \in Nat \ {0}

VARIABLES
  turn,    (* the PostSelect the chain thread runs, or Waiting             *)
  sock,    (* struct AsyncSocketModule                                     *)
  sess,    (* struct ILibWebServer_Session                                 *)
  timers,  (* how many timers the LifeTime object has for the session      *)
  peer     (* the client and the kernel between                            *)

vars == <<turn, sock, sess, timers, peer>>

(* In a PostSelect: its socket (slot), the sets of select that is in       *)
(* (ready), the step and where the application returns to (back).          *)
Waiting == [step |-> "select"]

At(s, step) == turn # Waiting /\ turn.step = step /\ turn.slot = s

(* A request arrives whole, or as a head whose body follows.               *)
Messages == {"whole", "head", "body"}

FreeSocket == [open |-> FALSE, paused |-> TRUE, unsent |-> 0, buffer |-> <<>>]

(* answered is Reserved4 and made Reserved5, called is Reserved8; half:    *)
(* FinHeader, the body is awaited; said: what the application has sent of  *)
(* the present answer; owed: requests the application got, minus answers   *)
(* given to the kernel.                                                    *)
NewSession == [answered |-> FALSE, made |-> FALSE, called |-> FALSE,
               half |-> FALSE, said |-> "nothing", owed |-> 0]

NoPeer(s) == [here |-> TRUE, window |-> "open", inbound |-> <<>>,
              left |-> Requests[s], owes |-> FALSE]

GonePeer == [here |-> FALSE, window |-> "reopened", inbound |-> <<>>,
             left |-> 0, owes |-> FALSE]

Init ==
  /\ turn = Waiting
  /\ sock = [s \in Slots |-> FreeSocket]
  /\ sess = [s \in Slots |-> NewSession]
  /\ timers = [s \in Slots |-> 0]
  /\ peer = [s \in Slots |-> NoPeer(s)]

Open(s) == sock[s].open

Stalled(s) == peer[s].window = "closed"

-----------------------------------------------------------------------------
(* The client of a connection, and the kernel.                             *)

Upstream(s) == Open(s) /\ peer[s].here

ClientSends(s) ==
  /\ Upstream(s)
  /\ \E m \in Messages :
       /\ IF peer[s].owes THEN m = "body" ELSE m # "body" /\ peer[s].left > 0
       /\ peer' = [peer EXCEPT ![s].inbound = Append(@, m),
                               ![s].owes = (m = "head"),
                               ![s].left = IF m = "body" THEN @ ELSE @ - 1]
  /\ UNCHANGED <<turn, sock, sess, timers>>

(* Once per connection it may stop reading while an answer is unsent.      *)
ClientStalls(s) ==
  /\ Upstream(s) /\ sock[s].unsent > 0 /\ peer[s].window = "open"
  /\ peer' = [peer EXCEPT ![s].window = "closed"]
  /\ UNCHANGED <<turn, sock, sess, timers>>

ClientReads(s) ==
  /\ Open(s) /\ Stalled(s)
  /\ peer' = [peer EXCEPT ![s].window = "reopened"]
  /\ UNCHANGED <<turn, sock, sess, timers>>

(* It closes or resets the connection; what it has sent can be received.   *)
ClientLeaves(s) ==
  /\ Upstream(s)
  /\ peer' = [peer EXCEPT ![s] = [GonePeer EXCEPT !.inbound = peer[s].inbound]]
  /\ UNCHANGED <<turn, sock, sess, timers>>

Client(s) == ClientSends(s) \/ ClientStalls(s) \/ ClientReads(s) \/ ClientLeaves(s)

-----------------------------------------------------------------------------
(* Variant: the list is taken to hold a timer of the session.              *)
RemovedBlindly(n) == n - 1

(* ILibLifeTime_Remove, for a session with n timers.                       *)
Removed(n) == IF n = 0 THEN 0 ELSE n - 1

(* Variant: unsent buffers stay in the list of the socket.                 *)
HangupKeepsBuffers(s, answered, n) ==
  /\ sock' = [sock EXCEPT ![s] = [FreeSocket EXCEPT !.unsent = sock[s].unsent]]
  /\ timers' = [timers EXCEPT ![s] =
                  IF answered \/ ~sess[s].made THEN Removed(n) ELSE n]
  /\ sess' = [sess EXCEPT ![s] = NewSession]
  /\ peer' = [peer EXCEPT ![s] = NoPeer(s)]

(* The four places that close a socket drop its unsent buffers and call    *)
(* ILibWebServer_OnDisconnect, which frees the session; n: its timers.     *)
Hangup(s, answered, n) ==
  /\ sock' = [sock EXCEPT ![s] = FreeSocket]
  /\ timers' = [timers EXCEPT ![s] =
                  IF answered \/ ~sess[s].made THEN Removed(n) ELSE n]
  /\ sess' = [sess EXCEPT ![s] = NewSession]
  /\ peer' = [peer EXCEPT ![s] = NoPeer(s)]

Close(s) == Hangup(s, sess[s].answered, timers[s])

(* Variant: the idle timer is not set again.                               *)
RequestAnsweredNoTimer(s, said, unsent) ==
  IF sess[s].called
  THEN /\ sock' = [sock EXCEPT ![s].unsent = unsent]
       /\ UNCHANGED <<sess, timers, peer>>
  ELSE \/ Hangup(s, TRUE, timers[s])
       \/ /\ sess' = [sess EXCEPT ![s].answered = TRUE, ![s].called = TRUE,
                                  ![s].half = FALSE, ![s].said = said,
                                  ![s].owed = @ - 1]
          /\ sock' = [sock EXCEPT ![s].unsent = unsent, ![s].paused = FALSE]
          /\ UNCHANGED <<timers, peer>>

(* ILibWebServer_RequestAnswered: version and headers of the request       *)
(* decide whether the connection is closed, or idle until the next request *)
(* (ILibWebClient_FinishedResponse_Server, ILibWebClient_Resume).          *)
RequestAnswered(s, said, unsent) ==
  IF sess[s].called
  THEN /\ sock' = [sock EXCEPT ![s].unsent = unsent]
       /\ UNCHANGED <<sess, timers, peer>>
  ELSE \/ Hangup(s, TRUE, timers[s])
       \/ /\ sess' = [sess EXCEPT ![s].answered = TRUE, ![s].called = TRUE,
                                  ![s].half = FALSE, ![s].said = said,
                                  ![s].owed = @ - 1]
          /\ timers' = [timers EXCEPT ![s] = @ + 1]
          /\ sock' = [sock EXCEPT ![s].unsent = unsent, ![s].paused = FALSE]
          /\ UNCHANGED peer

-----------------------------------------------------------------------------
(* ILibAsyncServerSocket_PostSelect gives a connection to a socket that is *)
(* free, and ILibWebServer_OnConnect starts the session's idle timer.  The *)
(* list of unsent buffers is not touched.                                  *)
Accept(s) ==
  /\ turn = Waiting /\ ~Open(s)
  /\ sock' = [sock EXCEPT ![s].open = TRUE, ![s].paused = FALSE, ![s].buffer = <<>>]
  /\ timers' = [timers EXCEPT ![s] = @ + 1]
  /\ UNCHANGED <<turn, sess, peer>>

(* The session's idle timer rings: ILibWebServer_IdleSink.                 *)
IdleSink(s) ==
  /\ turn = Waiting /\ timers[s] > 0
  /\ IF Open(s) THEN Hangup(s, sess[s].answered, timers[s] - 1)
     ELSE /\ timers' = [timers EXCEPT ![s] = @ - 1]
          /\ UNCHANGED <<sock, sess, peer>>
  /\ UNCHANGED turn

(* The sets ILibAsyncSocket_PreSelect asks for, and what select finds.     *)
Readable(s) == /\ Open(s) /\ ~sock[s].paused
               /\ peer[s].inbound # <<>> \/ ~peer[s].here

(* Urgent data is reported so, and may have been the last thing sent.      *)
InError(s) == Open(s) /\ ~sock[s].paused /\ ~peer[s].here

Writable(s) == /\ Open(s) /\ sock[s].unsent > 0
               /\ ~Stalled(s)

Found(s) == (IF Readable(s) THEN {"read"} ELSE {})
            \cup (IF Writable(s) THEN {"write"} ELSE {})

(* ILibStartChain calls the PostSelect of a socket that is in a set.       *)
Turn(s) ==
  /\ turn = Waiting /\ Found(s) # {}
  /\ \E error \in SUBSET {"error"} :
       /\ error = {} \/ InError(s)
       /\ turn' = [slot |-> s, ready |-> Found(s) \cup error, back |-> "read",
                   step |-> IF "write" \in Found(s) THEN "write" ELSE "leftover"]
  /\ UNCHANGED <<sock, sess, timers, peer>>

(* Where PostSelect goes on after its write half.                          *)
AfterWrite(s) ==
  IF Open(s)' /\ turn.ready # {"write"} THEN [turn EXCEPT !.step = "leftover"]
                                        ELSE Waiting

(* Variant: OnSendOK is not called for the last of several buffers.        *)
WriteBufferForgetsSendOK(s) ==
  /\ At(s, "write") /\ ~Stalled(s)
  /\ sock' = [sock EXCEPT ![s].unsent = @ - 1]
  /\ turn' = IF sock[s].unsent > 1 THEN turn ELSE AfterWrite(s)
  /\ UNCHANGED <<sess, timers, peer>>

(* One round of the write loop of PostSelect: a buffer is sent.  After the *)
(* last one, ILibWebServer_OnSendOK.  While the client is stalled send     *)
(* would block and the loop goes round: no step.                           *)
WriteBuffer(s) ==
  /\ At(s, "write") /\ ~Stalled(s)
  /\ IF sock[s].unsent = 1 /\ sess[s].answered
     THEN RequestAnswered(s, sess[s].said, 0) /\ turn' = AfterWrite(s)
     ELSE /\ sock' = [sock EXCEPT ![s].unsent = @ - 1]
          /\ turn' = IF sock[s].unsent > 1 THEN turn
                     ELSE [turn EXCEPT !.step = "app", !.back = "sendok"]
          /\ UNCHANGED <<sess, timers, peer>>

(* send fails there: the list is cleared, and nothing else.                *)
WriteFails(s) ==
  /\ At(s, "write") /\ ~peer[s].here
  /\ sock' = [sock EXCEPT ![s].unsent = 0]
  /\ turn' = AfterWrite(s)
  /\ UNCHANGED <<sess, timers, peer>>

-----------------------------------------------------------------------------
(* The read half of PostSelect.  Its peer-reset branch comes first.        *)
PeerReset(s) ==
  /\ At(s, "leftover") /\ "error" \in turn.ready
  /\ Close(s)
  /\ turn' = Waiting

(* ILibWebServer_OnResponse: an idle session is idle no more.              *)
IsIdle(s) == sess[s].answered \/ ~sess[s].made

Begun(s) ==
  IF IsIdle(s) THEN [NewSession EXCEPT !.made = TRUE, !.owed = sess[s].owed]
               ELSE sess[s]

(* Variant: a session is idle when its first request begins, only.         *)
ReceiveForgetsAnswered(s) ==
  /\ At(s, "fresh") \/ (At(s, "leftover") /\ "error" \notin turn.ready)
  /\ Open(s) /\ ~sock[s].paused /\ sock[s].buffer # <<>>
  /\ sock' = [sock EXCEPT ![s].buffer = Tail(@)]
  /\ timers' = [timers EXCEPT ![s] = IF ~sess[s].made THEN Removed(@) ELSE @]
  /\ IF Head(sock[s].buffer) = "head"
     THEN /\ sess' = [sess EXCEPT ![s] = [Begun(s) EXCEPT !.half = TRUE]]
          /\ UNCHANGED turn
     ELSE /\ sess' = [sess EXCEPT ![s] = [Begun(s) EXCEPT !.half = FALSE, !.owed = @ + 1]]
          /\ turn' = [turn EXCEPT !.step = "app", !.back = turn.step]
  /\ UNCHANGED peer

(* ILibWebClient_OnData hands the next message of the receive buffer to    *)
(* ILibWebServer_OnResponse; the application acts on a complete request.   *)
Receive(s) ==
  /\ At(s, "fresh") \/ (At(s, "leftover") /\ "error" \notin turn.ready)
  /\ Open(s) /\ ~sock[s].paused /\ sock[s].buffer # <<>>
  /\ sock' = [sock EXCEPT ![s].buffer = Tail(@)]
  /\ timers' = [timers EXCEPT ![s] = IF IsIdle(s) THEN Removed(@) ELSE @]
  /\ IF Head(sock[s].buffer) = "head"
     THEN /\ sess' = [sess EXCEPT ![s] = [Begun(s) EXCEPT !.half = TRUE]]
          /\ UNCHANGED turn
     ELSE /\ sess' = [sess EXCEPT ![s] = [Begun(s) EXCEPT !.half = FALSE, !.owed = @ + 1]]
          /\ turn' = [turn EXCEPT !.step = "app", !.back = turn.step]
  /\ UNCHANGED peer

(* ILibProcessAsyncSocket, between its two loops.                          *)
Recv(s) ==
  /\ At(s, "leftover") /\ "error" \notin turn.ready
  /\ Open(s) /\ ~sock[s].paused /\ sock[s].buffer = <<>>
  /\ IF peer[s].inbound = <<>>
     THEN Close(s) /\ turn' = Waiting
     ELSE /\ sock' = [sock EXCEPT ![s].buffer = peer[s].inbound]
          /\ peer' = [peer EXCEPT ![s].inbound = <<>>]
          /\ turn' = [turn EXCEPT !.step = "fresh"]
          /\ UNCHANGED <<sess, timers>>

(* The end of PostSelect.                                                  *)
TurnDone(s) ==
  /\ At(s, "leftover") \/ At(s, "fresh")
  /\ \/ ~Open(s) \/ sock[s].paused
     \/ turn.step = "fresh" /\ sock[s].buffer = <<>>
  /\ turn' = Waiting
  /\ UNCHANGED <<sock, sess, timers, peer>>

-----------------------------------------------------------------------------
(* The application, in OnReceive or OnSendOK.  It sends nothing after the  *)
(* buffer marked done.                                                     *)
Answering(s) == At(s, "app") /\ Open(s) /\ sess[s].said # "all"

(* ILibWebServer_Send_Raw with ILibAsyncSocket_Send: the buffer is sent, is *)
(* left in the list, or fails, and then the socket is closed.              *)
Send(s, done) ==
  LET said == IF done THEN "all" ELSE "part"
  IN
  /\ Answering(s)
  /\ \/ /\ sock[s].unsent = 0 /\ ~Stalled(s)
        /\ IF done THEN RequestAnswered(s, said, 0)
           ELSE /\ sess' = [sess EXCEPT ![s].answered = FALSE, ![s].said = said]
                /\ UNCHANGED <<sock, timers, peer>>
     \/ /\ sock[s].unsent < MaxUnsent
        /\ sock' = [sock EXCEPT ![s].unsent = @ + 1]
        /\ sess' = [sess EXCEPT ![s].answered = done, ![s].said = said]
        /\ UNCHANGED <<timers, peer>>
     \/ sock[s].unsent = 0 /\ ~peer[s].here /\ Hangup(s, done, timers[s])
  /\ UNCHANGED turn

SendMore(s) == Send(s, FALSE)

SendLast(s) == Send(s, TRUE)

(* ILibWebServer_StreamBody with nothing left to send, for a request of    *)
(* version 1.0: the connection is closed whatever is unsent.               *)
EndStream(s) ==
  /\ Answering(s) /\ sess[s].said = "part"
  /\ Close(s)
  /\ UNCHANGED turn

AfterApp(s) ==
  IF turn.back = "sendok" THEN AfterWrite(s)
                          ELSE [turn EXCEPT !.step = turn.back, !.back = "read"]

(* Variant: the reader is not paused.                                      *)
AppReturnsUnpaused(s) ==
  /\ At(s, "app")
  /\ ~Open(s) \/ sess[s].said # "part" \/ sock[s].unsent > 0
  /\ turn' = AfterApp(s)
  /\ UNCHANGED <<sock, sess, timers, peer>>

(* The application returns when it has sent everything, when a send left   *)
(* something unsent (it goes on in OnSendOK) or when it has no answer to   *)
(* give (UpnpProcessPOST with an action it does not know).  OnResponse     *)
(* pauses the reader of a request that is not answered; of a session that  *)
(* was closed meanwhile it reads freed memory, without effect on others.   *)
AppReturns(s) ==
  /\ At(s, "app")
  /\ ~Open(s) \/ sess[s].said # "part" \/ sock[s].unsent > 0
  /\ sock' = IF turn.back # "sendok" /\ Open(s) /\ ~sess[s].called
             THEN [sock EXCEPT ![s].paused = TRUE] ELSE sock
  /\ turn' = AfterApp(s)
  /\ UNCHANGED <<sess, timers, peer>>

Thread(s) ==
  \/ WriteBuffer(s) \/ WriteFails(s) \/ PeerReset(s) \/ Receive(s) \/ Recv(s)
  \/ TurnDone(s) \/ SendMore(s) \/ SendLast(s) \/ EndStream(s) \/ AppReturns(s)

Next ==
  \E s \in Slots :
    Client(s) \/ Accept(s) \/ IdleSink(s) \/ Turn(s) \/ Thread(s)

(* What serves a connection: its timer, its socket, its client's reading.  *)
Service(s) == IdleSink(s) \/ Turn(s) \/ ClientReads(s)

(* The thread runs, the chain does not pass over a timer that is due or a  *)
(* socket that is ready, a client that stops reading reads again or leaves, *)
(* and answers are finite.                                                 *)
Fairness ==
  /\ WF_vars(\E s \in Slots : Thread(s))
  /\ \A s \in Slots : SF_vars(Service(s)) /\ SF_vars(SendLast(s))

Spec == Init /\ [][Next]_vars /\ Fairness
-----------------------------------------------------------------------------
TurnType == [slot : Slots, ready : SUBSET {"read", "error", "write"},
             step : {"write", "leftover", "fresh", "app"},
             back : {"read", "leftover", "fresh", "sendok"}]

SocketType == [open : BOOLEAN, paused : BOOLEAN, unsent : 0..MaxUnsent,
               buffer : Seq(Messages)]

SessionType == [answered : BOOLEAN, made : BOOLEAN, called : BOOLEAN, half : BOOLEAN,
                said : {"nothing", "part", "all"}, owed : Nat]

PeerType == [here : BOOLEAN, window : {"open", "closed", "reopened"},
             inbound : Seq(Messages), left : Nat, owes : BOOLEAN]

TypeOK ==
  /\ turn \in {Waiting} \cup TurnType
  /\ sock \in [Slots -> SocketType]
  /\ sess \in [Slots -> SessionType]
  /\ timers \in [Slots -> Nat]
  /\ peer \in [Slots -> PeerType]

(* A client that pipelines gets its answers one after the other: the       *)
(* application never holds two requests of one session, and what counts as *)
(* answered has left the list of unsent buffers.                           *)
OneAnswerAtATime ==
  \A s \in Slots :
    /\ sess[s].owed <= 1
    /\ sess[s].called => sess[s].owed = 0 /\ sock[s].unsent = 0

(* Exactly the idle sessions have a timer, exactly one: no session is      *)
(* reaped while it answers, none idles for ever, and no timer is left with *)
(* the address of a freed session.                                         *)
TimedIffIdle ==
  \A s \in Slots :
    timers[s] = IF Open(s) /\ sess[s].owed = 0 /\ ~sess[s].half THEN 1 ELSE 0

(* The list of unsent buffers is not cleared when a socket is given to a   *)
(* new client, so it must be empty by then: nobody gets a stranger's bytes.*)
FreeSocketsAreEmpty ==
  \A s \in Slots : ~Open(s) => sock[s].unsent = 0

(* A session nothing will ever end: no set of select has its socket in it  *)
(* and no timer runs.                                                      *)
Stranded(s) == /\ turn = Waiting /\ Open(s)
               /\ sock[s].paused /\ sock[s].unsent = 0 /\ timers[s] = 0

(* The comment of the write loop says of a send that fails "Error, clean   *)
(* up everything": no session is left over.  It is stranded.               *)
ErrorsCleanUpEverything ==
  \A s \in Slots : Stranded(s) => sess[s].said = "nothing"

(* Sessions are stranded for two reasons only: the application gave no     *)
(* answer, or the client left while the answer was unsent.                 *)
StrandedOnlyIf ==
  \A s \in Slots :
    Stranded(s) => sess[s].said = "nothing" \/ ~peer[s].here

(* Every other session ends and its socket is free for the next client,    *)
(* unless the client never sends the body it owes.                         *)
SessionsEnd ==
  \A s \in Slots :
    Open(s) ~> ~Open(s) \/ Stranded(s) \/ sess[s].half
=============================================================================
