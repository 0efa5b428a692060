------------------------- MODULE HttpSessionProofs -------------------------
(***************************************************************************)
(* The account of requests, unsent buffers and idle timers of module       *)
(* HttpSession holds for any number of sockets and of requests per         *)
(* connection.  A state is described slot by slot (SlotSound); an action   *)
(* concerns one slot and leaves the others alone.                          *)
(***************************************************************************)
EXTENDS HttpSession, TLAPS

(* The application has the request of slot s and owes its answer.          *)
Busy(s) == Open(s) /\ sess[s].made /\ ~sess[s].called /\ ~sess[s].half

(* A socket of the pool is given back as it was received.                  *)
ClosedIsClean(s) == ~Open(s) => sock[s].unsent = 0 /\ sess[s] = NewSession

(* What the flags of a session say of one another.                         *)
FlagsAgree(s) ==
  /\ sess[s].answered <=> sess[s].said = "all"
  /\ sess[s].called => sess[s].answered
  /\ sess[s].said # "nothing" => sess[s].made
  /\ sess[s].half => sess[s].made /\ sess[s].said = "nothing"

Accounted(s) ==
  /\ timers[s] = IF Open(s) /\ (sess[s].called \/ ~sess[s].made) THEN 1 ELSE 0
  /\ sess[s].owed = IF Busy(s) THEN 1 ELSE 0
  /\ sock[s].unsent > 0 => Busy(s) /\ sess[s].said # "nothing"

(* Where the thread may be with the slot.                                  *)
PlaceSound(s) ==
  /\ At(s, "write") => sock[s].unsent > 0
  /\ At(s, "app") => turn.back # "read"
  /\ At(s, "app") /\ Open(s) => sess[s].made /\ ~sess[s].half

(* The reader is paused from the moment the application is called with a   *)
(* request, which is what keeps the next request back.                     *)
PausedWhileBusy(s) ==
  Busy(s) => sock[s].paused \/ (At(s, "app") /\ turn.back # "sendok")

(* An answer that was begun goes on, unless the client is gone.            *)
GoesOn(s) ==
  Busy(s) /\ sess[s].said # "nothing" /\ sock[s].unsent = 0 =>
    ~peer[s].here \/ (At(s, "app") /\ sess[s].said = "part")

SlotSound(s) ==
  /\ ClosedIsClean(s)
  /\ FlagsAgree(s)
  /\ Accounted(s)
  /\ PlaceSound(s)
  /\ PausedWhileBusy(s)
  /\ GoesOn(s)

IInv == TypeOK /\ \A s \in Slots : SlotSound(s)

-----------------------------------------------------------------------------
LEMMA InitEstablishes == Init => IInv
<1> SUFFICES ASSUME Init PROVE IInv
  OBVIOUS
<1>1. TypeOK
  BY HttpAssumption
  DEF Init, TypeOK, SocketType, SessionType, PeerType, FreeSocket, NewSession, NoPeer
<1>2. ASSUME NEW s \in Slots PROVE SlotSound(s)
  <2>1. /\ sock[s] = FreeSocket /\ sess[s] = NewSession /\ timers[s] = 0
        /\ turn = Waiting
    BY DEF Init
  <2>2. QED
    BY <2>1 DEF SlotSound, ClosedIsClean, FlagsAgree, Accounted, PlaceSound,
                PausedWhileBusy, GoesOn, Busy, Open, At, FreeSocket, NewSession
<1>3. QED
  BY <1>1, <1>2 DEF IInv

-----------------------------------------------------------------------------
(* The thread is nowhere, or with slot s.                                  *)
ThreadFor(s) == turn = Waiting \/ turn.slot = s

(* Nothing of any other slot is changed.                                   *)
Elsewhere(s) ==
  \A r \in Slots \ {s} : /\ sock'[r] = sock[r] /\ sess'[r] = sess[r]
                         /\ timers'[r] = timers[r] /\ peer'[r] = peer[r]

(* It is enough to look at the slot an action is about.                    *)
LEMMA SlotBySlot ==
  ASSUME IInv, NEW s \in Slots, TypeOK', SlotSound(s)', Elsewhere(s),
         turn' = turn \/ (ThreadFor(s) /\ ThreadFor(s)')
  PROVE  IInv'
<1>1. ASSUME NEW r \in Slots, r # s PROVE SlotSound(r)'
  <2>1. /\ sock'[r] = sock[r] /\ sess'[r] = sess[r]
        /\ timers'[r] = timers[r] /\ peer'[r] = peer[r]
    BY <1>1 DEF Elsewhere
  <2>2. SlotSound(r)
    BY DEF IInv
  <2>3. CASE turn' = turn
    BY <2>1, <2>2, <2>3
    DEF SlotSound, ClosedIsClean, FlagsAgree, Accounted, PlaceSound,
        PausedWhileBusy, GoesOn, Busy, Open, At
  <2>4. CASE ThreadFor(s) /\ ThreadFor(s)'
    <3>1. /\ \A step : ~At(r, step)
          /\ \A step : ~At(r, step)'
      BY <1>1, <2>4 DEF ThreadFor, At
    <3>2. QED
      BY <2>1, <2>2, <3>1
      DEF SlotSound, ClosedIsClean, FlagsAgree, Accounted, PlaceSound,
          PausedWhileBusy, GoesOn, Busy, Open
  <2>5. QED
    BY <2>3, <2>4
<1>2. QED
  BY <1>1 DEF IInv

(* What TypeOK says of one slot.                                           *)
LEMMA SlotTypes ==
  ASSUME TypeOK, NEW s \in Slots
  PROVE  /\ sock[s] \in SocketType /\ sess[s] \in SessionType
         /\ timers[s] \in Nat /\ peer[s] \in PeerType
BY DEF TypeOK

-----------------------------------------------------------------------------
(* The environment and the beginning of a turn.                            *)
LEMMA ClientPreserves ==
  ASSUME IInv, NEW s \in Slots, Client(s)
  PROVE  IInv'
<1>1. /\ sock' = sock /\ sess' = sess /\ timers' = timers /\ turn' = turn
      /\ peer' \in [Slots -> PeerType]
      /\ \A r \in Slots \ {s} : peer'[r] = peer[r]
      /\ peer'[s].here => peer[s].here
  <2>1. peer \in [Slots -> PeerType]
    BY DEF IInv, TypeOK
  <2>2. CASE ClientSends(s)
    <3>1. PICK m \in Messages :
            /\ m = "body" \/ peer[s].left > 0
            /\ peer' = [peer EXCEPT ![s].inbound = Append(@, m),
                                    ![s].owes = (m = "head"),
                                    ![s].left = IF m = "body" THEN @ ELSE @ - 1]
      BY <2>2 DEF ClientSends
    <3>2. peer[s] \in PeerType
      BY <2>1
    <3>3. Append(peer[s].inbound, m) \in Seq(Messages)
      BY <3>2 DEF PeerType
    <3>4. (IF m = "body" THEN peer[s].left ELSE peer[s].left - 1) \in Nat
      BY <3>1, <3>2 DEF PeerType
    <3>5. peer' \in [Slots -> PeerType]
      BY <2>1, <3>1, <3>2, <3>3, <3>4 DEF PeerType
    <3>6. QED
      BY <2>1, <2>2, <3>1, <3>2, <3>5 DEF ClientSends, PeerType
  <2>3. CASE ClientStalls(s)
    BY <2>1, <2>3 DEF ClientStalls, Upstream, PeerType
  <2>4. CASE ClientReads(s)
    BY <2>1, <2>4 DEF ClientReads, PeerType
  <2>5. CASE ClientLeaves(s)
    BY <2>1, <2>5 DEF ClientLeaves, GonePeer, PeerType
  <2>6. QED
    BY <2>2, <2>3, <2>4, <2>5 DEF Client
<1>2. TypeOK'
  BY <1>1 DEF IInv, TypeOK
<1>3. SlotSound(s)'
  BY <1>1 DEF IInv, SlotSound, ClosedIsClean, FlagsAgree, Accounted, PlaceSound,
              PausedWhileBusy, GoesOn, Busy, Open, At
<1>4. Elsewhere(s)
  BY <1>1 DEF Elsewhere
<1>5. QED
  BY <1>1, <1>2, <1>3, <1>4, SlotBySlot

LEMMA TurnPreserves ==
  ASSUME IInv, NEW s \in Slots, Turn(s)
  PROVE  IInv'
<1>1. /\ sock' = sock /\ sess' = sess /\ timers' = timers /\ peer' = peer
      /\ turn = Waiting
  BY DEF Turn
<1>2. PICK error \in SUBSET {"error"} :
        turn' = [slot |-> s, ready |-> Found(s) \cup error, back |-> "read",
                 step |-> IF "write" \in Found(s) THEN "write" ELSE "leftover"]
  BY DEF Turn
<1>3. /\ Found(s) \subseteq {"read", "write"}
      /\ "write" \in Found(s) => Writable(s)
  BY DEF Found
<1>4. /\ turn' \in TurnType
      /\ turn'.step # "app" /\ turn'.slot = s
      /\ turn'.step = "write" => Writable(s)
  BY <1>2, <1>3 DEF TurnType
<1>5. TypeOK'
  BY <1>1, <1>4 DEF IInv, TypeOK
<1>6. SlotSound(s)'
  <2>1. ~At(s, "app") /\ ~At(s, "app")' /\ (At(s, "write")' => sock[s].unsent > 0)
    BY <1>1, <1>4 DEF At, Writable
  <2>2. SlotSound(s)
    BY DEF IInv
  <2>3. QED
    BY <1>1, <2>1, <2>2
    DEF SlotSound, ClosedIsClean, FlagsAgree, Accounted, PlaceSound,
        PausedWhileBusy, GoesOn, Busy, Open
<1>7. Elsewhere(s) /\ ThreadFor(s) /\ ThreadFor(s)'
  BY <1>1, <1>4 DEF Elsewhere, ThreadFor
<1>8. QED
  BY <1>5, <1>6, <1>7, SlotBySlot

(* Where a step may leave the thread that changes what slot s counts.      *)
GoodPlace(s) ==
  /\ turn \in {Waiting} \cup TurnType
  /\ ~At(s, "write")
  /\ At(s, "app") => turn.back # "read"

(* The socket is closed from any of the four places, with n timers left.   *)
LEMMA HangupPreserves ==
  ASSUME IInv, NEW s \in Slots, NEW answered \in BOOLEAN, NEW n \in Nat,
         n <= 1, n = 1 => answered \/ ~sess[s].made,
         Hangup(s, answered, n), GoodPlace(s)'
  PROVE  TypeOK' /\ SlotSound(s)' /\ Elsewhere(s) /\ ~Open(s)'
<1> USE DEF IInv, TypeOK
<1>1. /\ sock'[s] = FreeSocket /\ sess'[s] = NewSession
      /\ peer'[s] = NoPeer(s) /\ timers'[s] = 0
  BY DEF Hangup, Removed
<1>2. Elsewhere(s)
  BY DEF Hangup, Elsewhere
<1>3. TypeOK'
  <2>1. FreeSocket \in SocketType /\ NewSession \in SessionType /\ NoPeer(s) \in PeerType
    BY HttpAssumption
    DEF FreeSocket, NewSession, NoPeer, SocketType, SessionType, PeerType
  <2>2. /\ sock' = [sock EXCEPT ![s] = FreeSocket]
        /\ sess' = [sess EXCEPT ![s] = NewSession]
        /\ peer' = [peer EXCEPT ![s] = NoPeer(s)]
        /\ timers' = [timers EXCEPT ![s] = 0]
    BY <1>1 DEF Hangup, Removed
  <2>3. QED
    BY <2>1, <2>2 DEF GoodPlace
<1>4. SlotSound(s)'
  BY <1>1
  DEF SlotSound, ClosedIsClean, FlagsAgree, Accounted, PlaceSound,
      PausedWhileBusy, GoesOn, Busy, Open, FreeSocket, NewSession, GoodPlace
<1>5. QED
  BY <1>1, <1>2, <1>3, <1>4 DEF Open, FreeSocket

LEMMA ClosePreserves ==
  ASSUME IInv, NEW s \in Slots, Close(s), GoodPlace(s)'
  PROVE  TypeOK' /\ SlotSound(s)' /\ Elsewhere(s) /\ ~Open(s)'
<1>1. sess[s].answered \in BOOLEAN /\ timers[s] \in Nat
  BY SlotTypes DEF IInv, SessionType
<1>2. timers[s] <= 1 /\ (timers[s] = 1 => sess[s].answered \/ ~sess[s].made)
  BY DEF IInv, SlotSound, Accounted, FlagsAgree
<1>3. QED
  BY <1>1, <1>2, HangupPreserves DEF Close

(* The last buffer of an answer is with the kernel.                        *)
LEMMA RequestAnsweredPreserves ==
  ASSUME IInv, NEW s \in Slots, Busy(s), RequestAnswered(s, "all", 0), GoodPlace(s)'
  PROVE  TypeOK' /\ SlotSound(s)' /\ Elsewhere(s)
<1>1. CASE Hangup(s, TRUE, timers[s])
  <2>1. timers[s] = 0
    BY DEF IInv, SlotSound, Accounted, Busy
  <2>2. timers[s] \in Nat /\ timers[s] <= 1 /\ TRUE \in BOOLEAN
        /\ (timers[s] = 1 => TRUE \/ ~sess[s].made)
    BY <2>1
  <2>3. QED
    BY <1>1, <2>2, HangupPreserves, Zenon
<1>2. CASE /\ sess' = [sess EXCEPT ![s].answered = TRUE, ![s].called = TRUE,
                                   ![s].half = FALSE, ![s].said = "all",
                                   ![s].owed = @ - 1]
           /\ timers' = [timers EXCEPT ![s] = @ + 1]
           /\ sock' = [sock EXCEPT ![s].unsent = 0, ![s].paused = FALSE]
           /\ peer' = peer
  <2>1. /\ sess[s].owed = 1 /\ timers[s] = 0 /\ sess[s].made /\ Open(s)
        /\ sock[s] \in SocketType /\ sess[s] \in SessionType
    BY SlotTypes DEF IInv, SlotSound, Accounted, Busy
  <2>2. /\ sess'[s].answered /\ sess'[s].called /\ ~sess'[s].half
        /\ sess'[s].said = "all" /\ sess'[s].owed = 0 /\ sess'[s].made
        /\ timers'[s] = 1
        /\ sock'[s].unsent = 0 /\ sock'[s].open
    BY <1>2, <2>1 DEF IInv, TypeOK, SocketType, SessionType, Open
  <2>3. sess' \in [Slots -> SessionType]
    BY <1>2, <2>1 DEF IInv, TypeOK, SessionType
  <2>4. sock' \in [Slots -> SocketType]
    <3>1. 0 \in 0..MaxUnsent
      BY HttpAssumption
    <3>2. QED
      BY <1>2, <2>1, <3>1 DEF IInv, TypeOK, SocketType
  <2>5. TypeOK'
    BY <1>2, <2>1, <2>3, <2>4 DEF IInv, TypeOK, GoodPlace
  <2>6. SlotSound(s)'
    BY <2>2
    DEF SlotSound, ClosedIsClean, FlagsAgree, Accounted, PlaceSound,
        PausedWhileBusy, GoesOn, Busy, Open, GoodPlace
  <2>7. Elsewhere(s)
    BY <1>2 DEF IInv, TypeOK, Elsewhere
  <2>8. QED
    BY <2>5, <2>6, <2>7
<1>3. QED
  BY <1>1, <1>2 DEF RequestAnswered, Busy

LEMMA AcceptPreserves ==
  ASSUME IInv, NEW s \in Slots, Accept(s)
  PROVE  IInv'
<1>1. /\ sess' = sess /\ peer' = peer /\ turn' = turn /\ turn = Waiting
      /\ sock' = [sock EXCEPT ![s].open = TRUE, ![s].paused = FALSE, ![s].buffer = <<>>]
      /\ timers' = [timers EXCEPT ![s] = @ + 1]
  BY DEF Accept
<1>2. /\ sess[s] = NewSession /\ timers[s] = 0 /\ sock[s].unsent = 0
      /\ sock[s] \in SocketType
  BY SlotTypes DEF Accept, IInv, SlotSound, ClosedIsClean, Accounted
<1>3. /\ sock'[s].open /\ sock'[s].unsent = 0 /\ timers'[s] = 1
      /\ sock' \in [Slots -> SocketType]
  <2>1. <<>> \in Seq(Messages)
    OBVIOUS
  <2>2. sock' \in [Slots -> SocketType]
    BY <1>1, <1>2, <2>1 DEF IInv, TypeOK, SocketType
  <2>3. sock'[s].open /\ sock'[s].unsent = 0
    BY <1>1, <1>2 DEF IInv, TypeOK, SocketType
  <2>4. timers'[s] = 1
    BY <1>1, <1>2 DEF IInv, TypeOK
  <2>5. QED
    BY <2>2, <2>3, <2>4
<1>4. TypeOK'
  BY <1>1, <1>2, <1>3 DEF IInv, TypeOK
<1>5. SlotSound(s)'
  BY <1>1, <1>2, <1>3
  DEF SlotSound, ClosedIsClean, FlagsAgree, Accounted, PlaceSound,
      PausedWhileBusy, GoesOn, Busy, Open, At, NewSession
<1>6. Elsewhere(s)
  BY <1>1 DEF IInv, TypeOK, Elsewhere
<1>7. QED
  BY <1>1, <1>4, <1>5, <1>6, SlotBySlot

LEMMA IdleSinkPreserves ==
  ASSUME IInv, NEW s \in Slots, IdleSink(s)
  PROVE  IInv'
<1>1. /\ turn' = turn /\ turn = Waiting /\ timers[s] > 0
      /\ GoodPlace(s)'
  BY DEF IdleSink, IInv, TypeOK, GoodPlace, At
<1>2. Open(s) /\ timers[s] = 1
  BY <1>1 DEF IInv, SlotSound, Accounted
<1>3. Hangup(s, sess[s].answered, timers[s] - 1)
  BY <1>2 DEF IdleSink
<1>4. /\ sess[s].answered \in BOOLEAN
      /\ timers[s] - 1 \in Nat /\ timers[s] - 1 <= 1 /\ ~(timers[s] - 1 = 1)
  BY <1>2, SlotTypes DEF IInv, SessionType
<1>5. TypeOK' /\ SlotSound(s)' /\ Elsewhere(s)
  BY <1>1, <1>3, <1>4, HangupPreserves
<1>6. QED
  BY <1>1, <1>5, SlotBySlot

-----------------------------------------------------------------------------
(* The write half of PostSelect.                                           *)
LEMMA AfterWriteIsGood ==
  ASSUME TypeOK, NEW s \in Slots, turn # Waiting, turn.slot = s,
         turn' = AfterWrite(s)
  PROVE  /\ GoodPlace(s)' /\ ThreadFor(s)'
         /\ ~At(s, "app")'
<1>1. turn \in TurnType
  BY DEF TypeOK
<1>2. \/ turn' = Waiting
      \/ turn' \in TurnType /\ turn'.step = "leftover" /\ turn'.slot = s
  BY <1>1 DEF AfterWrite, TurnType
<1>3. QED
  BY <1>2 DEF GoodPlace, ThreadFor, At

LEMMA WriteBufferPreserves ==
  ASSUME IInv, NEW s \in Slots, WriteBuffer(s)
  PROVE  IInv'
<1>1. /\ turn # Waiting /\ turn.slot = s /\ turn.step = "write" /\ turn \in TurnType
      /\ sock[s].unsent > 0 /\ Busy(s) /\ sess[s].said # "nothing"
      /\ sock[s] \in SocketType /\ sock[s].paused
  BY SlotTypes
  DEF WriteBuffer, At, IInv, TypeOK, SlotSound, PlaceSound, Accounted, PausedWhileBusy
<1>2. CASE sock[s].unsent = 1 /\ sess[s].answered
  <2>1. RequestAnswered(s, "all", 0) /\ turn' = AfterWrite(s)
    BY <1>2 DEF WriteBuffer, IInv, SlotSound, FlagsAgree
  <2>2. GoodPlace(s)' /\ ThreadFor(s)'
    BY <1>1, <2>1, AfterWriteIsGood DEF IInv
  <2>3. TypeOK' /\ SlotSound(s)' /\ Elsewhere(s)
    BY <1>1, <2>1, <2>2, RequestAnsweredPreserves
  <2>4. QED
    BY <1>1, <2>2, <2>3, SlotBySlot DEF ThreadFor
<1>3. CASE ~(sock[s].unsent = 1 /\ sess[s].answered)
  <2>1. /\ sock' = [sock EXCEPT ![s].unsent = @ - 1]
        /\ turn' = IF sock[s].unsent > 1 THEN turn
                   ELSE [turn EXCEPT !.step = "app", !.back = "sendok"]
        /\ sess' = sess /\ timers' = timers /\ peer' = peer
    BY <1>3 DEF WriteBuffer
  <2>2. /\ sock'[s].unsent = sock[s].unsent - 1 /\ sock'[s].paused
        /\ sock'[s].open = sock[s].open
        /\ sock' \in [Slots -> SocketType]
    <3>1. sock[s].unsent - 1 \in 0..MaxUnsent
      BY <1>1, HttpAssumption DEF SocketType
    <3>2. QED
      BY <1>1, <2>1, <3>1 DEF IInv, TypeOK, SocketType
  <2>3. /\ turn' \in TurnType /\ turn'.slot = s
        /\ \/ sock[s].unsent > 1 /\ turn' = turn
           \/ /\ turn'.step = "app" /\ turn'.back = "sendok"
              /\ sess[s].said = "part" /\ sock[s].unsent = 1
    <3>1. CASE sock[s].unsent > 1
      BY <1>1, <2>1, <3>1
    <3>2. CASE ~(sock[s].unsent > 1)
      <4>1. sock[s].unsent = 1
        BY <1>1, <3>2 DEF SocketType
      <4>2. sess[s].said = "part"
        BY <1>1, <1>3, <4>1, SlotTypes DEF IInv, SlotSound, FlagsAgree, SessionType
      <4>3. turn' = [turn EXCEPT !.step = "app", !.back = "sendok"]
        BY <2>1, <3>2
      <4>4. turn' \in TurnType /\ turn'.slot = s
            /\ turn'.step = "app" /\ turn'.back = "sendok"
        BY <1>1, <4>3 DEF TurnType
      <4>5. QED
        BY <4>1, <4>2, <4>4
    <3>3. QED
      BY <3>1, <3>2
  <2>4. TypeOK'
    BY <2>1, <2>2, <2>3 DEF IInv, TypeOK
  <2>5. turn' # Waiting
    BY <2>3 DEF TurnType, Waiting
  <2>6. SlotSound(s)'
    <3>1. SlotSound(s) /\ Open(s)' /\ Busy(s)'
      BY <1>1, <2>1, <2>2 DEF IInv, Busy, Open
    <3>2. /\ sock'[s].unsent > 0 => sock[s].unsent > 0
          /\ At(s, "write")' => sock'[s].unsent > 0
          /\ At(s, "app")' => turn'.back # "read"
          /\ sock'[s].unsent = 0 => At(s, "app")' /\ sess[s].said = "part"
      BY <1>1, <2>2, <2>3, <2>5 DEF At, SocketType
    <3>3. QED
      BY <1>1, <2>1, <2>2, <3>1, <3>2
      DEF SlotSound, ClosedIsClean, FlagsAgree, Accounted, PlaceSound,
          PausedWhileBusy, GoesOn, Busy, Open
  <2>7. Elsewhere(s) /\ ThreadFor(s) /\ ThreadFor(s)'
    BY <1>1, <2>1, <2>3 DEF IInv, TypeOK, Elsewhere, ThreadFor
  <2>8. QED
    BY <2>4, <2>6, <2>7, SlotBySlot
<1>4. QED
  BY <1>2, <1>3

LEMMA WriteFailsPreserves ==
  ASSUME IInv, NEW s \in Slots, WriteFails(s)
  PROVE  IInv'
<1>1. /\ turn # Waiting /\ turn.slot = s /\ turn.step = "write"
      /\ sock[s].unsent > 0 /\ Busy(s) /\ sock[s].paused
      /\ sock[s] \in SocketType /\ ~peer[s].here
  BY SlotTypes
  DEF WriteFails, At, IInv, SlotSound, PlaceSound, Accounted, PausedWhileBusy
<1>2. /\ sock' = [sock EXCEPT ![s].unsent = 0] /\ turn' = AfterWrite(s)
      /\ sess' = sess /\ timers' = timers /\ peer' = peer
  BY DEF WriteFails
<1>3. GoodPlace(s)' /\ ThreadFor(s)' /\ ~At(s, "app")'
  BY <1>1, <1>2, AfterWriteIsGood DEF IInv
<1>4. /\ sock'[s].unsent = 0 /\ sock'[s].paused /\ sock'[s].open = sock[s].open
      /\ sock' \in [Slots -> SocketType]
  <2>1. 0 \in 0..MaxUnsent
    BY HttpAssumption
  <2>2. QED
    BY <1>1, <1>2, <2>1 DEF IInv, TypeOK, SocketType
<1>5. TypeOK'
  BY <1>2, <1>3, <1>4 DEF IInv, TypeOK, GoodPlace
<1>6. SlotSound(s)'
  BY <1>1, <1>2, <1>3, <1>4
  DEF IInv, SlotSound, ClosedIsClean, FlagsAgree, Accounted, PlaceSound,
      PausedWhileBusy, GoesOn, Busy, Open, GoodPlace
<1>7. Elsewhere(s) /\ ThreadFor(s)
  BY <1>1, <1>2 DEF IInv, TypeOK, Elsewhere, ThreadFor
<1>8. QED
  BY <1>3, <1>5, <1>6, <1>7, SlotBySlot

-----------------------------------------------------------------------------
(* The read half.                                                          *)
LEMMA PeerResetPreserves ==
  ASSUME IInv, NEW s \in Slots, PeerReset(s)
  PROVE  IInv'
<1>1. /\ turn # Waiting /\ turn.slot = s /\ turn' = Waiting /\ Close(s)
  BY DEF PeerReset, At
<1>2. GoodPlace(s)' /\ ThreadFor(s) /\ ThreadFor(s)'
  BY <1>1 DEF GoodPlace, At, ThreadFor
<1>3. QED
  BY <1>1, <1>2, ClosePreserves, SlotBySlot

LEMMA ReceivePreserves ==
  ASSUME IInv, NEW s \in Slots, Receive(s)
  PROVE  IInv'
<1>1. /\ turn # Waiting /\ turn.slot = s /\ turn.step \in {"leftover", "fresh"}
      /\ turn \in TurnType
      /\ Open(s) /\ ~sock[s].paused /\ sock[s].buffer # <<>>
      /\ sock[s] \in SocketType /\ sess[s] \in SessionType
  BY SlotTypes DEF Receive, At, IInv, TypeOK
<1>2. /\ ~Busy(s) /\ sock[s].unsent = 0 /\ sess[s].owed = 0
      /\ timers[s] = IF IsIdle(s) THEN 1 ELSE 0
      /\ ~IsIdle(s) => /\ sess[s].half /\ sess[s].made /\ ~sess[s].called
                      /\ ~sess[s].answered /\ sess[s].said = "nothing"
  <2>1. SlotSound(s) /\ ~At(s, "app")
    BY <1>1 DEF IInv, At
  <2>2. ~Busy(s)
    BY <1>1, <2>1 DEF SlotSound, PausedWhileBusy
  <2>3. ~IsIdle(s) => /\ sess[s].half /\ sess[s].made /\ ~sess[s].called
                      /\ ~sess[s].answered /\ sess[s].said = "nothing"
    BY <1>1, <2>1, <2>2 DEF SlotSound, FlagsAgree, Busy, IsIdle
  <2>4. IsIdle(s) => sess[s].called \/ ~sess[s].made
    BY <1>1, <2>1, <2>2 DEF SlotSound, FlagsAgree, Busy, IsIdle
  <2>5. sock[s].unsent = 0 /\ sess[s].owed = 0
    BY <1>1, <2>1, <2>2 DEF SlotSound, Accounted, SocketType
  <2>6. timers[s] = IF IsIdle(s) THEN 1 ELSE 0
    BY <1>1, <2>1, <2>3, <2>4 DEF SlotSound, Accounted
  <2>7. QED
    BY <2>2, <2>3, <2>5, <2>6
<1>3. /\ Begun(s) \in SessionType
      /\ Begun(s).made /\ ~Begun(s).answered /\ ~Begun(s).called
      /\ Begun(s).said = "nothing" /\ Begun(s).owed = 0
  <2>1. CASE IsIdle(s)
    BY <1>1, <1>2, <2>1 DEF Begun, NewSession, SessionType
  <2>2. CASE ~IsIdle(s)
    BY <1>1, <1>2, <2>2 DEF Begun
  <2>3. QED
    BY <2>1, <2>2
<1>4. /\ sock' = [sock EXCEPT ![s].buffer = Tail(@)]
      /\ timers' = [timers EXCEPT ![s] = IF IsIdle(s) THEN Removed(@) ELSE @]
      /\ peer' = peer
  BY DEF Receive
<1>5. /\ sock' \in [Slots -> SocketType]
      /\ sock'[s].open /\ sock'[s].unsent = 0
      /\ timers' \in [Slots -> Nat] /\ timers'[s] = 0
  <2>1. Tail(sock[s].buffer) \in Seq(Messages)
    BY <1>1 DEF SocketType
  <2>2. sock' \in [Slots -> SocketType] /\ sock'[s].open /\ sock'[s].unsent = 0
    BY <1>1, <1>2, <1>4, <2>1 DEF IInv, TypeOK, SocketType, Open
  <2>3. timers' \in [Slots -> Nat] /\ timers'[s] = 0
    BY <1>2, <1>4 DEF IInv, TypeOK, Removed
  <2>4. QED
    BY <2>2, <2>3
<1>6. CASE Head(sock[s].buffer) = "head"
  <2>1. /\ sess' = [sess EXCEPT ![s] = [Begun(s) EXCEPT !.half = TRUE]]
        /\ turn' = turn
    BY <1>6 DEF Receive
  <2>2. sess' \in [Slots -> SessionType] /\ sess'[s] = [Begun(s) EXCEPT !.half = TRUE]
    BY <1>3, <2>1 DEF IInv, TypeOK, SessionType
  <2>3. /\ sess'[s].made /\ sess'[s].half /\ ~sess'[s].answered /\ ~sess'[s].called
        /\ sess'[s].said = "nothing" /\ sess'[s].owed = 0
    BY <1>3, <2>2 DEF SessionType
  <2>4. TypeOK'
    BY <1>4, <1>5, <2>1, <2>2 DEF IInv, TypeOK
  <2>5. ~At(s, "write")' /\ ~At(s, "app")'
    BY <1>1, <2>1 DEF At
  <2>6. SlotSound(s)'
    BY <1>5, <2>3, <2>5
    DEF SlotSound, ClosedIsClean, FlagsAgree, Accounted, PlaceSound,
        PausedWhileBusy, GoesOn, Busy, Open
  <2>7. Elsewhere(s)
    BY <1>4, <2>1 DEF IInv, TypeOK, Elsewhere
  <2>8. QED
    BY <2>1, <2>4, <2>6, <2>7, SlotBySlot
<1>7. CASE Head(sock[s].buffer) # "head"
  <2>1. /\ sess' = [sess EXCEPT ![s] = [Begun(s) EXCEPT !.half = FALSE, !.owed = @ + 1]]
        /\ turn' = [turn EXCEPT !.step = "app", !.back = turn.step]
    BY <1>7 DEF Receive
  <2>2. /\ sess' \in [Slots -> SessionType]
        /\ sess'[s] = [Begun(s) EXCEPT !.half = FALSE, !.owed = @ + 1]
    <3>1. Begun(s).owed + 1 \in Nat
      BY <1>3
    <3>2. [Begun(s) EXCEPT !.half = FALSE, !.owed = @ + 1] \in SessionType
      BY <1>3, <3>1 DEF SessionType
    <3>3. QED
      BY <2>1, <3>2 DEF IInv, TypeOK
  <2>3. /\ sess'[s].made /\ ~sess'[s].half /\ ~sess'[s].answered /\ ~sess'[s].called
        /\ sess'[s].said = "nothing" /\ sess'[s].owed = 1
    BY <1>3, <2>2 DEF SessionType
  <2>4. /\ turn' \in TurnType /\ turn'.step = "app" /\ turn'.slot = s
        /\ turn'.back \in {"leftover", "fresh"}
    BY <1>1, <2>1 DEF TurnType
  <2>5. TypeOK'
    BY <1>4, <1>5, <2>2, <2>4 DEF IInv, TypeOK
  <2>6. turn' # Waiting
    BY <2>4 DEF TurnType, Waiting
  <2>7. ~At(s, "write")' /\ At(s, "app")'
    BY <2>4, <2>6 DEF At
  <2>8. SlotSound(s)'
    BY <1>5, <2>3, <2>4, <2>7
    DEF SlotSound, ClosedIsClean, FlagsAgree, Accounted, PlaceSound,
        PausedWhileBusy, GoesOn, Busy, Open
  <2>9. Elsewhere(s) /\ ThreadFor(s) /\ ThreadFor(s)'
    BY <1>1, <1>4, <2>1, <2>4 DEF IInv, TypeOK, Elsewhere, ThreadFor
  <2>10. QED
    BY <2>5, <2>8, <2>9, SlotBySlot
<1>8. QED
  BY <1>6, <1>7

LEMMA RecvPreserves ==
  ASSUME IInv, NEW s \in Slots, Recv(s)
  PROVE  IInv'
<1>1. /\ turn # Waiting /\ turn.slot = s /\ turn.step = "leftover" /\ turn \in TurnType
      /\ sock[s] \in SocketType /\ peer[s] \in PeerType
  BY SlotTypes DEF Recv, At, IInv, TypeOK
<1>2. CASE peer[s].inbound = <<>>
  <2>1. Close(s) /\ turn' = Waiting
    BY <1>2 DEF Recv
  <2>2. GoodPlace(s)' /\ ThreadFor(s) /\ ThreadFor(s)'
    BY <1>1, <2>1 DEF GoodPlace, At, ThreadFor
  <2>3. QED
    BY <2>1, <2>2, ClosePreserves, SlotBySlot
<1>3. CASE peer[s].inbound # <<>>
  <2>1. /\ sock' = [sock EXCEPT ![s].buffer = peer[s].inbound]
        /\ peer' = [peer EXCEPT ![s].inbound = <<>>]
        /\ turn' = [turn EXCEPT !.step = "fresh"]
        /\ sess' = sess /\ timers' = timers
    BY <1>3 DEF Recv
  <2>2. /\ sock' \in [Slots -> SocketType]
        /\ sock'[s].open = sock[s].open /\ sock'[s].unsent = sock[s].unsent
        /\ sock'[s].paused = sock[s].paused
    BY <1>1, <2>1 DEF IInv, TypeOK, SocketType, PeerType
  <2>3. peer' \in [Slots -> PeerType] /\ peer'[s].here = peer[s].here
    <3>1. <<>> \in Seq(Messages)
      OBVIOUS
    <3>2. QED
      BY <1>1, <2>1, <3>1 DEF IInv, TypeOK, PeerType
  <2>4. turn' \in TurnType /\ turn'.step = "fresh" /\ turn'.slot = s
    BY <1>1, <2>1 DEF TurnType
  <2>5. TypeOK'
    BY <2>1, <2>2, <2>3, <2>4 DEF IInv, TypeOK
  <2>6. ~At(s, "app") /\ ~At(s, "app")' /\ ~At(s, "write")'
    BY <1>1, <2>4 DEF At
  <2>7. SlotSound(s)'
    BY <2>1, <2>2, <2>3, <2>6
    DEF IInv, SlotSound, ClosedIsClean, FlagsAgree, Accounted, PlaceSound,
        PausedWhileBusy, GoesOn, Busy, Open
  <2>8. Elsewhere(s) /\ ThreadFor(s) /\ ThreadFor(s)'
    BY <1>1, <2>1, <2>4 DEF IInv, TypeOK, Elsewhere, ThreadFor
  <2>9. QED
    BY <2>5, <2>7, <2>8, SlotBySlot
<1>4. QED
  BY <1>2, <1>3

LEMMA TurnDonePreserves ==
  ASSUME IInv, NEW s \in Slots, TurnDone(s)
  PROVE  IInv'
<1>1. /\ turn # Waiting /\ turn.slot = s /\ turn.step \in {"leftover", "fresh"}
      /\ turn' = Waiting
      /\ sock' = sock /\ sess' = sess /\ timers' = timers /\ peer' = peer
  BY DEF TurnDone, At
<1>2. TypeOK'
  BY <1>1 DEF IInv, TypeOK
<1>3. /\ ~At(s, "app") /\ ~At(s, "app")' /\ ~At(s, "write")'
  BY <1>1 DEF At
<1>4. SlotSound(s)'
  BY <1>1, <1>3
  DEF IInv, SlotSound, ClosedIsClean, FlagsAgree, Accounted, PlaceSound,
      PausedWhileBusy, GoesOn, Busy, Open
<1>5. Elsewhere(s) /\ ThreadFor(s) /\ ThreadFor(s)'
  BY <1>1 DEF Elsewhere, ThreadFor
<1>6. QED
  BY <1>2, <1>4, <1>5, SlotBySlot

-----------------------------------------------------------------------------
(* The application.                                                        *)
LEMMA AppAnswers ==
  ASSUME IInv, NEW s \in Slots, Answering(s)
  PROVE  /\ Busy(s) /\ turn # Waiting /\ turn.slot = s /\ turn.step = "app"
         /\ GoodPlace(s) /\ ThreadFor(s)
         /\ ~sess[s].answered /\ sess[s].said # "all" /\ timers[s] = 0
BY DEF Answering, IInv, TypeOK, SlotSound, FlagsAgree, Accounted, PlaceSound,
       Busy, At, GoodPlace, ThreadFor

LEMMA SendPreserves ==
  ASSUME IInv, NEW s \in Slots, NEW done \in BOOLEAN, Send(s, done)
  PROVE  IInv'
<1> DEFINE said == IF done THEN "all" ELSE "part"
<1>1. Answering(s) /\ turn' = turn
  BY DEF Send
<1>2. /\ Busy(s) /\ turn # Waiting /\ turn.slot = s /\ turn.step = "app"
      /\ GoodPlace(s) /\ GoodPlace(s)' /\ ~sess[s].answered /\ timers[s] = 0
      /\ sock[s] \in SocketType /\ sess[s] \in SessionType
  BY <1>1, AppAnswers, SlotTypes DEF IInv, GoodPlace, At
<1>3. CASE done /\ sock[s].unsent = 0 /\ RequestAnswered(s, "all", 0)
  BY <1>1, <1>2, <1>3, RequestAnsweredPreserves, SlotBySlot
<1>4. CASE sock[s].unsent = 0 /\ ~peer[s].here /\ Hangup(s, done, timers[s])
  <2>1. timers[s] \in Nat /\ timers[s] <= 1 /\ ~(timers[s] = 1)
    BY <1>2
  <2>2. TypeOK' /\ SlotSound(s)' /\ Elsewhere(s)
    BY <1>2, <1>4, <2>1, HangupPreserves
  <2>3. QED
    BY <1>1, <2>2, SlotBySlot
<1>5. ASSUME /\ sess' = [sess EXCEPT ![s].answered = done, ![s].said = said]
             /\ timers' = timers /\ peer' = peer
             /\ sock' \in [Slots -> SocketType]
             /\ \A r \in Slots \ {s} : sock'[r] = sock[r]
             /\ sock'[s].open = sock[s].open /\ sock'[s].paused = sock[s].paused
             /\ sock'[s].unsent = 0 => ~done
      PROVE  IInv'
  <2>1. /\ said \in {"all", "part"} /\ (said = "all" <=> done)
    OBVIOUS
  <2>2. /\ sess' \in [Slots -> SessionType]
        /\ sess'[s].answered = done /\ sess'[s].said = said
        /\ sess'[s].made = sess[s].made /\ sess'[s].called = sess[s].called
        /\ sess'[s].half = sess[s].half /\ sess'[s].owed = sess[s].owed
    <3> HIDE DEF said
    <3>1. QED
      BY <1>2, <1>5, <2>1 DEF IInv, TypeOK, SessionType
  <2>3. TypeOK'
    BY <1>1, <1>5, <2>2 DEF IInv, TypeOK
  <2>4. SlotSound(s) /\ At(s, "app") /\ At(s, "app")'
    BY <1>1, <1>2 DEF IInv, At
  <2>5. SlotSound(s)'
    <3> HIDE DEF said
    <3>1. /\ Busy(s)' /\ Open(s)' /\ ClosedIsClean(s)'
      BY <1>2, <1>5, <2>2 DEF Busy, Open, ClosedIsClean
    <3>2. FlagsAgree(s)'
      BY <1>2, <2>1, <2>2 DEF FlagsAgree, Busy
    <3>3. Accounted(s)'
      BY <1>2, <1>5, <2>1, <2>2, <2>4, <3>1 DEF Accounted, SlotSound, Busy
    <3>4. PlaceSound(s)' /\ PausedWhileBusy(s)'
      BY <1>1, <1>2, <1>5, <2>2, <2>4, <3>1
      DEF PlaceSound, PausedWhileBusy, SlotSound, Busy, At
    <3>5. GoesOn(s)'
      BY <1>5, <2>1, <2>2, <2>4 DEF GoesOn
    <3>6. QED
      BY <3>1, <3>2, <3>3, <3>4, <3>5 DEF SlotSound
  <2>6. Elsewhere(s)
    BY <1>5 DEF IInv, TypeOK, Elsewhere
  <2>7. QED
    BY <1>1, <2>3, <2>5, <2>6, SlotBySlot
<1>6. CASE /\ ~done /\ sess' = [sess EXCEPT ![s].answered = FALSE, ![s].said = said]
           /\ UNCHANGED <<sock, timers, peer>>
  BY <1>5, <1>6 DEF IInv, TypeOK
<1>7. CASE /\ sock[s].unsent < MaxUnsent
           /\ sock' = [sock EXCEPT ![s].unsent = @ + 1]
           /\ sess' = [sess EXCEPT ![s].answered = done, ![s].said = said]
           /\ UNCHANGED <<timers, peer>>
  <2>1. sock[s].unsent + 1 \in 0..MaxUnsent /\ sock[s].unsent + 1 # 0
    BY <1>2, <1>7, HttpAssumption DEF SocketType
  <2>2. /\ sock' \in [Slots -> SocketType]
        /\ sock'[s].open = sock[s].open /\ sock'[s].paused = sock[s].paused
        /\ sock'[s].unsent = sock[s].unsent + 1
        /\ \A r \in Slots \ {s} : sock'[r] = sock[r]
    BY <1>2, <1>7, <2>1 DEF IInv, TypeOK, SocketType
  <2>3. sock'[s].unsent # 0
    BY <2>1, <2>2
  <2>4. QED
    BY <1>5, <1>7, <2>2, <2>3
<1>8. QED
  BY <1>3, <1>4, <1>6, <1>7 DEF Send

LEMMA EndStreamPreserves ==
  ASSUME IInv, NEW s \in Slots, EndStream(s)
  PROVE  IInv'
<1>1. Answering(s) /\ Close(s) /\ turn' = turn
  BY DEF EndStream
<1>2. GoodPlace(s)'
  BY <1>1, AppAnswers DEF GoodPlace, At
<1>3. QED
  BY <1>1, <1>2, ClosePreserves, SlotBySlot

LEMMA AppReturnsPreserves ==
  ASSUME IInv, NEW s \in Slots, AppReturns(s)
  PROVE  IInv'
<1>1. /\ turn # Waiting /\ turn.slot = s /\ turn.step = "app" /\ turn \in TurnType
      /\ turn.back # "read" /\ At(s, "app") /\ SlotSound(s)
      /\ sock[s] \in SocketType /\ sess[s] \in SessionType
  BY SlotTypes DEF AppReturns, At, IInv, TypeOK, SlotSound, PlaceSound
<1>2. /\ sess' = sess /\ timers' = timers /\ peer' = peer
      /\ turn' = AfterApp(s)
      /\ ~Open(s) \/ sess[s].said # "part" \/ sock[s].unsent > 0
  BY DEF AppReturns
<1>3. /\ sock' \in [Slots -> SocketType]
      /\ \A r \in Slots \ {s} : sock'[r] = sock[r]
      /\ sock'[s].open = sock[s].open /\ sock'[s].unsent = sock[s].unsent
      /\ sock[s].paused => sock'[s].paused
      /\ turn.back # "sendok" /\ Open(s) /\ ~sess[s].called => sock'[s].paused
  <2>1. CASE turn.back # "sendok" /\ Open(s) /\ ~sess[s].called
    <3>1. sock' = [sock EXCEPT ![s].paused = TRUE]
      BY <2>1 DEF AppReturns
    <3>2. QED
      BY <1>1, <3>1 DEF IInv, TypeOK, SocketType
  <2>2. CASE ~(turn.back # "sendok" /\ Open(s) /\ ~sess[s].called)
    <3>1. sock' = sock
      BY <2>2 DEF AppReturns
    <3>2. QED
      BY <2>2, <3>1 DEF IInv, TypeOK
  <2>3. QED
    BY <2>1, <2>2
<1>4. GoodPlace(s)' /\ ThreadFor(s)' /\ ~At(s, "app")'
  <2>1. CASE turn.back = "sendok"
    BY <1>1, <1>2, <2>1, AfterWriteIsGood DEF AfterApp, IInv
  <2>2. CASE turn.back # "sendok"
    <3>1. turn.back \in {"leftover", "fresh"}
      BY <1>1, <2>2 DEF TurnType
    <3>2. turn' = [turn EXCEPT !.step = turn.back, !.back = "read"]
      BY <1>2, <2>2 DEF AfterApp
    <3>3. turn' \in TurnType /\ turn'.step \in {"leftover", "fresh"} /\ turn'.slot = s
      BY <1>1, <3>1, <3>2 DEF TurnType
    <3>4. QED
      BY <3>3 DEF GoodPlace, ThreadFor, At
  <2>3. QED
    BY <2>1, <2>2
<1>5. TypeOK'
  BY <1>2, <1>3, <1>4 DEF IInv, TypeOK, GoodPlace
<1>6. SlotSound(s)'
  <2>1. /\ ClosedIsClean(s)' /\ FlagsAgree(s)' /\ Accounted(s)' /\ PlaceSound(s)'
    BY <1>1, <1>2, <1>3, <1>4
    DEF SlotSound, ClosedIsClean, FlagsAgree, Accounted, PlaceSound, Busy, Open,
        GoodPlace
  <2>2. PausedWhileBusy(s)'
    BY <1>1, <1>2, <1>3 DEF SlotSound, PausedWhileBusy, Busy, Open
  <2>3. GoesOn(s)'
    BY <1>1, <1>2, <1>3 DEF SlotSound, GoesOn, Busy, Open, SocketType
  <2>4. QED
    BY <2>1, <2>2, <2>3 DEF SlotSound
<1>7. Elsewhere(s) /\ ThreadFor(s)
  BY <1>1, <1>2, <1>3 DEF Elsewhere, ThreadFor
<1>8. QED
  BY <1>4, <1>5, <1>6, <1>7, SlotBySlot

-----------------------------------------------------------------------------
LEMMA StepPreserves == IInv /\ [Next]_vars => IInv'
<1> SUFFICES ASSUME IInv, [Next]_vars PROVE IInv'
  OBVIOUS
<1>1. ASSUME NEW s \in Slots, Client(s) PROVE IInv'
  BY <1>1, ClientPreserves
<1>2. ASSUME NEW s \in Slots, Accept(s) PROVE IInv'
  BY <1>2, AcceptPreserves
<1>3. ASSUME NEW s \in Slots, IdleSink(s) PROVE IInv'
  BY <1>3, IdleSinkPreserves
<1>4. ASSUME NEW s \in Slots, Turn(s) PROVE IInv'
  BY <1>4, TurnPreserves
<1>5. ASSUME NEW s \in Slots, Thread(s) PROVE IInv'
  <2>1. CASE WriteBuffer(s)
    BY <2>1, WriteBufferPreserves
  <2>2. CASE WriteFails(s)
    BY <2>2, WriteFailsPreserves
  <2>3. CASE PeerReset(s)
    BY <2>3, PeerResetPreserves
  <2>4. CASE Receive(s)
    BY <2>4, ReceivePreserves
  <2>5. CASE Recv(s)
    BY <2>5, RecvPreserves
  <2>6. CASE TurnDone(s)
    BY <2>6, TurnDonePreserves
  <2>7. CASE SendMore(s)
    BY <2>7, SendPreserves DEF SendMore
  <2>8. CASE SendLast(s)
    BY <2>8, SendPreserves DEF SendLast
  <2>9. CASE EndStream(s)
    BY <2>9, EndStreamPreserves
  <2>10. CASE AppReturns(s)
    BY <2>10, AppReturnsPreserves
  <2>11. QED
    BY <1>5, <2>1, <2>2, <2>3, <2>4, <2>5, <2>6, <2>7, <2>8, <2>9, <2>10 DEF Thread
<1>6. CASE UNCHANGED vars
  BY <1>6
  DEF vars, IInv, TypeOK, SlotSound, ClosedIsClean, FlagsAgree, Accounted,
      PlaceSound, PausedWhileBusy, GoesOn, Busy, Open, At
<1>7. QED
  BY <1>1, <1>2, <1>3, <1>4, <1>5, <1>6 DEF Next

(* The account of every slot is right in every state.                      *)
THEOREM SlotsStaySound == Spec => []IInv
<1>1. QED
  BY InitEstablishes, StepPreserves, PTL DEF Spec

(* Whatever clients do, no counter leaves its range: no timer is counted   *)
(* below zero, and no more than MaxUnsent buffers wait.                    *)
THEOREM SessionTypes == Spec => []TypeOK
<1>1. IInv => TypeOK
  BY DEF IInv
<1>2. QED
  BY <1>1, SlotsStaySound, PTL

(* Requests that are pipelined are answered one at a time: the reader that *)
(* ILibWebServer_OnResponse pauses is resumed by the answer only.          *)
THEOREM AnswersOneAtATime == Spec => []OneAnswerAtATime
<1>1. IInv => OneAnswerAtATime
  <2>1. ASSUME IInv, NEW s \in Slots
        PROVE  /\ sess[s].owed <= 1
               /\ sess[s].called => sess[s].owed = 0 /\ sock[s].unsent = 0
    <3>1. Accounted(s) /\ sock[s] \in SocketType
      BY <2>1, SlotTypes DEF IInv, SlotSound
    <3>2. QED
      BY <3>1 DEF Accounted, Busy, SocketType
  <2>2. QED
    BY <2>1 DEF OneAnswerAtATime
<1>2. QED
  BY <1>1, SlotsStaySound, PTL

(* ILibWebServer.c sets and removes the idle timer of a session in five    *)
(* places, each under its own condition: together they keep one timer for  *)
(* each idle session and none for any other.                               *)
THEOREM IdleSessionsAreTimed == Spec => []TimedIffIdle
<1>1. IInv => TimedIffIdle
  <2>1. ASSUME IInv, NEW s \in Slots
        PROVE  timers[s] = IF Open(s) /\ sess[s].owed = 0 /\ ~sess[s].half
                           THEN 1 ELSE 0
    <3>1. FlagsAgree(s) /\ Accounted(s)
      BY <2>1 DEF IInv, SlotSound
    <3>2. QED
      BY <3>1 DEF FlagsAgree, Accounted, Busy
  <2>2. QED
    BY <2>1 DEF TimedIffIdle
<1>2. QED
  BY <1>1, SlotsStaySound, PTL

(* ILibAsyncSocket_UseThisSocket need not clear the list of unsent buffers *)
(* for the next client: all four ways to close a socket have.              *)
THEOREM FreeSocketsStayEmpty == Spec => []FreeSocketsAreEmpty
<1>1. IInv => FreeSocketsAreEmpty
  BY DEF IInv, SlotSound, ClosedIsClean, FreeSocketsAreEmpty
<1>2. QED
  BY <1>1, SlotsStaySound, PTL

(* A session is stranded only if the application gave no answer or a send  *)
(* failed in the write loop: a client that stays and reads is served.      *)
THEOREM StrandedForTwoReasons == Spec => []StrandedOnlyIf
<1>1. IInv => StrandedOnlyIf
  <2>1. ASSUME IInv, NEW s \in Slots, Stranded(s), sess[s].said # "nothing"
        PROVE  ~peer[s].here
    <3>1. /\ FlagsAgree(s) /\ Accounted(s) /\ GoesOn(s) /\ ~At(s, "app")
      BY <2>1 DEF IInv, SlotSound, Stranded, At
    <3>2. Busy(s) /\ sock[s].unsent = 0
      BY <2>1, <3>1 DEF Stranded, Accounted, FlagsAgree, Busy
    <3>3. QED
      BY <2>1, <3>1, <3>2 DEF GoesOn
  <2>2. QED
    BY <2>1 DEF StrandedOnlyIf
<1>2. QED
  BY <1>1, SlotsStaySound, PTL
=============================================================================
