---------------------------- MODULE Backpressure ----------------------------
(***************************************************************************)
(* The stream backpressure interceptor of internal/stream/backpressure.go. *)
(*                                                                         *)
(* Every stream has one sender at a time (sendLock), so a stream stands    *)
(* for its sender.  SendMsg reads the load of its method, decides, and     *)
(* counts the message only then; each of these is a critical section of    *)
(* its own.  Server and client streams run the same SendMsg; only server   *)
(* streams are counted in activeStreams.                                   *)
(***************************************************************************)
EXTENDS Integers, FiniteSets

CONSTANTS
    Servers, Clients,       \* server and client streams, opened at most once each
    Methods, Method,        \* full method names, and the one of each stream
    MaxBufferSize, HighWatermarkPct,    \* options (the mark in percent)
    BlockOptions            \* the values the option BlockOnFull may have

Streams == Servers \cup Clients

ASSUME BackpressureAssumption ==
    /\ IsFiniteSet(Streams) /\ Servers \cap Clients = {}
    /\ Method \in [Streams -> Methods]
    /\ MaxBufferSize \in Nat /\ HighWatermarkPct \in 0 .. 100
    /\ BlockOptions \subseteq BOOLEAN

VARIABLES
    BlockOnFull,        \* the option, which never changes
    currentLoads,       \* per method; 0 when the map has no entry
    activeStreams,      \* per method; 0 when the map has no entry
    at,                 \* where each stream's sender is
    currentLoad         \* the load each sender has read last

bpVars == <<BlockOnFull, currentLoads, activeStreams, at, currentLoad>>

(* A load is negative only by client streams whose count was removed. *)
LoadRange(m) ==
    -Cardinality({s \in Clients : Method[s] = m}) .. Cardinality({s \in Streams : Method[s] = m})

BackpressureTypeOK ==
    /\ BlockOnFull \in BlockOptions
    /\ DOMAIN currentLoads = Methods
    /\ \A m \in Methods : currentLoads[m] \in LoadRange(m)
    /\ activeStreams \in [Methods -> Nat]
    /\ at \in [Streams -> {"new", "idle", "blocked", "admitted", "sending", "ended"}]
    /\ DOMAIN currentLoad = Streams
    /\ \A s \in Streams : currentLoad[s] \in LoadRange(Method[s])

BackpressureInit ==
    /\ BlockOnFull \in BlockOptions
    /\ currentLoads = [m \in Methods |-> 0]
    /\ activeStreams = [m \in Methods |-> 0]
    /\ at = [s \in Streams |-> "new"]
    /\ currentLoad = [s \in Streams |-> 0]

HighWatermark == (MaxBufferSize * HighWatermarkPct) \div 100

Load(s) == currentLoads[Method[s]]
Goto(s, place) == at' = [at EXCEPT ![s] = place]

-----------------------------------------------------------------------------
(* StreamServerInterceptor and StreamClientInterceptor *)
OpenServer(s) ==
    /\ s \in Servers /\ at[s] = "new"
    /\ activeStreams' = [activeStreams EXCEPT ![Method[s]] = @ + 1]
    /\ Goto(s, "idle")
    /\ UNCHANGED <<currentLoads, currentLoad>>

OpenClient(s) ==
    /\ s \in Clients /\ at[s] = "new"
    /\ Goto(s, "idle")
    /\ UNCHANGED <<currentLoads, activeStreams, currentLoad>>

LastStream(m) == activeStreams[m] - 1 <= 0

(* The handler has returned; the last stream of a method removes both      *)
(* entries of the method.                                                  *)
EndServer(s) ==
    LET m == Method[s] IN
    /\ s \in Servers /\ at[s] = "idle"
    /\ activeStreams' = [activeStreams EXCEPT ![m] = IF LastStream(m) THEN 0 ELSE @ - 1]
    /\ currentLoads' = [currentLoads EXCEPT ![m] = IF LastStream(m) THEN 0 ELSE @]
    /\ Goto(s, "ended")
    /\ UNCHANGED currentLoad

-----------------------------------------------------------------------------
(* SendMsg(m) *)
Decision(load) ==       \* between the marks the message is at most delayed
    IF load < HighWatermark \/ load < MaxBufferSize THEN "admitted"
    ELSE IF BlockOnFull THEN "blocked" ELSE "idle"

SendMsg(s) ==
    /\ at[s] = "idle"
    /\ currentLoad' = [currentLoad EXCEPT ![s] = Load(s)]
    /\ Goto(s, Decision(Load(s)))
    /\ UNCHANGED <<currentLoads, activeStreams>>

(* The break after a low reading leaves the select, not the loop. *)
Poll(s) ==
    /\ at[s] = "blocked"
    /\ currentLoad' = [currentLoad EXCEPT ![s] = Load(s)]
    /\ UNCHANGED <<currentLoads, activeStreams, at>>

Timeout(s) ==
    /\ at[s] = "blocked"
    /\ Goto(s, "idle")
    /\ UNCHANGED <<currentLoads, activeStreams, currentLoad>>

CountMessage(s) ==
    /\ at[s] = "admitted"
    /\ currentLoads' = [currentLoads EXCEPT ![Method[s]] = @ + 1]
    /\ Goto(s, "sending")
    /\ UNCHANGED <<activeStreams, currentLoad>>

(* Mutant of MessageSent: a message that could not be sent stays counted. *)
MessageSentKeeps(s) ==
    /\ at[s] = "sending"
    /\ \E err \in BOOLEAN :
         currentLoads' = [currentLoads EXCEPT ![Method[s]] = IF err THEN @ ELSE @ - 1]
    /\ Goto(s, "idle")
    /\ UNCHANGED <<activeStreams, currentLoad>>

(* The wrapped stream's SendMsg has returned, with an error or not. *)
MessageSent(s) ==
    /\ at[s] = "sending"
    /\ currentLoads' = [currentLoads EXCEPT ![Method[s]] = @ - 1]
    /\ Goto(s, "idle")
    /\ UNCHANGED <<activeStreams, currentLoad>>

-----------------------------------------------------------------------------
Sender(s) == SendMsg(s) \/ Poll(s) \/ Timeout(s) \/ CountMessage(s) \/ MessageSent(s)

BackpressureNext ==
    /\ \E s \in Streams : OpenServer(s) \/ OpenClient(s) \/ EndServer(s) \/ Sender(s)
    /\ UNCHANGED BlockOnFull

BackpressureSpec == BackpressureInit /\ [][BackpressureNext]_bpVars

(* The wait ends with its timeout, an admitted message is counted and the  *)
(* wrapped stream's SendMsg returns.                                       *)
BackpressureFairSpec ==
    BackpressureSpec /\ \A s \in Streams :
              /\ WF_bpVars(Timeout(s) /\ UNCHANGED BlockOnFull)
              /\ WF_bpVars(CountMessage(s) /\ UNCHANGED BlockOnFull)
              /\ WF_bpVars(MessageSent(s) /\ UNCHANGED BlockOnFull)

-----------------------------------------------------------------------------
(* Properties *)

Sending(m) == {s \in Streams : at[s] = "sending" /\ Method[s] = m}

Shared(m) == \E s \in Servers, t \in Clients : Method[s] = m /\ Method[t] = m

(* currentLoads is the number of messages being sent on a method, over     *)
(* failed sends and the removal of a method's entries.  On a method that   *)
(* server and client streams of one interceptor share, the end of the last *)
(* server stream removes the count of clients that are sending, and the *)
(* load is too low from then on, never too high.                           *)
LoadExact ==
    \A m \in Methods :
      /\ currentLoads[m] <= Cardinality(Sending(m))
      /\ ~Shared(m) => currentLoads[m] = Cardinality(Sending(m))

(* activeStreams is the number of open server streams of a method.         *)
ActiveExact ==
    \A m \in Methods :
      activeStreams[m] = Cardinality({s \in Servers : at[s] \notin {"new", "ended"}
                                                      /\ Method[s] = m})

(* SendMsg returns, full buffer or not.                                    *)
SendReturns ==
    \A s \in Streams : (at[s] \in {"blocked", "admitted"}) ~> (at[s] = "idle")

(* Loads and open streams are counted exactly over every way a stream can  *)
(* end, time out or be refused; a load is only too small where the last    *)
(* server stream took the entry of a client stream away (SendMsg, the      *)
(* interceptors).                                                          *)
StreamsCounted == BackpressureTypeOK /\ LoadExact /\ ActiveExact
=============================================================================
