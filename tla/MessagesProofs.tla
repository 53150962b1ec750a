--------------------------- MODULE MessagesProofs ---------------------------
(***************************************************************************)
(* Proofs about messages: that the backpressure interceptor counts the     *)
(* open streams and the messages that are being sent (Backpressure), and   *)
(* that the adaptive batcher loses no request, answers none twice and      *)
(* counts its batches (AdaptiveBatcher).                                   *)
(***************************************************************************)
EXTENDS Backpressure, AdaptiveBatcher, FiniteSetTheorems, TLAPS

-----------------------------------------------------------------------------
(* SendMsg and the interceptors *)

(* The streams that are sending and the server streams that are open, when *)
(* the senders are where f says.                                           *)
Busy(f, m) == {s \in Streams : f[s] = "sending" /\ Method[s] = m}
Open(f, m) == {s \in Servers : f[s] \notin {"new", "ended"} /\ Method[s] = m}
ClientsOf(m) == {s \in Clients : Method[s] = m}
StreamsOf(m) == {s \in Streams : Method[s] = m}

Places == {"new", "idle", "blocked", "admitted", "sending", "ended"}

BackType ==
    /\ BlockOnFull \in BlockOptions
    /\ currentLoads \in [Methods -> Int] /\ activeStreams \in [Methods -> Nat]
    /\ at \in [Streams -> Places]
    /\ currentLoad \in [Streams -> Int] /\ \A s \in Streams : currentLoad[s] \in LoadRange(Method[s])

(* A load is too small by at most the clients whose entry the last server  *)
(* stream took away while they were sending, and never too large.          *)
LoadClose ==
    \A m \in Methods :
        /\ currentLoads[m] <= Cardinality(Busy(at, m))
        /\ Cardinality(Busy(at, m)) - currentLoads[m] <= Cardinality(ClientsOf(m))
        /\ ~Shared(m) => currentLoads[m] = Cardinality(Busy(at, m))

OpenCounted == \A m \in Methods : activeStreams[m] = Cardinality(Open(at, m))

BackInv == BackType /\ LoadClose /\ OpenCounted

-----------------------------------------------------------------------------
(* The sets that are counted are finite, and their sizes are bounded by    *)
(* the streams of the method.                                              *)
LEMMA Finite ==
    ASSUME NEW f, NEW m
    PROVE  /\ IsFiniteSet(Busy(f, m)) /\ IsFiniteSet(Open(f, m))
           /\ IsFiniteSet(ClientsOf(m)) /\ IsFiniteSet(StreamsOf(m))
           /\ Cardinality(Busy(f, m)) \in Nat /\ Cardinality(Open(f, m)) \in Nat
           /\ Cardinality(ClientsOf(m)) \in Nat /\ Cardinality(StreamsOf(m)) \in Nat
           /\ Cardinality(Busy(f, m)) <= Cardinality(StreamsOf(m))
<1>1. IsFiniteSet(Streams)
  BY BackpressureAssumption
<1>2. /\ Busy(f, m) \subseteq StreamsOf(m) /\ StreamsOf(m) \subseteq Streams
      /\ Open(f, m) \subseteq Streams /\ ClientsOf(m) \subseteq Streams
  BY DEF Busy, Open, ClientsOf, StreamsOf, Streams
<1>3. IsFiniteSet(StreamsOf(m)) /\ IsFiniteSet(Open(f, m)) /\ IsFiniteSet(ClientsOf(m))
  BY <1>1, <1>2, FS_Subset
<1>4. IsFiniteSet(Busy(f, m)) /\ Cardinality(Busy(f, m)) <= Cardinality(StreamsOf(m))
  BY <1>2, <1>3, FS_Subset
<1> QED
  BY <1>3, <1>4, FS_CardinalityType

(* What the stream that moves does to the messages of its own method that  *)
(* are being sent: one more, one less, or nothing.                         *)
LEMMA BusyMoves ==
    ASSUME NEW f \in [Streams -> Places], NEW g \in [Streams -> Places], NEW s \in Streams, NEW m, m = Method[s],
           \A t \in Streams : t # s => g[t] = f[t]
    PROVE  /\ (f[s] = "sending" <=> g[s] = "sending") => Busy(g, m) = Busy(f, m)
           /\ f[s] # "sending" /\ g[s] = "sending" => Cardinality(Busy(g, m)) = Cardinality(Busy(f, m)) + 1
           /\ f[s] = "sending" /\ g[s] # "sending" => Cardinality(Busy(g, m)) = Cardinality(Busy(f, m)) - 1
<1>1. ASSUME f[s] = "sending" <=> g[s] = "sending" PROVE Busy(g, m) = Busy(f, m)
  BY <1>1 DEF Busy
<1>2. ASSUME f[s] # "sending", g[s] = "sending" PROVE Cardinality(Busy(g, m)) = Cardinality(Busy(f, m)) + 1
  <2>1. Busy(g, m) = Busy(f, m) \cup {s} /\ s \notin Busy(f, m)
    BY <1>2 DEF Busy
  <2>2. IsFiniteSet(Busy(f, m))
    BY Finite
  <2> QED
    BY <2>1, <2>2, FS_AddElement
<1>3. ASSUME f[s] = "sending", g[s] # "sending" PROVE Cardinality(Busy(g, m)) = Cardinality(Busy(f, m)) - 1
  <2>1. Busy(g, m) = Busy(f, m) \ {s} /\ s \in Busy(f, m)
    BY <1>3 DEF Busy
  <2>2. IsFiniteSet(Busy(f, m))
    BY Finite
  <2> QED
    BY <2>1, <2>2, FS_RemoveElement
<1> QED
  BY <1>1, <1>2, <1>3

(* And to the open server streams of its method.                           *)
LEMMA OpenMoves ==
    ASSUME NEW f \in [Streams -> Places], NEW g \in [Streams -> Places], NEW s \in Servers, NEW m, m = Method[s],
           \A t \in Streams : t # s => g[t] = f[t]
    PROVE  /\ (f[s] \in {"new", "ended"} <=> g[s] \in {"new", "ended"}) => Open(g, m) = Open(f, m)
           /\ f[s] \in {"new", "ended"} /\ g[s] \notin {"new", "ended"}
                 => Cardinality(Open(g, m)) = Cardinality(Open(f, m)) + 1
           /\ f[s] \notin {"new", "ended"} /\ g[s] \in {"new", "ended"}
                 => Cardinality(Open(g, m)) = Cardinality(Open(f, m)) - 1
<1> DEFINE shut == {"new", "ended"}
<1> USE DEF Streams
<1>1. ASSUME f[s] \in shut <=> g[s] \in shut PROVE Open(g, m) = Open(f, m)
  BY <1>1 DEF Open
<1>2. ASSUME f[s] \in shut, g[s] \notin shut PROVE Cardinality(Open(g, m)) = Cardinality(Open(f, m)) + 1
  <2>1. Open(g, m) = Open(f, m) \cup {s} /\ s \notin Open(f, m)
    BY <1>2 DEF Open
  <2>2. IsFiniteSet(Open(f, m))
    BY Finite
  <2> QED
    BY <2>1, <2>2, FS_AddElement
<1>3. ASSUME f[s] \notin shut, g[s] \in shut PROVE Cardinality(Open(g, m)) = Cardinality(Open(f, m)) - 1
  <2>1. Open(g, m) = Open(f, m) \ {s} /\ s \in Open(f, m)
    BY <1>3 DEF Open
  <2>2. IsFiniteSet(Open(f, m))
    BY Finite
  <2> QED
    BY <2>1, <2>2, FS_RemoveElement
<1> QED
  BY <1>1, <1>2, <1>3

(* A load that is close to the messages that are sent is in its range.     *)
LEMMA InRange ==
    ASSUME BackType, LoadClose, NEW m \in Methods
    PROVE  currentLoads[m] \in LoadRange(m)
<1>1. /\ Cardinality(Busy(at, m)) \in Nat /\ Cardinality(ClientsOf(m)) \in Nat /\ Cardinality(StreamsOf(m)) \in Nat
      /\ Cardinality(Busy(at, m)) <= Cardinality(StreamsOf(m))
  BY Finite
<1>2. currentLoads[m] \in -Cardinality(ClientsOf(m)) .. Cardinality(StreamsOf(m))
  BY <1>1 DEF BackType, LoadClose
<1> QED
  BY <1>2 DEF LoadRange, ClientsOf, StreamsOf

One(place) == IF place = "sending" THEN 1 ELSE 0

(* How many more messages are being sent when a stream has moved.          *)
LEMMA BusyBy ==
    ASSUME NEW f \in [Streams -> Places], NEW g \in [Streams -> Places], NEW s \in Streams,
           \A t \in Streams : t # s => g[t] = f[t], NEW m
    PROVE  /\ m # Method[s] => Busy(g, m) = Busy(f, m)
           /\ m = Method[s] => Cardinality(Busy(g, m)) = Cardinality(Busy(f, m)) + One(g[s]) - One(f[s])
<1>1. Cardinality(Busy(f, m)) \in Nat /\ Cardinality(Busy(g, m)) \in Nat
  BY Finite
<1>2. CASE Method[s] # m
  BY <1>2 DEF Busy
<1>3. CASE Method[s] = m
  <2>1. CASE f[s] = "sending" <=> g[s] = "sending"
    <3>1. Busy(g, m) = Busy(f, m)
      BY <1>3, <2>1, BusyMoves
    <3> QED
      BY <1>1, <1>3, <2>1, <3>1 DEF One
  <2>2. CASE f[s] # "sending" /\ g[s] = "sending"
    <3>1. Cardinality(Busy(g, m)) = Cardinality(Busy(f, m)) + 1
      BY <1>3, <2>2, BusyMoves
    <3> QED
      BY <1>1, <1>3, <2>2, <3>1 DEF One
  <2>3. CASE f[s] = "sending" /\ g[s] # "sending"
    <3>1. Cardinality(Busy(g, m)) = Cardinality(Busy(f, m)) - 1
      BY <1>3, <2>3, BusyMoves
    <3> QED
      BY <1>1, <1>3, <2>3, <3>1 DEF One
  <2> QED
    BY <2>1, <2>2, <2>3
<1> QED
  BY <1>2, <1>3

(* A difference that stays, stays within its bounds.                       *)
LEMMA SameBounds ==
    ASSUME NEW b \in Int, NEW l \in Int, NEW b1 \in Int, NEW l1 \in Int, NEW k \in Int,
           b1 - l1 = b - l, l <= b, b - l <= k
    PROVE  l1 <= b1 /\ b1 - l1 <= k /\ (l = b => l1 = b1)
  OBVIOUS

(* A step that takes one stream from one place to another, by what it does *)
(* to the counts.                                                          *)
LEMMA MoveKeeps ==
    ASSUME BackInv, NEW s \in Streams, NEW place \in Places, Goto(s, place), UNCHANGED BlockOnFull,
           at[s] \in {"new", "ended"} <=> place \in {"new", "ended"},
           currentLoads' \in [Methods -> Int], activeStreams' = activeStreams,
           \A m \in Methods : m # Method[s] => currentLoads'[m] = currentLoads[m],
           currentLoads'[Method[s]] = currentLoads[Method[s]] + One(place) - One(at[s]),
           currentLoad' \in [Streams -> Int], \A t \in Streams : currentLoad'[t] \in LoadRange(Method[t])
    PROVE  BackInv'
<1>1. at' \in [Streams -> Places] /\ at'[s] = place /\ \A t \in Streams : t # s => at'[t] = at[t]
  <2>1. at \in [Streams -> Places] /\ at' = [at EXCEPT ![s] = place]
    BY DEF BackInv, BackType, Goto
  <2> QED
    BY <2>1
<1>2. BackType'
  BY <1>1 DEF BackInv, BackType
<1>3. OpenCounted'
  <2>1. ASSUME NEW m \in Methods PROVE Open(at', m) = Open(at, m)
    BY <1>1 DEF Open, Streams
  <2> QED
    BY <2>1 DEF BackInv, OpenCounted
<1>4. ASSUME NEW m \in Methods
      PROVE  Cardinality(Busy(at', m)) - currentLoads'[m] = Cardinality(Busy(at, m)) - currentLoads[m]
  <2>1. currentLoads[m] \in Int
    BY DEF BackInv, BackType
  <2>2. at \in [Streams -> Places] /\ at' \in [Streams -> Places]
    BY <1>1 DEF BackInv, BackType
  <2>3. Cardinality(Busy(at, m)) \in Int /\ One(place) \in Int /\ One(at[s]) \in Int
    BY Finite DEF One
  <2>4. CASE m # Method[s]
    <3>1. Busy(at', m) = Busy(at, m)
      BY <1>1, <2>2, <2>4, BusyBy
    <3> QED
      BY <2>4, <3>1
  <2>5. CASE m = Method[s]
    <3>1. Cardinality(Busy(at', m)) = Cardinality(Busy(at, m)) + One(at'[s]) - One(at[s])
      BY <1>1, <2>2, <2>5, BusyBy
    <3> QED
      BY <1>1, <2>1, <2>3, <2>5, <3>1
  <2> QED
    BY <2>4, <2>5
<1>5. ASSUME NEW m \in Methods
      PROVE  /\ currentLoads'[m] <= Cardinality(Busy(at', m))
             /\ Cardinality(Busy(at', m)) - currentLoads'[m] <= Cardinality(ClientsOf(m))
             /\ ~Shared(m) => currentLoads'[m] = Cardinality(Busy(at', m))
  <2>1. /\ currentLoads[m] <= Cardinality(Busy(at, m))
        /\ Cardinality(Busy(at, m)) - currentLoads[m] <= Cardinality(ClientsOf(m))
        /\ ~Shared(m) => currentLoads[m] = Cardinality(Busy(at, m))
    BY DEF BackInv, LoadClose
  <2>2. /\ Cardinality(Busy(at, m)) \in Int /\ Cardinality(Busy(at', m)) \in Int
        /\ Cardinality(ClientsOf(m)) \in Int
    BY Finite
  <2>3. currentLoads[m] \in Int /\ currentLoads'[m] \in Int
    BY DEF BackInv, BackType
  <2> QED
    BY <1>4, <2>1, <2>2, <2>3, SameBounds
<1>6. LoadClose'
  BY <1>5 DEF LoadClose
<1> QED
  BY <1>2, <1>3, <1>6 DEF BackInv

(* The end of a server stream: when it is the last one of its method no    *)
(* server stream is sending, so the count that is removed was made up of   *)
(* clients only.                                                           *)
LEMMA EndKeeps ==
    ASSUME BackInv, NEW s \in Servers, EndServer(s), UNCHANGED BlockOnFull
    PROVE  BackInv'
<1> USE BackpressureAssumption
<1> DEFINE m == Method[s]
<1>0. s \in Streams /\ m \in Methods /\ at[s] = "idle"
  BY DEF Streams, EndServer
<1>1. /\ at' \in [Streams -> Places] /\ at'[s] = "ended" /\ \A t \in Streams : t # s => at'[t] = at[t]
      /\ \A n : m # n => Busy(at', n) = Busy(at, n) /\ Open(at', n) = Open(at, n)
  <2>1. at \in [Streams -> Places] /\ at' = [at EXCEPT ![s] = "ended"] /\ "ended" \in Places
    BY <1>0 DEF BackInv, BackType, EndServer, Goto, Places
  <2>2. at' \in [Streams -> Places] /\ at'[s] = "ended" /\ \A t \in Streams : t # s => at'[t] = at[t]
    BY <1>0, <2>1
  <2> QED
    BY <1>0, <2>2 DEF Busy, Open, Streams
<1>2. Busy(at', m) = Busy(at, m) /\ Cardinality(Open(at', m)) = Cardinality(Open(at, m)) - 1
  <2>1. at \in [Streams -> Places]
    BY DEF BackInv, BackType
  <2>2. Busy(at', m) = Busy(at, m)
    BY <1>0, <1>1, <2>1, BusyMoves
  <2>3. Cardinality(Open(at', m)) = Cardinality(Open(at, m)) - 1
    BY <1>0, <1>1, <2>1, OpenMoves
  <2> QED
    BY <2>2, <2>3
<1>3. activeStreams[m] = Cardinality(Open(at, m)) /\ Cardinality(Open(at, m)) \in Nat
      /\ Cardinality(Open(at', m)) \in Nat
  BY <1>0, Finite DEF BackInv, OpenCounted
<1>4. /\ activeStreams' = [activeStreams EXCEPT ![m] = IF LastStream(m) THEN 0 ELSE activeStreams[m] - 1]
      /\ currentLoads' = [currentLoads EXCEPT ![m] = IF LastStream(m) THEN 0 ELSE currentLoads[m]]
      /\ currentLoad' = currentLoad
  BY DEF EndServer
<1>5. LastStream(m) <=> Cardinality(Open(at', m)) = 0
  BY <1>2, <1>3 DEF LastStream
<1>6. /\ activeStreams' \in [Methods -> Nat] /\ activeStreams'[m] = Cardinality(Open(at', m))
      /\ \A n \in Methods : n # m => activeStreams'[n] = activeStreams[n]
  BY <1>0, <1>2, <1>3, <1>4, <1>5 DEF BackInv, BackType
<1>7. /\ currentLoads' \in [Methods -> Int]
      /\ currentLoads'[m] = IF LastStream(m) THEN 0 ELSE currentLoads[m]
      /\ \A n \in Methods : n # m => currentLoads'[n] = currentLoads[n]
  BY <1>0, <1>4 DEF BackInv, BackType
<1>8. LastStream(m) => Busy(at, m) \subseteq ClientsOf(m)
  <2> SUFFICES ASSUME LastStream(m), NEW t \in Busy(at, m) PROVE t \in ClientsOf(m)
    OBVIOUS
  <2>1. Open(at', m) = {}
    BY <1>5, Finite, FS_EmptySet
  <2>2. t \in Streams /\ at[t] = "sending" /\ Method[t] = m /\ at'[t] = "sending"
    BY <1>0, <1>1 DEF Busy
  <2>3. t \notin Servers
    BY <2>1, <2>2 DEF Open
  <2> QED
    BY <2>2, <2>3 DEF ClientsOf, Streams
<1>9. LastStream(m) => /\ Cardinality(Busy(at, m)) <= Cardinality(ClientsOf(m))
                       /\ ~Shared(m) => Cardinality(Busy(at, m)) = 0
  <2> SUFFICES ASSUME LastStream(m)
               PROVE  /\ Cardinality(Busy(at, m)) <= Cardinality(ClientsOf(m))
                      /\ ~Shared(m) => Cardinality(Busy(at, m)) = 0
    OBVIOUS
  <2>1. Cardinality(Busy(at, m)) <= Cardinality(ClientsOf(m))
    BY <1>8, Finite, FS_Subset
  <2>2. ~Shared(m) => Busy(at, m) = {}
    BY <1>8 DEF Shared, ClientsOf
  <2> QED
    BY <2>1, <2>2, FS_EmptySet
<1> HIDE DEF m
<1>10. BackType'
  BY <1>1, <1>4, <1>6, <1>7 DEF BackInv, BackType
<1>11. OpenCounted'
  <2>1. ASSUME NEW n \in Methods PROVE activeStreams'[n] = Cardinality(Open(at', n))
    BY <1>1, <1>6 DEF BackInv, OpenCounted
  <2> QED
    BY <2>1 DEF OpenCounted
<1>12. LoadClose'
  <2>1. ASSUME NEW n \in Methods
        PROVE  /\ currentLoads'[n] <= Cardinality(Busy(at', n))
               /\ Cardinality(Busy(at', n)) - currentLoads'[n] <= Cardinality(ClientsOf(n))
               /\ ~Shared(n) => currentLoads'[n] = Cardinality(Busy(at', n))
    <3>1. Cardinality(Busy(at, n)) \in Nat
      BY Finite
    <3>2. Busy(at', n) = Busy(at, n)
      BY <1>1, <1>2
    <3>3. CASE n = m /\ LastStream(m)
      BY <1>7, <1>9, <3>1, <3>2, <3>3
    <3>4. CASE n # m \/ ~LastStream(m)
      BY <1>7, <3>2, <3>4 DEF BackInv, LoadClose
    <3> QED
      BY <3>3, <3>4
  <2> QED
    BY <2>1 DEF LoadClose
<1> QED
  BY <1>10, <1>11, <1>12 DEF BackInv

(* A server stream that opens.                                             *)
LEMMA OpenKeeps ==
    ASSUME BackInv, NEW s \in Servers, OpenServer(s), UNCHANGED BlockOnFull
    PROVE  BackInv'
<1> USE BackpressureAssumption
<1> DEFINE m == Method[s]
<1>0. s \in Streams /\ m \in Methods /\ at[s] = "new" /\ UNCHANGED <<currentLoads, currentLoad>>
  BY DEF Streams, OpenServer
<1>1. /\ at' \in [Streams -> Places] /\ at'[s] = "idle" /\ \A t \in Streams : t # s => at'[t] = at[t]
      /\ \A n : m # n => Busy(at', n) = Busy(at, n) /\ Open(at', n) = Open(at, n)
  <2>1. at \in [Streams -> Places] /\ at' = [at EXCEPT ![s] = "idle"] /\ "idle" \in Places
    BY <1>0 DEF BackInv, BackType, OpenServer, Goto, Places
  <2>2. at' \in [Streams -> Places] /\ at'[s] = "idle" /\ \A t \in Streams : t # s => at'[t] = at[t]
    BY <1>0, <2>1
  <2> QED
    BY <1>0, <2>2 DEF Busy, Open, Streams
<1>2. Busy(at', m) = Busy(at, m) /\ Cardinality(Open(at', m)) = Cardinality(Open(at, m)) + 1
  <2>1. at \in [Streams -> Places]
    BY DEF BackInv, BackType
  <2>2. Busy(at', m) = Busy(at, m)
    BY <1>0, <1>1, <2>1, BusyMoves
  <2>3. Cardinality(Open(at', m)) = Cardinality(Open(at, m)) + 1
    BY <1>0, <1>1, <2>1, OpenMoves
  <2> QED
    BY <2>2, <2>3
<1>3. activeStreams' = [activeStreams EXCEPT ![m] = activeStreams[m] + 1]
  BY DEF OpenServer
<1>4. /\ activeStreams' \in [Methods -> Nat] /\ activeStreams'[m] = activeStreams[m] + 1
      /\ \A n \in Methods : n # m => activeStreams'[n] = activeStreams[n]
  BY <1>0, <1>3 DEF BackInv, BackType
<1> HIDE DEF m
<1>5. BackType'
  BY <1>0, <1>1, <1>4 DEF BackInv, BackType
<1>6. OpenCounted'
  <2>1. ASSUME NEW n \in Methods PROVE activeStreams'[n] = Cardinality(Open(at', n))
    BY <1>1, <1>2, <1>4 DEF BackInv, OpenCounted
  <2> QED
    BY <2>1 DEF OpenCounted
<1>7. LoadClose'
  <2>1. ASSUME NEW n \in Methods PROVE Busy(at', n) = Busy(at, n)
    BY <1>1, <1>2
  <2> QED
    BY <1>0, <2>1 DEF BackInv, LoadClose
<1> QED
  BY <1>5, <1>6, <1>7 DEF BackInv

(* Every step of a stream keeps the counts.                                *)
LEMMA BackStepInv ==
    ASSUME BackInv, [BackpressureNext]_bpVars
    PROVE  BackInv'
<1> USE BackpressureAssumption
<1>0. /\ BackType /\ \A s \in Streams : Method[s] \in Methods /\ Load(s) \in LoadRange(Method[s]) /\ Load(s) \in Int
      /\ \A s \in Streams : at[s] \in Places
  <2>1. BackType /\ LoadClose /\ \A s \in Streams : Method[s] \in Methods
    BY DEF BackInv
  <2> QED
    BY <2>1, InRange DEF BackType, Load
<1>1. ASSUME NEW s \in Streams, OpenClient(s), UNCHANGED BlockOnFull PROVE BackInv'
  <2>1. s \in Clients /\ s \notin Servers /\ at[s] = "new" /\ UNCHANGED <<currentLoads, activeStreams, currentLoad>>
    BY <1>1 DEF OpenClient
  <2>2. /\ at' \in [Streams -> Places] /\ at'[s] = "idle" /\ \A t \in Streams : t # s => at'[t] = at[t]
    BY <1>0, <1>1 DEF BackType, OpenClient, Goto, Places
  <2>3. ASSUME NEW m PROVE Busy(at', m) = Busy(at, m) /\ Open(at', m) = Open(at, m)
    BY <2>1, <2>2 DEF Busy, Open, Streams
  <2> QED
    BY <1>1, <2>1, <2>2, <2>3 DEF BackInv, BackType, LoadClose, OpenCounted
<1>2. ASSUME NEW s \in Streams, NEW place \in {"idle", "blocked", "admitted"}, at[s] \in {"idle", "blocked"},
             Goto(s, place), UNCHANGED <<BlockOnFull, currentLoads, activeStreams>>,
             currentLoad' \in [Streams -> Int], \A t \in Streams : currentLoad'[t] \in LoadRange(Method[t])
      PROVE  BackInv'
  <2>1. currentLoads' \in [Methods -> Int] /\ currentLoads[Method[s]] \in Int
    BY <1>0, <1>2 DEF BackType
  <2>2. currentLoads'[Method[s]] = currentLoads[Method[s]] + One(place) - One(at[s])
    BY <1>2, <2>1 DEF One
  <2> QED
    BY <1>2, <2>1, <2>2, MoveKeeps DEF Places
<1>3. ASSUME NEW s \in Streams, SendMsg(s), UNCHANGED BlockOnFull PROVE BackInv'
  <2>1. PICK place \in {"idle", "blocked", "admitted"} : Goto(s, place)
    BY <1>3 DEF SendMsg, Decision
  <2>2. currentLoad' \in [Streams -> Int] /\ \A t \in Streams : currentLoad'[t] \in LoadRange(Method[t])
    <3>1. currentLoad' = [currentLoad EXCEPT ![s] = Load(s)]
      BY <1>3 DEF SendMsg
    <3> QED
      BY <1>0, <3>1 DEF BackType
  <2> QED
    BY <1>2, <1>3, <2>1, <2>2 DEF SendMsg
<1>4. ASSUME NEW s \in Streams, Poll(s), UNCHANGED BlockOnFull PROVE BackInv'
  <2>1. currentLoad' \in [Streams -> Int] /\ \A t \in Streams : currentLoad'[t] \in LoadRange(Method[t])
    <3>1. currentLoad' = [currentLoad EXCEPT ![s] = Load(s)]
      BY <1>4 DEF Poll
    <3> QED
      BY <1>0, <3>1 DEF BackType
  <2> QED
    BY <1>4, <2>1 DEF Poll, BackInv, BackType, LoadClose, OpenCounted
<1>5. ASSUME NEW s \in Streams, Timeout(s), UNCHANGED BlockOnFull PROVE BackInv'
  BY <1>0, <1>2, <1>5 DEF Timeout, BackType
<1>6. ASSUME NEW s \in Streams, CountMessage(s), UNCHANGED BlockOnFull PROVE BackInv'
  <2>1. /\ at[s] = "admitted" /\ Goto(s, "sending") /\ UNCHANGED <<activeStreams, currentLoad>>
        /\ currentLoads' = [currentLoads EXCEPT ![Method[s]] = currentLoads[Method[s]] + 1]
    BY <1>6 DEF CountMessage
  <2>2. /\ currentLoads' \in [Methods -> Int] /\ currentLoads[Method[s]] \in Int
        /\ currentLoads'[Method[s]] = currentLoads[Method[s]] + One("sending") - One(at[s])
        /\ \A m \in Methods : m # Method[s] => currentLoads'[m] = currentLoads[m]
    BY <1>0, <2>1 DEF BackType, One
  <2>3. currentLoad' \in [Streams -> Int] /\ \A t \in Streams : currentLoad'[t] \in LoadRange(Method[t])
    BY <1>0, <2>1 DEF BackType
  <2> QED
    BY <1>6, <2>1, <2>2, <2>3, MoveKeeps DEF Places
<1>7. ASSUME NEW s \in Streams, MessageSent(s), UNCHANGED BlockOnFull PROVE BackInv'
  <2>1. /\ at[s] = "sending" /\ Goto(s, "idle") /\ UNCHANGED <<activeStreams, currentLoad>>
        /\ currentLoads' = [currentLoads EXCEPT ![Method[s]] = currentLoads[Method[s]] - 1]
    BY <1>7 DEF MessageSent
  <2>2. /\ currentLoads' \in [Methods -> Int] /\ currentLoads[Method[s]] \in Int
        /\ currentLoads'[Method[s]] = currentLoads[Method[s]] + One("idle") - One(at[s])
        /\ \A m \in Methods : m # Method[s] => currentLoads'[m] = currentLoads[m]
    BY <1>0, <2>1 DEF BackType, One
  <2>3. currentLoad' \in [Streams -> Int] /\ \A t \in Streams : currentLoad'[t] \in LoadRange(Method[t])
    BY <1>0, <2>1 DEF BackType
  <2> QED
    BY <1>7, <2>1, <2>2, <2>3, MoveKeeps DEF Places
<1>8. CASE UNCHANGED bpVars
  BY <1>8 DEF bpVars, BackInv, BackType, LoadClose, OpenCounted
<1> QED
  BY <1>1, <1>3, <1>4, <1>5, <1>6, <1>7, <1>8, EndKeeps, OpenKeeps
     DEF BackpressureNext, Sender, OpenServer, EndServer

(* The interceptor counts the open server streams of every method exactly, *)
(* and its load is never above the messages that are being sent; it is     *)
(* exact where one interceptor does not serve both ends of the method.     *)
THEOREM StreamCounts == BackpressureSpec => []StreamsCounted
<1>1. BackpressureInit => BackInv
  <2> SUFFICES ASSUME BackpressureInit PROVE BackInv
    OBVIOUS
  <2>1. \A m : Busy(at, m) = {} /\ Open(at, m) = {}
    BY DEF BackpressureInit, Busy, Open, Streams
  <2>2. \A m : Cardinality(ClientsOf(m)) \in Nat /\ Cardinality(StreamsOf(m)) \in Nat
    BY Finite
  <2>3. \A m : 0 \in LoadRange(m)
    <3> SUFFICES ASSUME NEW m PROVE 0 \in LoadRange(m)
      OBVIOUS
    <3>1. 0 \in -Cardinality(ClientsOf(m)) .. Cardinality(StreamsOf(m))
      BY <2>2
    <3> QED
      BY <3>1 DEF LoadRange, ClientsOf, StreamsOf
  <2>4. BackType
    BY <2>3, BackpressureAssumption DEF BackpressureInit, BackType, Places
  <2>5. \A m : Cardinality(Busy(at, m)) = 0 /\ Cardinality(Open(at, m)) = 0
    BY <2>1, FS_EmptySet
  <2> QED
    BY <2>2, <2>4, <2>5 DEF BackpressureInit, BackInv, LoadClose, OpenCounted
<1>2. BackInv /\ [BackpressureNext]_bpVars => BackInv'
  BY BackStepInv
<1>3. BackInv => StreamsCounted
  <2> SUFFICES ASSUME BackInv PROVE StreamsCounted
    OBVIOUS
  <2>1. BackpressureTypeOK
    BY InRange DEF BackInv, BackType, BackpressureTypeOK, Places
  <2>2. LoadExact
    BY DEF BackInv, LoadClose, LoadExact, Busy, Sending
  <2>3. ActiveExact
    BY DEF BackInv, OpenCounted, ActiveExact, Open
  <2> QED
    BY <2>1, <2>2, <2>3 DEF StreamsCounted
<1> QED
  BY <1>1, <1>2, <1>3, PTL DEF BackpressureSpec

-----------------------------------------------------------------------------
(* Process, processLoop and processBatch *)

(* Item i occurs at most once in q.                                        *)
Once(q, i) == \A m, n \in 1 .. Len(q) : q[m] = i /\ q[n] = i => m = n

(* The empty sequence.                                                     *)
LEMMA EmptyHasNone == \A i : ~Contains(<<>>, i) /\ Once(<<>>, i)
  BY DEF Contains, Once

(* Every other sequence has an element.                                    *)
LEMMA SomethingIn ==
    ASSUME NEW S, NEW q \in Seq(S), q # <<>>
    PROVE  \E i \in S : Contains(q, i)
<1>1. Len(q) \in Nat \ {0} /\ q[1] \in S
  OBVIOUS
<1> QED
  BY <1>1 DEF Contains

(* Append adds what it is given.                                           *)
LEMMA AppendHas ==
    ASSUME NEW S, NEW q \in Seq(S), NEW x \in S, NEW i
    PROVE  /\ Contains(Append(q, x), i) <=> Contains(q, i) \/ i = x
           /\ Once(q, i) /\ (i = x => ~Contains(q, i)) => Once(Append(q, x), i)
<1>1. Len(Append(q, x)) = Len(q) + 1 /\ Len(q) \in Nat
  OBVIOUS
<1>2. \A k \in 1 .. Len(q) + 1 : Append(q, x)[k] = IF k = Len(q) + 1 THEN x ELSE q[k]
  OBVIOUS
<1>3. Contains(Append(q, x), i) <=> Contains(q, i) \/ i = x
  BY <1>1, <1>2 DEF Contains
<1>4. ASSUME Once(q, i), i = x => ~Contains(q, i) PROVE Once(Append(q, x), i)
  BY <1>1, <1>2, <1>4 DEF Contains, Once
<1> QED
  BY <1>3, <1>4

(* Head and Tail take a sequence apart.                                    *)
LEMMA TailHas ==
    ASSUME NEW S, NEW q \in Seq(S), q # <<>>, NEW i
    PROVE  /\ Head(q) \in S /\ Tail(q) \in Seq(S) /\ Len(Tail(q)) = Len(q) - 1
           /\ Contains(q, i) <=> Contains(Tail(q), i) \/ i = Head(q)
           /\ Once(q, i) => Once(Tail(q), i) /\ (i = Head(q) => ~Contains(Tail(q), i))
<1>1. Len(q) \in Nat \ {0} /\ Head(q) = q[1] /\ Head(q) \in S
  OBVIOUS
<1>2. /\ Tail(q) \in Seq(S) /\ Len(Tail(q)) = Len(q) - 1
      /\ \A k \in 1 .. Len(q) - 1 : Tail(q)[k] = q[k + 1]
  OBVIOUS
<1>3. ASSUME Contains(q, i), i # Head(q) PROVE Contains(Tail(q), i)
  <2>1. PICK k \in 1 .. Len(q) : q[k] = i
    BY <1>3 DEF Contains
  <2>2. k - 1 \in 1 .. Len(q) - 1 /\ Tail(q)[k - 1] = q[k]
    BY <1>1, <1>2, <1>3, <2>1
  <2> QED
    BY <1>2, <2>1, <2>2 DEF Contains
<1>4. ASSUME Contains(Tail(q), i) PROVE \E k \in 2 .. Len(q) : q[k] = i
  <2>1. PICK k \in 1 .. Len(q) - 1 : Tail(q)[k] = i
    BY <1>2, <1>4 DEF Contains
  <2>2. k + 1 \in 2 .. Len(q) /\ q[k + 1] = i
    BY <1>1, <1>2, <2>1
  <2> QED
    BY <2>2
<1>5. ASSUME Once(q, i) PROVE Once(Tail(q), i)
  BY <1>1, <1>2, <1>5 DEF Once
<1>6. ASSUME Once(q, i), i = Head(q) PROVE ~Contains(Tail(q), i)
  BY <1>1, <1>4, <1>6 DEF Once
<1>7. Contains(Tail(q), i) \/ i = Head(q) => Contains(q, i)
  BY <1>1, <1>4 DEF Contains
<1> QED
  BY <1>1, <1>2, <1>3, <1>5, <1>6, <1>7

(* ValidItems drops the items whose context is done and keeps the others.  *)
LEMMA ValidFacts ==
    ASSUME NEW its \in Seq(Items), NEW v \in ValidItems(its)
    PROVE  /\ v \in Seq(Items)
           /\ \A i : Contains(v, i) <=> Contains(its, i) /\ i \notin done
<1> DEFINE stay == {n \in DOMAIN its : its[n] \notin done}
           N == Cardinality(stay)
<1>1. PICK pos \in Bijection(1 .. N, stay) : v = [k \in DOMAIN pos |-> its[pos[k]]]
  BY DEF ValidItems
<1>2. /\ pos \in [1 .. N -> stay]
      /\ \A n \in stay : \E k \in 1 .. N : pos[k] = n
  BY DEF Bijection, Injection, Surjection
<1>3. Len(its) \in Nat /\ DOMAIN its = 1 .. Len(its) /\ \A n \in 1 .. Len(its) : its[n] \in Items
  OBVIOUS
<1>4. N \in Nat
  <2>1. IsFiniteSet(1 .. Len(its)) /\ stay \subseteq 1 .. Len(its)
    BY <1>3, FS_Interval
  <2> QED
    BY <2>1, FS_Subset, FS_CardinalityType
<1> HIDE DEF N
<1>5. \A k \in 1 .. N : pos[k] \in 1 .. Len(its) /\ its[pos[k]] \notin done
  BY <1>2, <1>3
<1>6. v = [k \in 1 .. N |-> its[pos[k]]]
  BY <1>1, <1>2
<1>7. v \in [1 .. N -> Items]
  BY <1>3, <1>5, <1>6
<1>8. v \in Seq(Items) /\ Len(v) = N
  BY <1>4, <1>7
<1>9. ASSUME NEW i, Contains(v, i) PROVE Contains(its, i) /\ i \notin done
  BY <1>5, <1>6, <1>8, <1>9 DEF Contains
<1>10. ASSUME NEW i, Contains(its, i), i \notin done PROVE Contains(v, i)
  <2>1. PICK n \in 1 .. Len(its) : its[n] = i
    BY <1>10 DEF Contains
  <2>2. n \in stay
    BY <1>3, <1>10, <2>1
  <2>3. PICK k \in 1 .. N : pos[k] = n
    BY <1>2, <2>2
  <2>4. v[k] = i
    BY <1>6, <2>1, <2>3
  <2> QED
    BY <1>8, <2>3, <2>4 DEF Contains
<1> QED
  BY <1>8, <1>9, <1>10

-----------------------------------------------------------------------------
(* The inductive invariant *)

BatchSteps == {"check", "run", "ok", "err", "end"}
BatchRecs == [items : Seq(Items), at : BatchSteps, by : {"loop", "flush", "close"}]

InSome(bs, i) == \E b \in bs : b.at # "end" /\ Contains(b.items, i)

(* Where item i is, with rc the queue, its the current batch, bs the batch *)
(* goroutines, ans the answers and cl the calls: in one place at most and, *)
(* from the moment it is sent, in one until it is answered.  A batch that  *)
(* ends has answered its items.                                            *)
Placed(rc, its, bs, ans, cl, i) ==
    /\ Once(rc, i) /\ Once(its, i)
    /\ Contains(rc, i) => ~Contains(its, i) /\ ~InSome(bs, i)
    /\ Contains(its, i) => ~InSome(bs, i)
    /\ \A b, c \in bs : /\ b.at # "end" /\ Contains(b.items, i)
                        /\ c.at # "end" /\ Contains(c.items, i)
                        => b = c
    /\ \A b \in bs : b.at = "end" /\ Contains(b.items, i) => ans[i] # "none"
    /\ Contains(rc, i) \/ Contains(its, i) \/ InSome(bs, i)
         => ans[i] = "none" /\ cl[i] \in {"waiting", "ctx"}
    /\ cl[i] = "waiting" =>
         Contains(rc, i) \/ Contains(its, i) \/ InSome(bs, i) \/ ans[i] # "none"
    /\ ans[i] # "none" => cl[i] \in {"waiting", "answered", "ctx"}

EachPlaced == \A i \in Items : Placed(requestChan, items, batches, answer, call, i)

BatchesOK ==
    /\ batches \subseteq BatchRecs /\ IsFiniteSet(batches)
    /\ \A b \in batches : b.items # <<>>

ClosedWhenClosing == closer # "no" => closed

BatcherInv ==
    /\ TypeOK /\ BatchesOK /\ EachPlaced
    /\ ActiveCountExact /\ ProcessingExact /\ BatchSizeInRange /\ ClosedWhenClosing

-----------------------------------------------------------------------------
(* What moves an item *)

(* It goes on within the queue and the current batch.                      *)
LEMMA MovesOn ==
    ASSUME NEW rc, NEW its, NEW rc2, NEW its2, NEW bs, NEW ans, NEW cl, NEW i,
           Placed(rc, its, bs, ans, cl, i),
           Once(rc2, i), Once(its2, i),
           Contains(rc2, i) \/ Contains(its2, i) <=> Contains(rc, i) \/ Contains(its, i),
           ~(Contains(rc2, i) /\ Contains(its2, i))
    PROVE  Placed(rc2, its2, bs, ans, cl, i)
BY DEF Placed

(* A goroutine is started for the current batch.                           *)
LEMMA Started ==
    ASSUME NEW rc, NEW its, NEW bs, NEW ans, NEW cl, NEW i, NEW b,
           Placed(rc, its, bs, ans, cl, i),
           b.at # "end", b.items = its
    PROVE  Placed(rc, <<>>, bs \cup {b}, ans, cl, i)
<1>1. InSome(bs \cup {b}, i) <=> InSome(bs, i) \/ Contains(its, i)
  BY DEF InSome
<1>2. ASSUME NEW d \in bs, d.at # "end", Contains(d.items, i) PROVE InSome(bs, i)
  BY <1>2 DEF InSome
<1> QED
  BY <1>1, <1>2, EmptyHasNone DEF Placed

(* Batch goroutine b becomes c, and answers what it keeps no longer.       *)
LEMMA Became ==
    ASSUME NEW rc, NEW its, NEW bs, NEW ans, NEW ans2, NEW cl, NEW i, NEW b \in bs, NEW c,
           Placed(rc, its, bs, ans, cl, i), b.at # "end",
           Contains(c.items, i) => Contains(b.items, i),
           ~Contains(b.items, i) => ans2[i] = ans[i],
           Contains(b.items, i) =>
             IF c.at # "end" /\ Contains(c.items, i) THEN ans2[i] = ans[i] ELSE ans2[i] # "none"
    PROVE  Placed(rc, its, (bs \ {b}) \cup {c}, ans2, cl, i)
<1>1. ASSUME NEW d \in bs, d.at # "end", Contains(d.items, i) PROVE InSome(bs, i)
  BY <1>1 DEF InSome
<1>2. CASE ~Contains(b.items, i)
  <2>1. InSome((bs \ {b}) \cup {c}, i) <=> InSome(bs, i)
    BY <1>2 DEF InSome
  <2> QED
    BY <1>2, <2>1 DEF Placed
<1>3. CASE Contains(b.items, i)
  <2>1. \A d \in bs \ {b} : ~(d.at # "end" /\ Contains(d.items, i))
    BY <1>3 DEF Placed
  <2>2. \A d \in bs : ~(d.at = "end" /\ Contains(d.items, i))
    BY <1>1, <1>3 DEF Placed
  <2>3. InSome((bs \ {b}) \cup {c}, i) <=> c.at # "end" /\ Contains(c.items, i)
    BY <2>1 DEF InSome
  <2>4. /\ ~Contains(rc, i) /\ ~Contains(its, i) /\ ans[i] = "none"
        /\ cl[i] \in {"waiting", "ctx"} /\ Once(rc, i) /\ Once(its, i)
    BY <1>1, <1>3 DEF Placed
  <2> QED
    BY <1>3, <2>1, <2>2, <2>3, <2>4 DEF Placed
<1> QED
  BY <1>2, <1>3

(* Batch goroutine b is gone.                                              *)
LEMMA Ended ==
    ASSUME NEW rc, NEW its, NEW bs, NEW ans, NEW cl, NEW i, NEW b,
           Placed(rc, its, bs, ans, cl, i), b.at = "end"
    PROVE  Placed(rc, its, bs \ {b}, ans, cl, i)
<1>1. InSome(bs \ {b}, i) <=> InSome(bs, i)
  BY DEF InSome
<1> QED
  BY <1>1 DEF Placed

(* No other goroutine equals one that is started, or what b becomes: it    *)
(* would share an item with it.                                            *)
LEMMA StartedIsNew ==
    ASSUME BatchesOK, NEW rc, NEW its \in Seq(Items), its # <<>>, NEW b,
           \A i \in Items : Placed(rc, its, batches, answer, call, i),
           b.at # "end", b.items = its
    PROVE  b \notin batches
<1>1. PICK i \in Items : Contains(its, i)
  BY SomethingIn
<1>2. ~InSome(batches, i)
  BY <1>1 DEF Placed
<1> QED
  BY <1>1, <1>2 DEF InSome

LEMMA BecameIsNew ==
    ASSUME BatchesOK, EachPlaced, NEW b \in batches, b.at # "end",
           NEW c \in BatchRecs, c.items # <<>>,
           \A i : Contains(c.items, i) => Contains(b.items, i)
    PROVE  c \notin batches \ {b}
<1>1. c.items \in Seq(Items)
  BY DEF BatchRecs
<1>2. PICK i \in Items : Contains(c.items, i)
  BY <1>1, SomethingIn
<1>3. Contains(b.items, i) /\ Placed(requestChan, items, batches, answer, call, i)
  BY <1>2 DEF EachPlaced
<1>4. answer[i] = "none"
  BY <1>3 DEF Placed, InSome
<1> QED
  BY <1>2, <1>3, <1>4 DEF Placed

(* Counting batch goroutines. *)
LEMMA BatchCount ==
    ASSUME NEW S, IsFiniteSet(S), NEW b, NEW c
    PROVE  /\ Cardinality(S) \in Nat
           /\ IsFiniteSet(S \cup {c})
           /\ c \notin S => Cardinality(S \cup {c}) = Cardinality(S) + 1
           /\ IsFiniteSet(S \ {b})
           /\ b \in S => Cardinality(S \ {b}) = Cardinality(S) - 1
BY FS_CardinalityType, FS_AddElement, FS_RemoveElement

LEMMA Enlarged ==
    ASSUME NEW S, IsFiniteSet(S), NEW c, c \notin S, NEW T, T = S \cup {c}
    PROVE  IsFiniteSet(T) /\ Cardinality(T) = Cardinality(S) + 1
BY FS_AddElement

LEMMA Replaced ==
    ASSUME NEW S, IsFiniteSet(S), NEW b \in S, NEW c, c \notin S \ {b},
           NEW T, T = (S \ {b}) \cup {c}
    PROVE  IsFiniteSet(T) /\ Cardinality(T) = Cardinality(S)
<1>1. PICK R : R = S \ {b}
  OBVIOUS
<1>2. Cardinality(S) \in Nat /\ IsFiniteSet(R) /\ Cardinality(R) = Cardinality(S) - 1
  BY <1>1, BatchCount
<1>3. T = R \cup {c} /\ c \notin R
  BY <1>1
<1>4. IsFiniteSet(R \cup {c}) /\ Cardinality(R \cup {c}) = Cardinality(R) + 1
  BY <1>2, <1>3, BatchCount
<1>5. IsFiniteSet(T) /\ Cardinality(T) = Cardinality(R) + 1
  BY <1>3, <1>4, Zenon
<1>6. Cardinality(T) = Cardinality(S)
  BY <1>2, <1>5
<1> QED
  BY <1>5, <1>6


-----------------------------------------------------------------------------
(* What one step keeps: everything but the types of TypeOK.                *)
Kept ==
    /\ BatchesOK /\ EachPlaced
    /\ ActiveCountExact /\ ProcessingExact /\ BatchSizeInRange

RunSet(bs) == {b \in bs : b.at = "run"}

(* Steps that leave the batches and the counters alone. *)
LEMMA SameCounters ==
    ASSUME BatcherInv, UNCHANGED <<activeCount, processingCount, currentBatchSize, batches>>,
           flushes' = 0 /\ ~closed' => flushes = 0 /\ ~closed
    PROVE  BatchesOK' /\ ActiveCountExact' /\ ProcessingExact' /\ BatchSizeInRange'
BY DEF BatcherInv, BatchesOK, ActiveCountExact, ProcessingExact, BatchSizeInRange

(* The callers: an item enters the queue once, when it is in no place yet. *)
LEMMA CallKeeps ==
    ASSUME BatcherInv, NEW i \in Items, Process(i) \/ CallStep(i) \/ CtxDone(i)
    PROVE  Kept'
<1>1. UNCHANGED <<activeCount, processingCount, currentBatchSize, batches, flushes, closed>>
  BY DEF Process, CallStep, Enqueue, ReturnAnswer, ReturnCtx, CtxDone, loopVars, sizeVars,
         closeVars
<1>2. BatchesOK' /\ ActiveCountExact' /\ ProcessingExact' /\ BatchSizeInRange'
  BY <1>1, SameCounters
<1>3. /\ call \in [Items -> {"new", "sending", "waiting", "refused", "answered", "ctx"}]
      /\ requestChan \in Seq(Items)
  BY DEF BatcherInv, TypeOK
<1>4. ASSUME NEW j \in Items PROVE Placed(requestChan, items, batches, answer, call, j)'
  <2>0. Placed(requestChan, items, batches, answer, call, j)
    BY DEF BatcherInv, EachPlaced
  <2>1. CASE Enqueue(i)
    <3>1. /\ call[i] = "sending" /\ requestChan' = Append(requestChan, i)
          /\ call' = [call EXCEPT ![i] = "waiting"]
          /\ UNCHANGED <<items, batches, answer>>
      BY <2>1 DEF Enqueue
    <3>2. /\ Contains(requestChan', j) <=> Contains(requestChan, j) \/ j = i
          /\ Once(requestChan, j) /\ (j = i => ~Contains(requestChan, j)) => Once(requestChan', j)
      BY <1>3, <3>1, AppendHas
    <3>3. call'[j] = IF j = i THEN "waiting" ELSE call[j]
      BY <1>3, <3>1
    <3> QED
      BY <2>0, <3>1, <3>2, <3>3 DEF Placed
  <2>2. CASE Process(i)
    <3>1. /\ call[i] = "new" /\ UNCHANGED <<requestChan, items, batches, answer>>
          /\ \E v \in {"refused", "sending"} : call' = [call EXCEPT ![i] = v]
      BY <2>2 DEF Process, loopVars
    <3>2. call'[j] = call[j] \/ (call[j] = "new" /\ call'[j] \in {"refused", "sending"})
      BY <1>3, <3>1
    <3> QED
      BY <2>0, <3>1, <3>2 DEF Placed
  <2>3. CASE ReturnAnswer(i)
    <3>1. /\ call[i] = "waiting" /\ answer[i] # "none"
          /\ UNCHANGED <<requestChan, items, batches, answer>>
          /\ call' = [call EXCEPT ![i] = "answered"]
      BY <2>3 DEF ReturnAnswer, loopVars
    <3>2. \/ call'[j] = call[j]
          \/ call[j] = "waiting" /\ answer[j] # "none" /\ call'[j] = "answered"
      BY <1>3, <3>1
    <3> QED
      BY <2>0, <3>1, <3>2 DEF Placed
  <2>4. CASE ReturnCtx(i)
    <3>1. /\ call[i] \in {"sending", "waiting"}
          /\ UNCHANGED <<requestChan, items, batches, answer>>
          /\ call' = [call EXCEPT ![i] = "ctx"]
      BY <2>4 DEF ReturnCtx, loopVars
    <3>2. call'[j] = call[j] \/ (call[j] \in {"sending", "waiting"} /\ call'[j] = "ctx")
      BY <1>3, <3>1
    <3> QED
      BY <2>0, <3>1, <3>2 DEF Placed
  <2>5. CASE CtxDone(i)
    BY <2>0, <2>5 DEF CtxDone, loopVars
  <2> QED
    BY <2>1, <2>2, <2>3, <2>4, <2>5 DEF CallStep
<1> QED
  BY <1>2, <1>4 DEF Kept, EachPlaced

(* A goroutine is started for its, which are the current batch and perhaps *)
(* what was taken from the queue.                                          *)
LEMMA StartKeeps ==
    ASSUME BatcherInv, NEW its \in Seq(Items), its # <<>>,
           NEW by \in {"loop", "flush", "close"},
           \A i \in Items : Placed(requestChan', its, batches, answer, call, i),
           batches' = batches \cup {Batch(its, by)}, items' = <<>>,
           UNCHANGED <<answer, call, processingCount>>
    PROVE  /\ BatchesOK' /\ EachPlaced' /\ ProcessingExact'
           /\ Cardinality(batches') = Cardinality(batches) + 1
<1> DEFINE b == Batch(its, by)
<1>1. b \in BatchRecs /\ b.items = its /\ b.at = "check"
  BY DEF Batch, BatchRecs, BatchSteps
<1>2. BatchesOK /\ IsFiniteSet(batches) /\ batches' = batches \cup {b}
  BY DEF BatcherInv, BatchesOK
<1> HIDE DEF b
<1>3. b \notin batches
  BY <1>1, <1>2, StartedIsNew
<1>4. IsFiniteSet(batches') /\ Cardinality(batches') = Cardinality(batches) + 1
  BY <1>2, <1>3, Enlarged
<1>5. BatchesOK'
  BY <1>1, <1>2, <1>4 DEF BatchesOK
<1>6. ASSUME NEW i \in Items PROVE Placed(requestChan, items, batches, answer, call, i)'
  <2>1. Placed(requestChan', <<>>, batches \cup {b}, answer, call, i)
    BY <1>1, Started
  <2> QED
    BY <1>2, <2>1
<1>7. RunSet(batches') = RunSet(batches)
  BY <1>1, <1>2 DEF RunSet
<1>8. ProcessingExact'
  BY <1>7 DEF BatcherInv, ProcessingExact, RunSet
<1> QED
  BY <1>4, <1>5, <1>6, <1>8 DEF EachPlaced

(* The loop takes its: it starts a goroutine for them if it has a slot,    *)
(* and leaves them in the current batch if not.                            *)
LEMMA TakeKeeps ==
    ASSUME BatcherInv, NEW its \in Seq(Items), its # <<>>,
           \A i \in Items : Placed(requestChan', its, batches, answer, call, i),
           TakeBatch(its),
           UNCHANGED <<answer, call, processingCount, currentBatchSize, flushes, closed>>
    PROVE  Kept'
<1>1. CASE activeCount >= MaxConcurrentBatches
  <2>1. items' = its /\ UNCHANGED <<activeCount, batches>>
    BY <1>1 DEF TakeBatch
  <2>2. BatchesOK' /\ ActiveCountExact' /\ ProcessingExact' /\ BatchSizeInRange'
    BY <2>1, SameCounters
  <2> QED
    BY <2>1, <2>2 DEF Kept, EachPlaced
<1>2. CASE ~(activeCount >= MaxConcurrentBatches)
  <2>1. /\ activeCount' = activeCount + 1 /\ items' = <<>>
        /\ batches' = batches \cup {Batch(its, "loop")}
    BY <1>2 DEF TakeBatch
  <2>2. /\ BatchesOK' /\ EachPlaced' /\ ProcessingExact'
        /\ Cardinality(batches') = Cardinality(batches) + 1
    BY <2>1, StartKeeps
  <2>3. activeCount \in Int /\ MaxConcurrentBatches \in Nat
    BY BatcherAssumption DEF BatcherInv, TypeOK
  <2>4. activeCount + 1 <= MaxConcurrentBatches
    BY <1>2, <2>3
  <2>5. ActiveCountExact'
    BY <2>1, <2>2, <2>4 DEF BatcherInv, ActiveCountExact
  <2>6. BatchSizeInRange'
    BY DEF BatcherInv, BatchSizeInRange
  <2> QED
    BY <2>2, <2>5, <2>6 DEF Kept
<1> QED
  BY <1>1, <1>2

(* processLoop and the timer. *)
LEMMA LoopKeeps ==
    ASSUME BatcherInv, LoopStep \/ TimerFires
    PROVE  Kept'
<1>0. requestChan \in Seq(Items) /\ items \in Seq(Items) /\ EachPlaced
  BY DEF BatcherInv, TypeOK
<1>1. CASE LoopItem
  <2> DEFINE its == Append(items, Head(requestChan))
  <2>1. /\ requestChan # <<>> /\ requestChan' = Tail(requestChan)
        /\ UNCHANGED <<answer, call, processingCount, currentBatchSize, flushes, closed>>
        /\ \/ TakeBatch(its)
           \/ items' = its /\ UNCHANGED <<activeCount, batches>>
    BY <1>1 DEF LoopItem, sizeVars, closeVars, callVars
  <2>2. Head(requestChan) \in Items
    BY <1>0, <2>1
  <2>3. its \in Seq(Items) /\ its # <<>>
    BY <1>0, <2>2
  <2>4. ASSUME NEW i \in Items PROVE Placed(requestChan', its, batches, answer, call, i)
    <3>1. Placed(requestChan, items, batches, answer, call, i)
      BY <1>0 DEF EachPlaced
    <3>2. /\ Contains(requestChan, i) <=> Contains(requestChan', i) \/ i = Head(requestChan)
          /\ Once(requestChan, i) => /\ Once(requestChan', i)
                                     /\ i = Head(requestChan) => ~Contains(requestChan', i)
      BY <1>0, <2>1, TailHas
    <3>3. /\ Contains(its, i) <=> Contains(items, i) \/ i = Head(requestChan)
          /\ Once(items, i) /\ (i = Head(requestChan) => ~Contains(items, i)) => Once(its, i)
      BY <1>0, <2>2, AppendHas
    <3> HIDE DEF its
    <3>4. /\ Once(requestChan', i) /\ Once(its, i)
          /\ Contains(requestChan', i) \/ Contains(its, i)
               <=> Contains(requestChan, i) \/ Contains(items, i)
          /\ ~(Contains(requestChan', i) /\ Contains(its, i))
      BY <3>1, <3>2, <3>3 DEF Placed
    <3> QED
      BY <3>1, <3>4, MovesOn
  <2> HIDE DEF its
  <2>5. CASE TakeBatch(its)
    BY <2>1, <2>3, <2>4, <2>5, TakeKeeps
  <2>6. CASE items' = its /\ UNCHANGED <<activeCount, batches>>
    <3>1. BatchesOK' /\ ActiveCountExact' /\ ProcessingExact' /\ BatchSizeInRange'
      BY <2>1, <2>6, SameCounters
    <3> QED
      BY <2>1, <2>4, <2>6, <3>1 DEF Kept, EachPlaced
  <2> QED
    BY <2>1, <2>5, <2>6
<1>2. CASE LoopTimer
  <2>1. UNCHANGED <<requestChan, answer, call, processingCount, currentBatchSize, flushes, closed>>
    BY <1>2 DEF LoopTimer, sizeVars, closeVars, callVars
  <2>2. CASE items # <<>>
    <3>1. TakeBatch(items)
      BY <1>2, <2>2 DEF LoopTimer
    <3>2. \A i \in Items : Placed(requestChan', items, batches, answer, call, i)
      BY <1>0, <2>1 DEF EachPlaced
    <3> QED
      BY <1>0, <2>1, <2>2, <3>1, <3>2, TakeKeeps
  <2>3. CASE items = <<>>
    <3>1. UNCHANGED <<items, activeCount, batches>>
      BY <1>2, <2>3 DEF LoopTimer
    <3>2. BatchesOK' /\ ActiveCountExact' /\ ProcessingExact' /\ BatchSizeInRange'
      BY <2>1, <3>1, SameCounters
    <3> QED
      BY <1>0, <2>1, <3>1, <3>2 DEF Kept, EachPlaced
  <2> QED
    BY <2>2, <2>3
<1>3. CASE LoopStops \/ TimerFires
  <2>1. UNCHANGED <<requestChan, items, batches, answer, call, activeCount, processingCount,
                    currentBatchSize, flushes, closed>>
    BY <1>3 DEF LoopStops, TimerFires, sizeVars, closeVars, callVars
  <2>2. BatchesOK' /\ ActiveCountExact' /\ ProcessingExact' /\ BatchSizeInRange'
    BY <2>1, SameCounters
  <2> QED
    BY <1>0, <2>1, <2>2 DEF Kept, EachPlaced
<1> QED
  BY <1>1, <1>2, <1>3 DEF LoopStep

-----------------------------------------------------------------------------
(* processBatch *)

(* Batch goroutine b becomes c, and has answered what it keeps no longer.  *)
LEMMA BecomeKeeps ==
    ASSUME BatcherInv, NEW b \in batches, b.at # "end", NEW c \in BatchRecs, c.items # <<>>,
           Becomes(b, c),
           \A i : Contains(c.items, i) => Contains(b.items, i),
           \A i \in Items : ~Contains(b.items, i) => answer'[i] = answer[i],
           \A i \in Items : Contains(b.items, i) =>
               IF c.at # "end" /\ Contains(c.items, i) THEN answer'[i] = answer[i]
               ELSE answer'[i] # "none",
           UNCHANGED <<requestChan, items, call, activeCount, flushes, closed>>
    PROVE  /\ BatchesOK' /\ EachPlaced' /\ ActiveCountExact'
           /\ c.at # "run" => RunSet(batches') = RunSet(batches) \ {b}
           /\ c.at = "run" /\ b.at # "run" =>
                RunSet(batches') = RunSet(batches) \cup {c} /\ c \notin RunSet(batches)
<1>1. BatchesOK /\ EachPlaced /\ IsFiniteSet(batches) /\ batches' = (batches \ {b}) \cup {c}
  BY DEF BatcherInv, BatchesOK, Becomes
<1>2. c \notin batches \ {b}
  BY <1>1, BecameIsNew
<1>3. IsFiniteSet(batches') /\ Cardinality(batches') = Cardinality(batches)
  BY <1>1, <1>2, Replaced
<1>4. BatchesOK'
  BY <1>1, <1>3 DEF BatchesOK
<1>5. ASSUME NEW i \in Items PROVE Placed(requestChan, items, batches, answer, call, i)'
  <2>1. Placed(requestChan, items, batches, answer, call, i)
    BY <1>1 DEF EachPlaced
  <2>2. Placed(requestChan, items, (batches \ {b}) \cup {c}, answer', call, i)
    BY <2>1, Became
  <2> QED
    BY <1>1, <2>2
<1>6. ActiveCountExact'
  BY <1>3 DEF BatcherInv, ActiveCountExact
<1>7. c.at # "run" => RunSet(batches') = RunSet(batches) \ {b}
  BY <1>1 DEF RunSet
<1>8. c.at = "run" /\ b.at # "run" =>
        RunSet(batches') = RunSet(batches) \cup {c} /\ c \notin RunSet(batches)
  BY <1>1, <1>2 DEF RunSet
<1> QED
  BY <1>4, <1>5, <1>6, <1>7, <1>8 DEF EachPlaced

(* The goroutines whose processor runs can be counted. *)
LEMMA RunSetFinite ==
    ASSUME BatcherInv
    PROVE  /\ IsFiniteSet(RunSet(batches)) /\ Cardinality(RunSet(batches)) = processingCount
           /\ processingCount \in Nat
<1>1. RunSet(batches) \subseteq batches /\ IsFiniteSet(batches)
  BY DEF RunSet, BatcherInv, BatchesOK
<1> QED
  BY <1>1, FS_Subset, FS_CardinalityType DEF BatcherInv, ProcessingExact, RunSet

(* The check of the contexts. *)
LEMMA CheckKeeps ==
    ASSUME BatcherInv, NEW b \in batches, CheckContexts(b)
    PROVE  Kept'
<1>0. /\ b \in BatchRecs /\ b.items \in Seq(Items) /\ b.items # <<>> /\ b.at = "check"
      /\ answer \in [Items -> {"none", "own", "whole", "error", "ctx"}]
  BY DEF BatcherInv, BatchesOK, BatchRecs, CheckContexts, TypeOK
<1>1. UNCHANGED <<requestChan, items, activeCount, currentBatchSize, call, flushes, closed>>
  BY DEF CheckContexts, closeVars
<1>2. PICK valid \in ValidItems(b.items) :
        /\ answer' = [i \in Items |->
                       IF ~Contains(b.items, i) THEN answer[i]
                       ELSE IF i \in done THEN "ctx"
                       ELSE IF Len(valid) > 1 /\ ~Merges THEN "error" ELSE answer[i]]
        /\ IF valid = <<>> \/ (Len(valid) > 1 /\ ~Merges)
           THEN Becomes(b, [b EXCEPT !.at = "end"]) /\ UNCHANGED processingCount
           ELSE /\ Becomes(b, [b EXCEPT !.items = valid, !.at = "run"])
                /\ Start
  BY DEF CheckContexts
<1>3. /\ valid \in Seq(Items)
      /\ \A i : Contains(valid, i) <=> Contains(b.items, i) /\ i \notin done
  BY <1>0, ValidFacts
<1>4. /\ BatchSizeInRange'
  BY <1>1 DEF BatcherInv, BatchSizeInRange
<1>5. CASE valid = <<>> \/ (Len(valid) > 1 /\ ~Merges)
  <2> DEFINE c == [b EXCEPT !.at = "end"]
  <2>1. Becomes(b, c) /\ processingCount' = processingCount
    BY <1>2, <1>5
  <2>2. c \in BatchRecs /\ c.items = b.items /\ c.at = "end"
    BY <1>0 DEF BatchRecs, BatchSteps
  <2> HIDE DEF c
  <2>3. ASSUME NEW i \in Items, Contains(b.items, i) PROVE answer'[i] # "none"
    <3>1. CASE i \in done
      BY <1>2, <2>3, <3>1
    <3>2. CASE i \notin done
      <4>1. valid # <<>>
        BY <1>3, <2>3, <3>2, EmptyHasNone
      <4> QED
        BY <1>2, <1>5, <2>3, <3>2, <4>1
    <3> QED
      BY <3>1, <3>2
  <2>4. \A i \in Items : ~Contains(b.items, i) => answer'[i] = answer[i]
    BY <1>2
  <2>5. BatchesOK' /\ EachPlaced' /\ ActiveCountExact' /\ RunSet(batches') = RunSet(batches) \ {b}
    BY <1>0, <1>1, <2>1, <2>2, <2>3, <2>4, BecomeKeeps
  <2>6. RunSet(batches') = RunSet(batches)
    BY <1>0, <2>5 DEF RunSet
  <2>7. ProcessingExact'
    BY <2>1, <2>6 DEF BatcherInv, ProcessingExact, RunSet
  <2> QED
    BY <1>4, <2>5, <2>7 DEF Kept
<1>6. CASE ~(valid = <<>> \/ (Len(valid) > 1 /\ ~Merges))
  <2> DEFINE c == [b EXCEPT !.items = valid, !.at = "run"]
  <2>1. Becomes(b, c) /\ processingCount' = processingCount + 1
    BY <1>2, <1>6 DEF Start
  <2>2. c \in BatchRecs /\ c.items = valid /\ c.at = "run" /\ c.items # <<>>
    BY <1>0, <1>3, <1>6 DEF BatchRecs, BatchSteps
  <2> HIDE DEF c
  <2>3. ASSUME NEW i \in Items, Contains(b.items, i)
        PROVE  IF c.at # "end" /\ Contains(c.items, i) THEN answer'[i] = answer[i]
               ELSE answer'[i] # "none"
    BY <1>2, <1>3, <1>6, <2>2, <2>3
  <2>4. \A i \in Items : ~Contains(b.items, i) => answer'[i] = answer[i]
    BY <1>2
  <2>5. \A i : Contains(c.items, i) => Contains(b.items, i)
    BY <1>3, <2>2
  <2>6. /\ BatchesOK' /\ EachPlaced' /\ ActiveCountExact'
        /\ RunSet(batches') = RunSet(batches) \cup {c} /\ c \notin RunSet(batches)
    BY <1>0, <1>1, <2>1, <2>2, <2>3, <2>4, <2>5, BecomeKeeps
  <2>7. Cardinality(RunSet(batches')) = processingCount + 1
    <3>1. PICK R : R = RunSet(batches)
      OBVIOUS
    <3>2. IsFiniteSet(R) /\ Cardinality(R) = processingCount
      BY <3>1, RunSetFinite
    <3>3. Cardinality(R \cup {c}) = Cardinality(R) + 1
      BY <2>6, <3>1, <3>2, FS_AddElement
    <3> QED
      BY <2>6, <3>1, <3>2, <3>3
  <2>8. ProcessingExact'
    BY <2>1, <2>7 DEF ProcessingExact, RunSet
  <2> QED
    BY <1>4, <2>6, <2>8 DEF Kept
<1> QED
  BY <1>5, <1>6

(* The processor returns. *)
LEMMA ReturnKeeps ==
    ASSUME BatcherInv, NEW b \in batches, ProcessorReturns(b)
    PROVE  Kept'
<1>0. b \in BatchRecs /\ b.items # <<>> /\ b.at = "run"
  BY DEF BatcherInv, BatchesOK, ProcessorReturns
<1>1. /\ UNCHANGED <<requestChan, items, activeCount, currentBatchSize, call, flushes, closed, answer>>
      /\ processingCount' = processingCount - 1
  BY DEF ProcessorReturns, closeVars, callVars
<1>2. PICK r \in {"ok", "err"} : Becomes(b, [b EXCEPT !.at = r])
  BY DEF ProcessorReturns
<1> DEFINE c == [b EXCEPT !.at = r]
<1>3. Becomes(b, c) /\ c \in BatchRecs /\ c.items = b.items /\ c.at \in {"ok", "err"}
  BY <1>0, <1>2 DEF BatchRecs, BatchSteps
<1> HIDE DEF c
<1>4. BatchesOK' /\ EachPlaced' /\ ActiveCountExact' /\ RunSet(batches') = RunSet(batches) \ {b}
  BY <1>0, <1>1, <1>3, BecomeKeeps
<1>5. b \in RunSet(batches)
  BY <1>0 DEF RunSet
<1>6. Cardinality(RunSet(batches')) = processingCount - 1
  BY <1>4, <1>5, RunSetFinite, BatchCount
<1>7. ProcessingExact'
  BY <1>1, <1>6 DEF ProcessingExact, RunSet
<1>8. BatchSizeInRange'
  BY <1>1 DEF BatcherInv, BatchSizeInRange
<1> QED
  BY <1>4, <1>7, <1>8 DEF Kept

(* Adapting goes down to MinBatchSize and up to MaxBatchSize at most.      *)
LEMMA AdaptedInBounds ==
    ASSUME BatchSizeInRange
    PROVE  AdaptedSize \in MinBatchSize .. MaxBatchSize
<1>1. /\ MinBatchSize \in Nat /\ MaxBatchSize \in Nat /\ currentBatchSize \in Nat
      /\ MinBatchSize <= currentBatchSize /\ currentBatchSize <= MaxBatchSize
      /\ HighLoadFactor \in Nat /\ HighLoadFactor <= 100
      /\ LowLoadFactor \in Nat /\ LowLoadFactor >= 100
  BY BatcherAssumption DEF BatchSizeInRange
<1>2. PICK d \in Nat : d = currentBatchSize * HighLoadFactor /\ d <= currentBatchSize * 100
  <2>1. currentBatchSize * HighLoadFactor \in Nat
    BY <1>1
  <2>2. currentBatchSize * HighLoadFactor <= currentBatchSize * 100
    BY <1>1
  <2> QED
    BY <2>1, <2>2
<1>3. PICK u \in Nat : u = currentBatchSize * LowLoadFactor /\ u >= currentBatchSize * 100
  <2>1. currentBatchSize * LowLoadFactor \in Nat
    BY <1>1
  <2>2. currentBatchSize * LowLoadFactor >= currentBatchSize * 100
    BY <1>1
  <2> QED
    BY <2>1, <2>2
<1>4. d \div 100 \in Nat /\ d \div 100 <= currentBatchSize
  BY <1>1, <1>2
<1>5. u \div 100 \in Nat /\ u \div 100 >= currentBatchSize
  BY <1>1, <1>3
<1>6. AdaptedSize = IF HighLoad THEN (IF d \div 100 < MinBatchSize THEN MinBatchSize ELSE d \div 100)
                    ELSE IF LowLoad THEN (IF u \div 100 > MaxBatchSize THEN MaxBatchSize ELSE u \div 100)
                    ELSE currentBatchSize
  BY <1>2, <1>3 DEF AdaptedSize
<1> QED
  BY <1>1, <1>4, <1>5, <1>6

(* Every item of the batch is answered. *)
LEMMA AnswerKeeps ==
    ASSUME BatcherInv, NEW b \in batches, AdaptAndAnswer(b)
    PROVE  Kept'
<1>0. b \in BatchRecs /\ b.items # <<>>
  BY DEF BatcherInv, BatchesOK
<1>1. /\ UNCHANGED <<requestChan, items, activeCount, processingCount, call, flushes, closed>>
      /\ currentBatchSize' = AdaptedSize
      /\ Answers(b) /\ Becomes(b, [b EXCEPT !.at = "end"])
  BY DEF AdaptAndAnswer, closeVars
<1>2. b.at \in {"ok", "err"}
  BY <1>1 DEF Answers
<1> DEFINE c == [b EXCEPT !.at = "end"]
<1>3. Becomes(b, c) /\ c \in BatchRecs /\ c.items = b.items /\ c.at = "end"
  BY <1>0, <1>1 DEF BatchRecs, BatchSteps
<1> HIDE DEF c
<1>4. /\ \A i \in Items : Contains(b.items, i) => answer'[i] # "none"
      /\ \A i \in Items : ~Contains(b.items, i) => answer'[i] = answer[i]
  <2>1. ASSUME NEW how \in {"error", "whole", "own"}, Close(b.items, how)
        PROVE  /\ \A i \in Items : Contains(b.items, i) => answer'[i] # "none"
               /\ \A i \in Items : ~Contains(b.items, i) => answer'[i] = answer[i]
    BY <2>1 DEF Close
  <2>2. ASSUME NEW n,
               answer' = [i \in Items |->
                            IF ~Contains(b.items, i) THEN answer[i]
                            ELSE IF \E k \in 1 .. n : b.items[k] = i THEN "own" ELSE "error"]
        PROVE  /\ \A i \in Items : Contains(b.items, i) => answer'[i] # "none"
               /\ \A i \in Items : ~Contains(b.items, i) => answer'[i] = answer[i]
    BY <2>2
  <2> QED
    BY <1>1, <2>1, <2>2 DEF Answers
<1>5. BatchesOK' /\ EachPlaced' /\ ActiveCountExact' /\ RunSet(batches') = RunSet(batches) \ {b}
  BY <1>0, <1>1, <1>2, <1>3, <1>4, BecomeKeeps
<1>6. RunSet(batches') = RunSet(batches)
  BY <1>2, <1>5 DEF RunSet
<1>7. ProcessingExact'
  BY <1>1, <1>6 DEF BatcherInv, ProcessingExact, RunSet
<1>8. BatchSizeInRange'
  BY <1>1, AdaptedInBounds DEF BatcherInv, BatchSizeInRange
<1> QED
  BY <1>5, <1>7, <1>8 DEF Kept

(* The goroutine gives its slot back. *)
LEMMA SlotKeeps ==
    ASSUME BatcherInv, NEW b \in batches, EndBatch(b)
    PROVE  Kept'
<1>1. /\ b.at = "end" /\ activeCount' = activeCount - 1 /\ batches' = batches \ {b}
      /\ UNCHANGED <<requestChan, items, processingCount, currentBatchSize, flushes, closed, call,
                     answer>>
  BY DEF EndBatch, sizeVars, closeVars, callVars
<1>2. BatchesOK /\ EachPlaced /\ IsFiniteSet(batches)
  BY DEF BatcherInv, BatchesOK
<1>3. IsFiniteSet(batches') /\ Cardinality(batches') = Cardinality(batches) - 1
  BY <1>1, <1>2, BatchCount
<1>4. BatchesOK'
  BY <1>1, <1>2, <1>3 DEF BatchesOK
<1>5. EachPlaced'
  BY <1>1, <1>2, Ended DEF EachPlaced
<1>6. RunSet(batches') = RunSet(batches)
  BY <1>1 DEF RunSet
<1>7. ProcessingExact'
  BY <1>1, <1>6 DEF BatcherInv, ProcessingExact, RunSet
<1>8. activeCount \in Int /\ MaxConcurrentBatches \in Nat
  BY BatcherAssumption DEF BatcherInv, TypeOK
<1>9. ActiveCountExact'
  BY <1>1, <1>3, <1>8 DEF BatcherInv, ActiveCountExact
<1>10. BatchSizeInRange'
  BY <1>1 DEF BatcherInv, BatchSizeInRange
<1> QED
  BY <1>4, <1>5, <1>7, <1>9, <1>10 DEF Kept

-----------------------------------------------------------------------------
(* Flush, Close and the statistics. *)
LEMMA CloseKeeps ==
    ASSUME BatcherInv, UpdateStats \/ Flush \/ CloseMark \/ CloseStep
    PROVE  Kept'
<1>0. requestChan \in Seq(Items) /\ items \in Seq(Items) /\ EachPlaced /\ flushes \in Nat
  BY BatcherAssumption DEF BatcherInv, TypeOK
<1>1. CASE UpdateStats \/ CloseMark \/ CloseStop \/ CloseReturns
  <2>1. UNCHANGED <<requestChan, items, batches, answer, call, activeCount, processingCount,
                    currentBatchSize, flushes>>
    BY <1>1 DEF UpdateStats, CloseMark, CloseStop, CloseReturns, loopVars, sizeVars, closeVars, callVars
  <2>2. closed' = closed \/ closed'
    BY <1>1 DEF UpdateStats, CloseMark, CloseStop, CloseReturns, closeVars
  <2>3. BatchesOK' /\ ActiveCountExact' /\ ProcessingExact' /\ BatchSizeInRange'
    BY <2>1, <2>2, SameCounters
  <2> QED
    BY <1>0, <2>1, <2>3 DEF Kept, EachPlaced
<1>2. CASE Flush \/ CloseFlush
  <2>1. UNCHANGED <<requestChan, answer, call, activeCount, processingCount, currentBatchSize>>
    BY <1>2 DEF Flush, CloseFlush, sizeVars, callVars
  <2>2. PICK by \in {"flush", "close"} : FlushBy(by)
    BY <1>2 DEF Flush, CloseFlush
  <2>3. ~(flushes' = 0 /\ ~closed')
    <3>1. CASE Flush
      <4>1. flushes' = flushes + 1
        BY <3>1 DEF Flush
      <4> QED
        BY <1>0, <4>1
    <3>2. CASE CloseFlush
      BY <3>2 DEF CloseFlush, BatcherInv, ClosedWhenClosing
    <3> QED
      BY <1>2, <3>1, <3>2
  <2>4. CASE items = <<>>
    <3>1. items' = items /\ batches' = batches
      BY <2>2, <2>4 DEF FlushBy
    <3>2. BatchesOK' /\ ActiveCountExact' /\ ProcessingExact' /\ BatchSizeInRange'
      BY <2>1, <2>3, <3>1, SameCounters
    <3> QED
      BY <1>0, <2>1, <3>1, <3>2 DEF Kept, EachPlaced
  <2>5. CASE items # <<>>
    <3>1. items' = <<>> /\ batches' = batches \cup {Batch(items, by)}
      BY <2>2, <2>5 DEF FlushBy
    <3>2. \A i \in Items : Placed(requestChan', items, batches, answer, call, i)
      BY <1>0, <2>1 DEF EachPlaced
    <3>3. BatchesOK' /\ EachPlaced' /\ ProcessingExact'
      BY <1>0, <2>1, <2>5, <3>1, <3>2, StartKeeps
    <3>4. ActiveCountExact'
      BY <2>3 DEF ActiveCountExact
    <3>5. BatchSizeInRange'
      BY <2>1 DEF BatcherInv, BatchSizeInRange
    <3> QED
      BY <3>3, <3>4, <3>5 DEF Kept
  <2> QED
    BY <2>4, <2>5
<1> QED
  BY <1>1, <1>2 DEF CloseStep

-----------------------------------------------------------------------------
(* The types *)

CallSteps == {"new", "sending", "waiting", "refused", "answered", "ctx"}
AnswerKinds == {"none", "own", "whole", "error", "ctx"}

(* The queue has room for what is sent, the rest moves between the lists.  *)
LEMMA ListTypes ==
    ASSUME BatcherInv, Next \/ UNCHANGED vars
    PROVE  /\ requestChan' \in Seq(Items) /\ Len(requestChan') <= 2 * MaxBatchSize
           /\ items' \in Seq(Items)
<1>0. /\ requestChan \in Seq(Items) /\ Len(requestChan) <= 2 * MaxBatchSize
      /\ items \in Seq(Items) /\ <<>> \in Seq(Items)
      /\ MaxBatchSize \in Nat /\ Len(requestChan) \in Nat
  <2>1. requestChan \in Seq(Items) /\ Len(requestChan) <= 2 * MaxBatchSize /\ items \in Seq(Items)
    BY DEF BatcherInv, TypeOK
  <2>2. <<>> \in Seq(Items)
    OBVIOUS
  <2>3. MaxBatchSize \in Nat
    BY BatcherAssumption
  <2> QED
    BY <2>1, <2>2, <2>3
<1>1. ASSUME NEW i \in Items, Enqueue(i)
      PROVE  /\ requestChan' \in Seq(Items) /\ Len(requestChan') <= 2 * MaxBatchSize
             /\ items' \in Seq(Items)
  <2>1. requestChan' = Append(requestChan, i) /\ Len(requestChan) < 2 * MaxBatchSize /\ items' = items
    BY <1>1 DEF Enqueue
  <2>2. requestChan' \in Seq(Items) /\ Len(requestChan') = Len(requestChan) + 1
    BY <1>0, <2>1
  <2> QED
    BY <1>0, <2>1, <2>2
<1>2. ASSUME LoopItem
      PROVE  /\ requestChan' \in Seq(Items) /\ Len(requestChan') <= 2 * MaxBatchSize
             /\ items' \in Seq(Items)
  <2>1. requestChan # <<>> /\ requestChan' = Tail(requestChan)
    BY <1>2 DEF LoopItem
  <2>2. items' = <<>> \/ items' = Append(items, Head(requestChan))
    BY <1>2 DEF LoopItem, TakeBatch
  <2>3. /\ Head(requestChan) \in Items /\ Tail(requestChan) \in Seq(Items)
        /\ Len(Tail(requestChan)) = Len(requestChan) - 1
    BY <1>0, <2>1
  <2>4. Append(items, Head(requestChan)) \in Seq(Items)
    BY <1>0, <2>3
  <2>5. Len(requestChan') <= 2 * MaxBatchSize
    BY <1>0, <2>1, <2>3
  <2> QED
    BY <1>0, <2>1, <2>2, <2>3, <2>4, <2>5
<1>3. ASSUME LoopTimer \/ Flush \/ CloseFlush
      PROVE  requestChan' = requestChan /\ (items' = items \/ items' = <<>>)
  BY <1>3 DEF LoopTimer, TakeBatch, Flush, CloseFlush, FlushBy
<1>4. ASSUME NEW i \in Items, Process(i) \/ ReturnAnswer(i) \/ ReturnCtx(i) \/ CtxDone(i)
      PROVE  UNCHANGED <<requestChan, items>>
  BY <1>4 DEF Process, ReturnAnswer, ReturnCtx, CtxDone, loopVars
<1>5. ASSUME NEW b \in batches,
             CheckContexts(b) \/ ProcessorReturns(b) \/ AdaptAndAnswer(b) \/ EndBatch(b)
      PROVE  UNCHANGED <<requestChan, items>>
  BY <1>5 DEF CheckContexts, ProcessorReturns, AdaptAndAnswer, EndBatch
<1>6. ASSUME LoopStops \/ TimerFires \/ UpdateStats \/ CloseMark \/ CloseStop \/ CloseReturns
             \/ UNCHANGED vars
      PROVE  UNCHANGED <<requestChan, items>>
  BY <1>6 DEF LoopStops, TimerFires, UpdateStats, CloseMark, CloseStop, CloseReturns, loopVars, vars
<1> QED
  BY <1>0, <1>1, <1>2, <1>3, <1>4, <1>5, <1>6 DEF Next, CallStep, LoopStep, BatchStep, CloseStep

(* Calls and answers. *)
LEMMA CallTypes ==
    ASSUME BatcherInv, Next \/ UNCHANGED vars
    PROVE  /\ call' \in [Items -> CallSteps] /\ done' \subseteq Items
           /\ answer' \in [Items -> AnswerKinds]
<1>0. call \in [Items -> CallSteps] /\ done \subseteq Items /\ answer \in [Items -> AnswerKinds]
  BY DEF BatcherInv, TypeOK, CallSteps, AnswerKinds
<1>1. ASSUME NEW i \in Items, Process(i) \/ CallStep(i)
      PROVE  call' \in [Items -> CallSteps] /\ done' = done /\ answer' = answer
  BY <1>0, <1>1 DEF Process, CallStep, Enqueue, ReturnAnswer, ReturnCtx, CallSteps
<1>2. ASSUME NEW i \in Items, CtxDone(i)
      PROVE  call' = call /\ done' \subseteq Items /\ answer' = answer
  BY <1>0, <1>2 DEF CtxDone
<1>3. ASSUME NEW b \in batches, CheckContexts(b)
      PROVE  call' = call /\ done' = done /\ answer' \in [Items -> AnswerKinds]
  <2>1. call' = call /\ done' = done
    BY <1>3 DEF CheckContexts
  <2>2. PICK valid :
          answer' = [i \in Items |->
                       IF ~Contains(b.items, i) THEN answer[i]
                       ELSE IF i \in done THEN "ctx"
                       ELSE IF Len(valid) > 1 /\ ~Merges THEN "error" ELSE answer[i]]
    BY <1>3 DEF CheckContexts
  <2>3. answer' \in [Items -> AnswerKinds]
    BY <1>0, <2>2 DEF AnswerKinds
  <2> QED
    BY <2>1, <2>3
<1>4. ASSUME NEW b \in batches, AdaptAndAnswer(b)
      PROVE  call' = call /\ done' = done /\ answer' \in [Items -> AnswerKinds]
  <2>1. call' = call /\ done' = done /\ Answers(b)
    BY <1>4 DEF AdaptAndAnswer
  <2>2. ASSUME NEW how \in {"error", "whole", "own"}, Close(b.items, how)
        PROVE  answer' \in [Items -> AnswerKinds]
    BY <1>0, <2>2 DEF Close, AnswerKinds
  <2>3. ASSUME NEW n,
               answer' = [i \in Items |->
                            IF ~Contains(b.items, i) THEN answer[i]
                            ELSE IF \E k \in 1 .. n : b.items[k] = i THEN "own" ELSE "error"]
        PROVE  answer' \in [Items -> AnswerKinds]
    BY <1>0, <2>3 DEF AnswerKinds
  <2>4. answer' \in [Items -> AnswerKinds]
    BY <2>1, <2>2, <2>3 DEF Answers
  <2> QED
    BY <2>1, <2>4
<1>5. ASSUME NEW b \in batches, ProcessorReturns(b) \/ EndBatch(b)
      PROVE  UNCHANGED callVars
  BY <1>5 DEF ProcessorReturns, EndBatch
<1>6. ASSUME LoopStep \/ TimerFires \/ UpdateStats \/ Flush \/ CloseMark \/ CloseStep \/ UNCHANGED vars
      PROVE  UNCHANGED callVars
  BY <1>6 DEF LoopStep, LoopItem, LoopTimer, LoopStops, TimerFires, UpdateStats, Flush, CloseMark,
              CloseStep, CloseStop, CloseFlush, CloseReturns, callVars, vars
<1> QED
  BY <1>0, <1>1, <1>2, <1>3, <1>4, <1>5, <1>6 DEF Next, BatchStep, callVars

(* The counters and flags. *)
LEMMA FlagTypes ==
    ASSUME BatcherInv, Next \/ UNCHANGED vars
    PROVE  /\ activeCount' \in Int /\ load' \in Nat /\ lastProcessTime' \in BOOLEAN
           /\ timer' \in {"off", "armed", "fired"} /\ timerActive' \in BOOLEAN
           /\ closed' \in BOOLEAN /\ stop' \in BOOLEAN /\ loop' \in {"run", "gone"}
           /\ closer' \in {"no", "stop", "flush", "wait", "returned"}
           /\ flushes' \in 0 .. MaxFlushes
           /\ <<Merges, Splits>>' \in FuncOptions
           /\ ClosedWhenClosing'
<1> DEFINE Goal ==
           /\ activeCount' \in Int /\ load' \in Nat /\ lastProcessTime' \in BOOLEAN
           /\ timer' \in {"off", "armed", "fired"} /\ timerActive' \in BOOLEAN
           /\ closed' \in BOOLEAN /\ stop' \in BOOLEAN /\ loop' \in {"run", "gone"}
           /\ closer' \in {"no", "stop", "flush", "wait", "returned"}
           /\ flushes' \in 0 .. MaxFlushes
           /\ ClosedWhenClosing'
<1>0. /\ activeCount \in Int /\ load \in Nat /\ processingCount \in Nat /\ lastProcessTime \in BOOLEAN
      /\ timer \in {"off", "armed", "fired"} /\ timerActive \in BOOLEAN
      /\ closed \in BOOLEAN /\ stop \in BOOLEAN /\ loop \in {"run", "gone"}
      /\ closer \in {"no", "stop", "flush", "wait", "returned"}
      /\ flushes \in 0 .. MaxFlushes /\ MaxFlushes \in Nat
      /\ <<Merges, Splits>> \in FuncOptions
      /\ (closer # "no" => closed)
  BY BatcherAssumption DEF BatcherInv, TypeOK, ClosedWhenClosing
<1>1. <<Merges, Splits>>' \in FuncOptions
  BY <1>0 DEF Next, funcVars, vars
<1>2. ASSUME NEW i \in Items, Process(i) \/ CallStep(i) \/ CtxDone(i) PROVE Goal
  BY <1>0, <1>2
     DEF Process, CallStep, Enqueue, ReturnAnswer, ReturnCtx, CtxDone, loopVars, sizeVars, closeVars,
         ClosedWhenClosing
<1>3. ASSUME LoopItem PROVE Goal
  <2>1. UNCHANGED <<loop, load, lastProcessTime, closed, stop, closer, flushes>>
    BY <1>3 DEF LoopItem, sizeVars, closeVars
  <2>2. activeCount' = activeCount \/ activeCount' = activeCount + 1
    BY <1>3 DEF LoopItem, TakeBatch
  <2>3. timer' \in {timer, "armed"} /\ timerActive' \in BOOLEAN
    BY <1>0, <1>3 DEF LoopItem, ArmTimer
  <2>4. activeCount' \in Int
    BY <1>0, <2>2
  <2> QED
    BY <1>0, <2>1, <2>3, <2>4 DEF ClosedWhenClosing
<1>4. ASSUME LoopTimer \/ LoopStops \/ TimerFires PROVE Goal
  <2>1. UNCHANGED <<load, lastProcessTime, closed, stop, closer, flushes>>
    BY <1>4 DEF LoopTimer, LoopStops, TimerFires, sizeVars, closeVars
  <2>2. activeCount' = activeCount \/ activeCount' = activeCount + 1
    BY <1>4 DEF LoopTimer, LoopStops, TimerFires, TakeBatch
  <2>3. timer' \in {timer, "off", "fired"} /\ timerActive' \in BOOLEAN /\ loop' \in {"run", "gone"}
    BY <1>0, <1>4 DEF LoopTimer, LoopStops, TimerFires
  <2>4. activeCount' \in Int
    BY <1>0, <2>2
  <2> QED
    BY <1>0, <2>1, <2>3, <2>4 DEF ClosedWhenClosing
<1>5. ASSUME NEW b \in batches, CheckContexts(b) \/ ProcessorReturns(b) \/ AdaptAndAnswer(b) \/ EndBatch(b)
      PROVE  Goal
  <2>1. UNCHANGED <<load, closed, stop, closer, flushes, timer, timerActive, loop>>
    BY <1>5 DEF CheckContexts, ProcessorReturns, AdaptAndAnswer, EndBatch, sizeVars, closeVars
  <2>2. activeCount' = activeCount \/ activeCount' = activeCount - 1
    BY <1>5 DEF CheckContexts, ProcessorReturns, AdaptAndAnswer, EndBatch
  <2>3. lastProcessTime' = lastProcessTime \/ lastProcessTime' = TRUE
    BY <1>5 DEF CheckContexts, ProcessorReturns, AdaptAndAnswer, EndBatch, sizeVars
  <2>4. activeCount' \in Int
    BY <1>0, <2>2
  <2> QED
    BY <1>0, <2>1, <2>3, <2>4 DEF ClosedWhenClosing
<1>6. ASSUME UpdateStats PROVE Goal
  <2>1. UNCHANGED <<activeCount, lastProcessTime, closed, stop, closer, flushes, timer, timerActive, loop>>
    BY <1>6 DEF UpdateStats, loopVars, closeVars
  <2>2. load' \in Nat
    BY <1>0, <1>6 DEF UpdateStats
  <2> QED
    BY <1>0, <2>1, <2>2 DEF ClosedWhenClosing
<1>7. ASSUME Flush PROVE Goal
  <2>1. UNCHANGED <<activeCount, load, lastProcessTime, closed, stop, closer, timer, timerActive, loop>>
    BY <1>7 DEF Flush, sizeVars
  <2>2. flushes < MaxFlushes /\ flushes' = flushes + 1
    BY <1>7 DEF Flush
  <2>3. flushes' \in 0 .. MaxFlushes
    BY <1>0, <2>2
  <2> QED
    BY <1>0, <2>1, <2>3 DEF ClosedWhenClosing
<1>8. ASSUME CloseMark \/ CloseStep PROVE Goal
  <2>1. UNCHANGED <<activeCount, load, lastProcessTime, flushes, timerActive, loop>>
    BY <1>8 DEF CloseMark, CloseStep, CloseStop, CloseFlush, CloseReturns, loopVars, sizeVars
  <2>2. timer' = timer \/ timer' = "off"
    BY <1>8 DEF CloseMark, CloseStep, CloseStop, CloseFlush, CloseReturns, loopVars
  <2>3. /\ closer' \in {"stop", "flush", "wait", "returned"}
        /\ closed' = TRUE /\ (stop' = stop \/ stop' = TRUE)
    BY <1>0, <1>8 DEF CloseMark, CloseStep, CloseStop, CloseFlush, CloseReturns
  <2> QED
    BY <1>0, <2>1, <2>2, <2>3 DEF ClosedWhenClosing
<1>9. ASSUME UNCHANGED vars PROVE Goal
  BY <1>0, <1>9 DEF vars, ClosedWhenClosing
<1>10. Goal
  BY <1>2, <1>3, <1>4, <1>5, <1>6, <1>7, <1>8, <1>9 DEF Next, LoopStep, BatchStep
<1> QED
  BY <1>1, <1>10

-----------------------------------------------------------------------------
(* A new batcher. *)
LEMMA BatcherInit == Init => BatcherInv
<1> SUFFICES ASSUME Init PROVE BatcherInv
  OBVIOUS
<1>1. /\ MaxBatchSize \in Nat /\ MinBatchSize \in Nat /\ MinBatchSize <= MaxBatchSize
      /\ MaxFlushes \in Nat /\ MaxConcurrentBatches \in Nat
  BY BatcherAssumption
<1>2. <<>> \in Seq(Items) /\ Len(<<>>) = 0
  OBVIOUS
<1>3. TypeOK
  <2>1. <<Merges, Splits>> \in FuncOptions
    <3>1. PICK f \in FuncOptions : Merges = f[1] /\ Splits = f[2]
      BY DEF Init
    <3>2. f \in BOOLEAN \X BOOLEAN
      BY BatcherAssumption
    <3> QED
      BY <3>1, <3>2
  <2>2. /\ requestChan \in Seq(Items) /\ Len(requestChan) <= 2 * MaxBatchSize /\ items \in Seq(Items)
    BY <1>1, <1>2 DEF Init
  <2>3. /\ activeCount \in Int /\ processingCount \in Nat /\ load \in Nat /\ currentBatchSize \in Nat
        /\ flushes \in 0 .. MaxFlushes
    BY <1>1 DEF Init
  <2>4. /\ call \in [Items -> {"new", "sending", "waiting", "refused", "answered", "ctx"}]
        /\ answer \in [Items -> {"none", "own", "whole", "error", "ctx"}]
        /\ done \subseteq Items
    BY DEF Init
  <2> QED
    BY <2>1, <2>2, <2>3, <2>4 DEF Init, TypeOK
<1>4. BatchesOK
  BY FS_EmptySet DEF Init, BatchesOK
<1>5. EachPlaced
  BY EmptyHasNone DEF Init, EachPlaced, Placed, InSome
<1>6. ActiveCountExact
  BY <1>1, FS_EmptySet DEF Init, ActiveCountExact
<1>7. ProcessingExact
  <2>1. {b \in batches : b.at = "run"} = {}
    BY DEF Init
  <2> QED
    BY <2>1, FS_EmptySet DEF Init, ProcessingExact
<1>8. BatchSizeInRange /\ ClosedWhenClosing
  BY <1>1 DEF Init, BatchSizeInRange, ClosedWhenClosing
<1> QED
  BY <1>3, <1>4, <1>5, <1>6, <1>7, <1>8 DEF BatcherInv

(* Every step keeps the invariant. *)
LEMMA BatcherNext == BatcherInv /\ [Next]_vars => BatcherInv'
<1> SUFFICES ASSUME BatcherInv, Next \/ UNCHANGED vars PROVE BatcherInv'
  OBVIOUS
<1>1. CASE UNCHANGED vars
  BY <1>1
     DEF vars, BatcherInv, TypeOK, BatchesOK, EachPlaced, ActiveCountExact, ProcessingExact,
         BatchSizeInRange, ClosedWhenClosing
<1>2. CASE Next
  <2>1. Kept'
    BY <1>2, CallKeeps, LoopKeeps, CheckKeeps, ReturnKeeps, AnswerKeeps, SlotKeeps, CloseKeeps
       DEF Next, BatchStep
  <2>2. /\ processingCount' \in Nat /\ currentBatchSize' \in Nat
    <3>1. IsFiniteSet({b \in batches' : b.at = "run"})
      BY <2>1, FS_Subset DEF Kept, BatchesOK
    <3>2. processingCount' = Cardinality({b \in batches' : b.at = "run"})
      BY <2>1 DEF Kept, ProcessingExact
    <3>3. processingCount' \in Nat
      BY <3>1, <3>2, FS_CardinalityType
    <3>4. MinBatchSize \in Nat /\ MaxBatchSize \in Nat
      BY BatcherAssumption
    <3>5. currentBatchSize' \in MinBatchSize .. MaxBatchSize
      BY <2>1 DEF Kept, BatchSizeInRange
    <3> QED
      BY <3>3, <3>4, <3>5
  <2>3. \A b \in batches' : /\ b.items \in Seq(Items) /\ b.by \in {"loop", "flush", "close"}
                            /\ b.at \in {"check", "run", "ok", "err", "end"}
    BY <2>1 DEF Kept, BatchesOK, BatchRecs, BatchSteps
  <2>4. TypeOK'
    BY <2>2, <2>3, ListTypes, CallTypes, FlagTypes DEF TypeOK, CallSteps, AnswerKinds
  <2>5. ClosedWhenClosing'
    BY FlagTypes
  <2> QED
    BY <2>1, <2>4, <2>5 DEF BatcherInv, Kept
<1> QED
  BY <1>1, <1>2

(* How often an item occurs, counted as OnePlace counts. *)
LEMMA CopiesOf ==
    ASSUME BatcherInv, NEW i \in Items
    PROVE  /\ Contains(requestChan, i) \/ Contains(items, i) \/ InSome(batches, i) => Copies(i) = 1
           /\ ~(Contains(requestChan, i) \/ Contains(items, i) \/ InSome(batches, i))
                => Copies(i) = 0
<1>0. /\ requestChan \in Seq(Items) /\ items \in Seq(Items)
      /\ Placed(requestChan, items, batches, answer, call, i)
  BY DEF BatcherInv, TypeOK, EachPlaced
<1>1. ASSUME NEW q \in Seq(Items), Once(q, i)
      PROVE  Cardinality({n \in DOMAIN q : q[n] = i}) = IF Contains(q, i) THEN 1 ELSE 0
  <2> DEFINE S == {n \in DOMAIN q : q[n] = i}
  <2>1. DOMAIN q = 1 .. Len(q)
    OBVIOUS
  <2>2. CASE Contains(q, i)
    <3>1. PICK n \in 1 .. Len(q) : q[n] = i
      BY <2>2 DEF Contains
    <3>2. S = {n}
      BY <1>1, <2>1, <3>1 DEF Once
    <3> QED
      BY <2>2, <3>2, FS_Singleton
  <2>3. CASE ~Contains(q, i)
    <3>1. S = {}
      BY <2>1, <2>3 DEF Contains
    <3> QED
      BY <2>3, <3>1, FS_EmptySet
  <2> QED
    BY <2>2, <2>3
<1>2. Cardinality({b \in batches : b.at # "end" /\ Contains(b.items, i)})
        = IF InSome(batches, i) THEN 1 ELSE 0
  <2> DEFINE S == {b \in batches : b.at # "end" /\ Contains(b.items, i)}
  <2>2. CASE InSome(batches, i)
    <3>1. PICK b \in batches : b.at # "end" /\ Contains(b.items, i)
      BY <2>2 DEF InSome
    <3>2. S = {b}
      BY <1>0, <3>1 DEF Placed
    <3> QED
      BY <2>2, <3>2, FS_Singleton
  <2>3. CASE ~InSome(batches, i)
    <3>1. S = {}
      BY <2>3 DEF InSome
    <3> QED
      BY <2>3, <3>1, FS_EmptySet
  <2> QED
    BY <2>2, <2>3
<1>3. /\ Cardinality({n \in DOMAIN requestChan : requestChan[n] = i})
           = IF Contains(requestChan, i) THEN 1 ELSE 0
      /\ Cardinality({n \in DOMAIN items : items[n] = i}) = IF Contains(items, i) THEN 1 ELSE 0
  BY <1>0, <1>1 DEF Placed
<1>4. Copies(i) = (IF Contains(requestChan, i) THEN 1 ELSE 0) + (IF Contains(items, i) THEN 1 ELSE 0)
                   + (IF InSome(batches, i) THEN 1 ELSE 0)
  BY <1>2, <1>3 DEF Copies
<1>5. /\ Contains(requestChan, i) => ~Contains(items, i) /\ ~InSome(batches, i)
      /\ Contains(items, i) => ~InSome(batches, i)
  BY <1>0 DEF Placed
<1> QED
  BY <1>4, <1>5

(* For any items, options and order of the goroutines: the slots are       *)
(* counted exactly while nobody flushes or closes, the running processors  *)
(* always, and the batch size stays within its bounds (processBatch,       *)
(* adjustBatchSize).                                                       *)
THEOREM BatcherCounts == Spec => []CountersRight
<1>1. BatcherInv => CountersRight
  BY DEF BatcherInv, CountersRight
<1> QED
  BY <1>1, BatcherInit, BatcherNext, PTL DEF Spec

(* A request that was sent is in one place until it is answered and in     *)
(* none afterwards: none is lost, and no Done is closed twice (Process,    *)
(* processLoop, processBatch, Flush, Close).                               *)
THEOREM BatcherPlaces == Spec => []OnePlace
<1>1. BatcherInv => OnePlace
  <2> SUFFICES ASSUME BatcherInv, NEW i \in Items
               PROVE  /\ Copies(i) <= 1
                      /\ answer[i] # "none" => Copies(i) = 0
                      /\ call[i] = "waiting" => (Copies(i) = 1) # (answer[i] # "none")
    BY DEF OnePlace
  <2>1. Placed(requestChan, items, batches, answer, call, i)
    BY DEF BatcherInv, EachPlaced
  <2>2. CASE Contains(requestChan, i) \/ Contains(items, i) \/ InSome(batches, i)
    <3>1. Copies(i) = 1
      BY <2>2, CopiesOf
    <3>2. answer[i] = "none"
      BY <2>1, <2>2 DEF Placed
    <3> QED
      BY <3>1, <3>2
  <2>3. CASE ~(Contains(requestChan, i) \/ Contains(items, i) \/ InSome(batches, i))
    <3>1. Copies(i) = 0
      BY <2>3, CopiesOf
    <3>2. call[i] = "waiting" => answer[i] # "none"
      BY <2>1, <2>3 DEF Placed
    <3> QED
      BY <3>1, <3>2
  <2> QED
    BY <2>2, <2>3
<1> QED
  BY <1>1, BatcherInit, BatcherNext, PTL DEF Spec
=============================================================================
