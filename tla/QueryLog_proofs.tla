--------------------------- MODULE QueryLog_proofs --------------------------
(***************************************************************************)
(* The safety properties of QueryLog, for any number of handlers, any      *)
(* buffer size and any bounds.                                             *)
(***************************************************************************)
EXTENDS QueryLog, FunctionTheorems, FiniteSetTheorems, TLAPS

USE HandlersAssumption, CapAssumption, LogBoundsAssumption

(***************************************************************************)
(* The inductive invariant.                                                *)
(***************************************************************************)

\* Requests and replies carry numbers that were given out.
NumberInv ==
    /\ \A r \in requests : r.no <= posted
    /\ \A r \in replies : r.no <= posted

\* An entry is in one place of the way only: at one position of the buffer or of
\* one request, or stored.
PlaceInv ==
    /\ Len(buf) <= logged
    /\ Entries(buf) \subseteq 1 .. logged
    /\ stored \subseteq 1 .. logged
    /\ Entries(buf) \cap stored = {}
    /\ \A r \in requests :
        /\ Entries(r.batch) \subseteq 1 .. logged
        /\ Entries(r.batch) \cap stored = {}
        /\ Entries(r.batch) \cap Entries(buf) = {}
        /\ \A i, j \in DOMAIN r.batch : r.batch[i] = r.batch[j] => i = j
        /\ \A q \in requests : q # r => Entries(r.batch) \cap Entries(q.batch) = {}

\* Rows hold stored entries, each once.
RowInv ==
    /\ \A r \in rows : r.entry \in stored
    /\ \A r1, r2 \in rows : r1.entry = r2.entry => r1 = r2

\* A reply that says ok is that to a committed request, and the one that the shipper
\* waits for is not counted yet.
CountInv ==
    /\ acked \subseteq committed /\ sent = Cardinality(acked)
    /\ waiting \notin acked
    /\ \A r \in replies : r.ok => r.no \in committed

IInv ==
    /\ TypeOK
    /\ NumberInv /\ BufferKeepsNewest /\ PlaceInv /\ RowInv /\ CountInv

-----------------------------------------------------------------------------
(***************************************************************************)
(* Lemmas on sequences and their entries.                                  *)
(***************************************************************************)
LEMMA EntriesOfAppend ==
    ASSUME NEW s \in Seq(Nat), NEW e \in Nat
    PROVE  Entries(Append(s, e)) = Entries(s) \cup {e}
  <1>1. /\ DOMAIN Append(s, e) = DOMAIN s \cup {Len(s) + 1}
        /\ \A i \in DOMAIN s : Append(s, e)[i] = s[i]
        /\ Append(s, e)[Len(s) + 1] = e
    OBVIOUS
  <1>2. QED
    BY <1>1, Zenon DEF Entries

LEMMA EntriesOfEmpty == Entries(<<>>) = {}
  BY DEF Entries

LEMMA EntriesAreNat ==
    ASSUME NEW s \in Seq(Nat)
    PROVE  Entries(s) \subseteq Nat
  BY DEF Entries

\* What is left of the buffer when room has been made for one more entry.
LEMMA Room ==
    ASSUME buf \in Seq(Nat), logged \in Nat, BufferKeepsNewest
    PROVE  /\ MakeRoom \in Seq(Nat)
           /\ Len(MakeRoom) < Cap
           /\ Len(MakeRoom) <= Len(buf)
           /\ \A i \in DOMAIN MakeRoom : MakeRoom[i] = logged - Len(MakeRoom) + i
           /\ Entries(MakeRoom) \subseteq Entries(buf)
  <1> USE DEF BufferKeepsNewest
  <1>1. CASE Len(buf) < Cap
    <2>1. MakeRoom = buf
      BY <1>1 DEF MakeRoom
    <2>2. QED
      BY <1>1, <2>1
  <1>2. CASE Len(buf) = Cap
    <2> DEFINE s == SubSeq(buf, Drop + 1, Len(buf))
    <2>1. /\ s \in Seq(Nat) /\ Len(s) = Len(buf) - Drop
          /\ \A i \in 1 .. Len(s) : s[i] = buf[Drop + i] /\ Drop + i \in 1 .. Len(buf)
      BY <1>2
    <2>2. MakeRoom = s
      BY <1>2 DEF MakeRoom
    <2>3. Entries(s) \subseteq Entries(buf)
      BY <2>1 DEF Entries
    <2>4. \A i \in 1 .. Len(s) : s[i] = logged - Len(buf) + (Drop + i)
      BY <2>1
    <2> HIDE DEF s
    <2>5. Len(s) \in Nat /\ Len(s) = Cap - Drop /\ DOMAIN s = 1 .. Len(s)
      BY <2>1, <1>2
    <2>6. \A i \in DOMAIN s : s[i] = logged - Len(s) + i
      BY <2>4, <2>5, <1>2
    <2>7. s \in Seq(Nat) /\ Len(s) < Cap /\ Len(s) <= Len(buf)
      BY <2>1, <2>5, <1>2
    <2>8. QED
      BY <2>2, <2>3, <2>6, <2>7, Zenon
  <1>3. QED
    BY <1>1, <1>2

-----------------------------------------------------------------------------
(***************************************************************************)
(* The three exits of handleQuery, taken together.                         *)
(***************************************************************************)
LEMMA AnAnswer ==
    ASSUME NEW h \in Handlers, Answer(h)
    PROVE  \E x \in Exits : Respond(h, x) /\ handling' = [handling EXCEPT ![h] = x]
  BY Zenon DEF Answer, AnswerBlocked, AnswerFailed, AnswerResolved, Exits

LEMMA ALog ==
    ASSUME NEW h \in Handlers, Log(h)
    PROVE  \E x \in Exits :
              /\ handling[h] = x
              /\ AddLog(x)
              /\ handling' = [handling EXCEPT ![h] = "idle"]
  BY Zenon DEF Log, LogBlocked, LogFailed, LogResolved, Exits

-----------------------------------------------------------------------------
(***************************************************************************)
(* TypeOK is an invariant by itself, but for the buffer's length.          *)
(***************************************************************************)
LEMMA TypeInit == Init => TypeOK
  <1> SUFFICES ASSUME Init PROVE TypeOK
    OBVIOUS
  <1>1. MaxQueries \in Nat /\ MaxFaults \in Nat /\ MaxRestarts \in Nat
    OBVIOUS
  <1>2. ProxyTypeOK
    <2>1. <<>> \in Seq(Nat)
      OBVIOUS
    <2>2. handling \in [Handlers -> {"idle", "resolving"} \cup Exits]
      BY DEF Init
    <2>3. received \in 0 .. MaxQueries /\ answered \in [Exits -> Nat] /\ logged \in Nat
      BY <1>1 DEF Init
    <2>4. says \in [1 .. logged -> Exits]
      BY DEF Init
    <2>5. QED
      BY <2>1, <2>2, <2>3, <2>4 DEF Init, ProxyTypeOK
  <1>3. QED
    BY <1>1, <1>2 DEF Init, TypeOK, ShipTypeOK, WireTypeOK, ServerTypeOK, BoundTypeOK

\* A part of the state that a step leaves alone stays well typed.
LEMMA TypeKept ==
    /\ ProxyTypeOK /\ UNCHANGED proxyVars => ProxyTypeOK'
    /\ ShipTypeOK /\ UNCHANGED shipVars => ShipTypeOK'
    /\ WireTypeOK /\ UNCHANGED <<requests, replies>> => WireTypeOK'
    /\ ServerTypeOK /\ UNCHANGED serverVars => ServerTypeOK'
    /\ BoundTypeOK /\ UNCHANGED boundVars => BoundTypeOK'
    /\ BoundTypeOK /\ Fault /\ UNCHANGED restarts => BoundTypeOK'
  <1>1. ProxyTypeOK /\ UNCHANGED proxyVars => ProxyTypeOK'
    BY DEF ProxyTypeOK, proxyVars
  <1>2. ShipTypeOK /\ UNCHANGED shipVars => ShipTypeOK'
    BY DEF ShipTypeOK, shipVars
  <1>3. WireTypeOK /\ UNCHANGED <<requests, replies>> => WireTypeOK'
    BY DEF WireTypeOK
  <1>4. ServerTypeOK /\ UNCHANGED serverVars => ServerTypeOK'
    BY DEF ServerTypeOK, serverVars
  <1>5. BoundTypeOK /\ UNCHANGED boundVars => BoundTypeOK'
    BY DEF BoundTypeOK, boundVars
  <1>6. BoundTypeOK /\ Fault /\ UNCHANGED restarts => BoundTypeOK'
    BY DEF BoundTypeOK, Fault
  <1>7. QED
    BY <1>1, <1>2, <1>3, <1>4, <1>5, <1>6

\* What the parts of a request, and the rows and the reply made of it, are.
LEMMA ServedTypes ==
    ASSUME TypeOK, NEW r \in requests
    PROVE  /\ r.no \in Nat \ {0} /\ r.batch \in Seq(Nat)
           /\ \A i \in DOMAIN r.batch :
                 r.batch[i] \in Nat /\ [id |-> lastId + i, entry |-> r.batch[i]] \in Row
           /\ \A ok \in BOOLEAN : [no |-> r.no, ok |-> ok] \in Reply
  <1>1. r.no \in Nat \ {0} /\ r.batch \in Seq(Nat)
    BY DEF TypeOK, WireTypeOK, Request
  <1>2. lastId \in Nat
    BY DEF TypeOK, ServerTypeOK
  <1>3. \A i \in DOMAIN r.batch : r.batch[i] \in Nat /\ i \in Nat
    BY <1>1
  <1>4. QED
    BY <1>1, <1>2, <1>3 DEF Row, Reply

LEMMA TypeStep ==
    ASSUME TypeOK, BufferKeepsNewest, [Next]_vars
    PROVE  TypeOK'
  <1> USE DEF TypeOK
  <1>1. ASSUME NEW h \in Handlers, Receive(h) \/ Refuse(h)
        PROVE  TypeOK'
    <2>1. ProxyTypeOK'
      BY <1>1 DEF Receive, Refuse, ProxyTypeOK
    <2>2. QED
      BY <1>1, <2>1, TypeKept DEF Receive, Refuse
  <1>2. ASSUME NEW h \in Handlers, Answer(h)
        PROVE  TypeOK'
    <2>1. PICK x \in Exits : Respond(h, x) /\ handling' = [handling EXCEPT ![h] = x]
      BY <1>2, AnAnswer
    <2>2. ProxyTypeOK'
      BY <2>1 DEF Respond, ProxyTypeOK
    <2>3. QED
      BY <2>1, <2>2, TypeKept DEF Respond
  <1>3. ASSUME NEW h \in Handlers, Log(h)
        PROVE  TypeOK'
    <2>1. PICK x \in Exits : AddLog(x) /\ handling' = [handling EXCEPT ![h] = "idle"]
      BY <1>3, ALog
    <2>2. MakeRoom \in Seq(Nat)
      BY Room DEF ProxyTypeOK
    <2>3. dropped' \in BOOLEAN
      BY <2>1, Zenon DEF AddLog, ProxyTypeOK
    <2>4. Append(MakeRoom, logged + 1) \in Seq(Nat)
      BY <2>2 DEF ProxyTypeOK
    <2>5. says' \in [1 .. logged' -> Exits]
      BY <2>1 DEF AddLog, ProxyTypeOK
    <2>6. handling' \in [Handlers -> {"idle", "resolving"} \cup Exits]
      BY <2>1 DEF ProxyTypeOK
    <2>7. /\ buf' \in Seq(Nat) /\ logged' \in Nat
          /\ received' \in 0 .. MaxQueries /\ answered' \in [Exits -> Nat]
      BY <2>1, <2>4 DEF AddLog, ProxyTypeOK
    <2>8. QED
      BY <2>1, <2>3, <2>5, <2>6, <2>7, TypeKept DEF AddLog, ProxyTypeOK
  <1>4. CASE Ship
    <2>1. [no |-> posted + 1, batch |-> buf] \in Request
      BY DEF Request, ProxyTypeOK, ShipTypeOK
    <2>2. WireTypeOK'
      BY <1>4, <2>1 DEF Ship, WireTypeOK
    <2>3. ProxyTypeOK' /\ ShipTypeOK'
      BY <1>4 DEF Ship, ProxyTypeOK, ShipTypeOK
    <2>4. QED
      BY <1>4, <2>2, <2>3, TypeKept DEF Ship
  <1>5. CASE GetReply
    <2>1. waiting' = 0 /\ sent' \in Nat /\ errors' \in Nat /\ UNCHANGED posted
      BY <1>5 DEF GetReply, ShipTypeOK
    <2>2. acked' \subseteq 1 .. posted
      <3>1. PICK r \in replies : r.no = waiting /\ acked' \subseteq acked \cup {r.no}
        BY <1>5 DEF GetReply
      <3>2. r.no \in Nat \ {0}
        BY DEF WireTypeOK, Reply
      <3>3. r.no \in 1 .. posted
        BY <3>1, <3>2 DEF ShipTypeOK
      <3>4. QED
        BY <3>1, <3>3 DEF ShipTypeOK
    <2>3. WireTypeOK'
      BY <1>5 DEF GetReply, WireTypeOK
    <2>4. QED
      BY <1>5, <2>1, <2>2, <2>3, TypeKept DEF GetReply, ShipTypeOK
  <1>6. CASE TimeOut
    <2>1. ShipTypeOK'
      BY <1>6 DEF TimeOut, ShipTypeOK
    <2>2. QED
      BY <1>6, <2>1, TypeKept DEF TimeOut
  <1>7. CASE Break
    <2>1. ShipTypeOK' /\ WireTypeOK'
      BY <1>7 DEF Break, ShipTypeOK, WireTypeOK
    <2>2. QED
      BY <1>7, <2>1, TypeKept DEF Break
  <1>8. ASSUME NEW r \in requests, Ingest(r)
        PROVE  TypeOK'
    <2>1. rows' \subseteq Row /\ stored' \subseteq Nat
      BY <1>8, ServedTypes DEF Ingest, ServerTypeOK, Entries
    <2>2. lastId' \in Nat
      BY <1>8, ServedTypes DEF Ingest, ServerTypeOK
    <2>3. committed' \subseteq Nat
      <3>1. committed' = committed \cup {r.no}
        BY <1>8 DEF Ingest
      <3>2. QED
        BY <3>1, ServedTypes DEF ServerTypeOK
    <2>4. WireTypeOK'
      BY <1>8, ServedTypes DEF Ingest, Take, WireTypeOK
    <2>5. QED
      BY <1>8, <2>1, <2>2, <2>3, <2>4, TypeKept DEF Ingest, ServerTypeOK
  <1>9. ASSUME NEW r \in requests, IngestSkipsRow(r)
        PROVE  TypeOK'
    <2>1. rows' \subseteq Row /\ stored' \subseteq Nat
      BY <1>9, ServedTypes DEF IngestSkipsRow, ServerTypeOK
    <2>2. lastId' \in Nat
      BY <1>9, ServedTypes DEF IngestSkipsRow, ServerTypeOK
    <2>3. committed' \subseteq Nat
      <3>1. committed' = committed \cup {r.no}
        BY <1>9 DEF IngestSkipsRow
      <3>2. QED
        BY <3>1, ServedTypes DEF ServerTypeOK
    <2>4. WireTypeOK'
      BY <1>9, ServedTypes DEF IngestSkipsRow, Take, WireTypeOK
    <2>5. QED
      BY <1>9, <2>1, <2>2, <2>3, <2>4, TypeKept DEF IngestSkipsRow, ServerTypeOK
  <1>10. ASSUME NEW r \in requests, IngestFails(r)
         PROVE  TypeOK'
    <2>1. WireTypeOK'
      BY <1>10, ServedTypes DEF IngestFails, Take, WireTypeOK
    <2>2. QED
      BY <1>10, <2>1, TypeKept DEF IngestFails
  <1>11. CASE Restart
    <2>1. ProxyTypeOK' /\ ShipTypeOK'
      BY <1>11 DEF Restart, ProxyTypeOK, ShipTypeOK
    <2>2. BoundTypeOK'
      BY <1>11 DEF Restart, BoundTypeOK
    <2>3. QED
      BY <1>11, <2>1, <2>2, TypeKept DEF Restart
  <1>12. CASE Cleanup
    <2>1. ServerTypeOK'
      BY <1>12 DEF Cleanup, ServerTypeOK
    <2>2. QED
      BY <1>12, <2>1, TypeKept DEF Cleanup
  <1>13. CASE UNCHANGED vars
    BY <1>13, TypeKept DEF vars
  <1>14. QED
    BY <1>1, <1>2, <1>3, <1>4, <1>5, <1>6, <1>7, <1>8, <1>9, <1>10, <1>11, <1>12, <1>13
       DEF Next, Proxy, Shipper, Server

-----------------------------------------------------------------------------
(***************************************************************************)
(* The rest of the inductive invariant, a lemma for each part.             *)
(***************************************************************************)

\* The steps that only take things off the way.
Quiet ==
    \/ \E h \in Handlers : Receive(h) \/ Refuse(h) \/ Answer(h)
    \/ GetReply \/ TimeOut \/ Break \/ Restart \/ Cleanup
    \/ \E r \in requests : IngestFails(r)
    \/ UNCHANGED vars

LEMMA QuietSteps ==
    ASSUME TypeOK, Quiet
    PROVE  /\ buf' = buf \/ buf' = <<>>
           /\ requests' \subseteq requests
           /\ UNCHANGED <<logged, says, dropped, posted, stored, committed>>
           /\ rows' \subseteq rows
  <1> USE DEF proxyVars, shipVars, serverVars, Take
  <1>1. CASE \E h \in Handlers : Receive(h) \/ Refuse(h) \/ Answer(h)
    BY <1>1, AnAnswer DEF Receive, Refuse, Respond
  <1>2. CASE GetReply \/ TimeOut \/ Break
    BY <1>2 DEF GetReply, TimeOut, Break
  <1>3. CASE Restart \/ Cleanup
    BY <1>3 DEF Restart, Cleanup
  <1>4. CASE \E r \in requests : IngestFails(r)
    BY <1>4 DEF IngestFails
  <1>5. CASE UNCHANGED vars
    BY <1>5 DEF vars
  <1>6. QED
    BY <1>1, <1>2, <1>3, <1>4, <1>5 DEF Quiet

LEMMA Steps ==
    ASSUME [Next]_vars
    PROVE  \/ \E x \in Exits : AddLog(x)
           \/ Ship
           \/ \E r \in requests : Ingest(r) \/ IngestSkipsRow(r)
           \/ Quiet
  BY ALog DEF Next, Proxy, Shipper, Server, Quiet

LEMMA NumberStep ==
    ASSUME TypeOK, NumberInv, [Next]_vars
    PROVE  NumberInv'
  <1> USE DEF NumberInv, proxyVars, shipVars, Take
  <1>0. posted \in Nat /\ \A r \in requests \cup replies : r.no \in Nat
    BY DEF TypeOK, ShipTypeOK, WireTypeOK, Request, Reply
  <1>1. ASSUME NEW h \in Handlers, Receive(h) \/ Refuse(h) \/ Answer(h) \/ Log(h)
        PROVE  NumberInv'
    BY <1>1, AnAnswer, ALog DEF Receive, Refuse, Respond, AddLog
  <1>2. CASE Ship
    BY <1>0, <1>2 DEF Ship
  <1>3. CASE GetReply \/ TimeOut \/ Break
    BY <1>3 DEF GetReply, TimeOut, Break
  <1>4. ASSUME NEW r \in requests, Ingest(r) \/ IngestSkipsRow(r) \/ IngestFails(r)
        PROVE  NumberInv'
    BY <1>4 DEF Ingest, IngestSkipsRow, IngestFails
  <1>5. CASE Restart \/ Cleanup
    BY <1>5 DEF Restart, Cleanup
  <1>6. CASE UNCHANGED vars
    BY <1>6 DEF vars
  <1>7. QED
    BY <1>1, <1>2, <1>3, <1>4, <1>5, <1>6 DEF Next, Proxy, Shipper, Server

LEMMA BufferStep ==
    ASSUME TypeOK, BufferKeepsNewest, [Next]_vars
    PROVE  BufferKeepsNewest'
  <1>0. buf \in Seq(Nat) /\ logged \in Nat
    BY DEF TypeOK, ProxyTypeOK
  <1>1. ASSUME buf' = <<>>
        PROVE  BufferKeepsNewest'
    BY <1>1 DEF BufferKeepsNewest
  <1>2. ASSUME NEW x \in Exits, AddLog(x)
        PROVE  BufferKeepsNewest'
    <2> DEFINE s == MakeRoom
    <2>1. /\ s \in Seq(Nat) /\ Len(s) < Cap
          /\ \A i \in DOMAIN s : s[i] = logged - Len(s) + i
      BY <1>0, Room
    <2>2. buf' = Append(s, logged + 1) /\ logged' = logged + 1
      BY <1>2 DEF AddLog
    <2> HIDE DEF s
    <2>3. /\ Len(buf') = Len(s) + 1 /\ Len(s) \in Nat
          /\ DOMAIN buf' = 1 .. Len(s) + 1 /\ DOMAIN s = 1 .. Len(s)
          /\ \A i \in 1 .. Len(s) : buf'[i] = s[i]
          /\ buf'[Len(s) + 1] = logged + 1
      BY <1>0, <2>1, <2>2
    <2>4. QED
      BY <1>0, <2>1, <2>2, <2>3 DEF BufferKeepsNewest
  <1>3. CASE Ship
    BY <1>1, <1>3 DEF Ship
  <1>4. ASSUME UNCHANGED <<buf, logged>>
        PROVE  BufferKeepsNewest'
    BY <1>4 DEF BufferKeepsNewest
  <1>5. ASSUME NEW r \in requests, Ingest(r) \/ IngestSkipsRow(r)
        PROVE  BufferKeepsNewest'
    BY <1>4, <1>5 DEF Ingest, IngestSkipsRow, proxyVars
  <1>6. CASE Quiet
    BY <1>1, <1>4, <1>6, QuietSteps
  <1>7. QED
    BY <1>2, <1>3, <1>5, <1>6, Steps

LEMMA PlaceStep ==
    ASSUME TypeOK, BufferKeepsNewest, PlaceInv, [Next]_vars
    PROVE  PlaceInv'
  <1>0. buf \in Seq(Nat) /\ logged \in Nat
    BY DEF TypeOK, ProxyTypeOK
  <1>1. ASSUME NEW x \in Exits, AddLog(x)
        PROVE  PlaceInv'
    <2> DEFINE s == MakeRoom
    <2>1. s \in Seq(Nat) /\ Len(s) <= Len(buf) /\ Entries(s) \subseteq Entries(buf)
      BY <1>0, Room
    <2>2. /\ buf' = Append(s, logged + 1) /\ logged' = logged + 1
          /\ UNCHANGED <<requests, stored>>
      BY <1>1 DEF AddLog, serverVars
    <2> HIDE DEF s
    <2>3. Entries(buf') = Entries(s) \cup {logged + 1}
      BY <1>0, <2>1, <2>2, EntriesOfAppend
    <2>4. Len(buf') = Len(s) + 1 /\ Len(buf') <= logged'
      BY <1>0, <2>1, <2>2 DEF PlaceInv
    <2>5. logged + 1 \notin 1 .. logged /\ 1 .. logged' = (1 .. logged) \cup {logged + 1}
      BY <1>0, <2>2
    <2>6. /\ Entries(buf') \subseteq 1 .. logged' /\ stored' \subseteq 1 .. logged'
          /\ Entries(buf') \cap stored' = {}
      BY <2>1, <2>2, <2>3, <2>5 DEF PlaceInv
    <2>7. \A r \in requests :
             /\ Entries(r.batch) \subseteq 1 .. logged'
             /\ Entries(r.batch) \cap Entries(buf') = {}
      BY <2>1, <2>3, <2>5 DEF PlaceInv
    <2>8. QED
      BY <2>2, <2>4, <2>6, <2>7 DEF PlaceInv
  <1>2. CASE Ship
    <2> DEFINE n == [no |-> posted + 1, batch |-> buf]
    <2>1. /\ buf' = <<>> /\ requests' = requests \cup {n}
          /\ UNCHANGED <<logged, stored>>
      BY <1>2 DEF Ship, serverVars
    <2>2. /\ n.batch = buf
          /\ \A i, j \in DOMAIN buf : buf[i] = buf[j] => i = j
      BY <1>0 DEF BufferKeepsNewest
    <2> HIDE DEF n
    <2>3. Entries(buf') = {} /\ Len(buf') = 0
      BY <2>1, EntriesOfEmpty
    <2>4. ASSUME NEW r \in requests
          PROVE  Entries(r.batch) \cap Entries(n.batch) = {}
      BY <2>2 DEF PlaceInv
    <2>5. \A r \in requests' :
             /\ Entries(r.batch) \subseteq 1 .. logged /\ Entries(r.batch) \cap stored = {}
             /\ \A i, j \in DOMAIN r.batch : r.batch[i] = r.batch[j] => i = j
      BY <2>1, <2>2 DEF PlaceInv
    <2>6. \A r, q \in requests' : q # r => Entries(r.batch) \cap Entries(q.batch) = {}
      BY <2>1, <2>4 DEF PlaceInv
    <2>7. /\ Len(buf') <= logged' /\ Entries(buf') \subseteq 1 .. logged'
          /\ stored' \subseteq 1 .. logged' /\ Entries(buf') \cap stored' = {}
      BY <1>0, <2>1, <2>3 DEF PlaceInv
    <2>8. \A r \in requests' : Entries(r.batch) \cap Entries(buf') = {}
      BY <2>3
    <2>9. logged' = logged /\ stored' = stored
      BY <2>1
    <2>10. QED
      BY <2>5, <2>6, <2>7, <2>8, <2>9, Zenon DEF PlaceInv
  <1>3. ASSUME NEW r \in requests, requests' = requests \ {r},
               stored' \subseteq stored \cup Entries(r.batch),
               UNCHANGED <<buf, logged>>
        PROVE  PlaceInv'
    BY <1>3 DEF PlaceInv
  <1>4. ASSUME NEW r \in requests, Ingest(r)
        PROVE  PlaceInv'
    BY <1>3, <1>4 DEF Ingest, Take, proxyVars
  <1>5. ASSUME NEW r \in requests, IngestSkipsRow(r)
        PROVE  PlaceInv'
    <2>1. stored' \subseteq stored \cup Entries(r.batch)
      BY <1>5 DEF IngestSkipsRow, Entries
    <2>2. QED
      BY <1>3, <1>5, <2>1 DEF IngestSkipsRow, Take, proxyVars
  <1>6. CASE Quiet
    <2>1. Entries(buf') \subseteq Entries(buf) /\ Len(buf') <= Len(buf)
      BY <1>0, <1>6, QuietSteps, EntriesOfEmpty
    <2>2. requests' \subseteq requests /\ UNCHANGED <<logged, stored>>
      BY <1>6, QuietSteps
    <2>3. Len(buf') <= logged'
      BY <1>0, <2>1, <2>2, <1>6, QuietSteps DEF PlaceInv
    <2>4. QED
      BY <2>1, <2>2, <2>3 DEF PlaceInv
  <1>7. QED
    BY <1>1, <1>2, <1>4, <1>5, <1>6, Steps

LEMMA RowStep ==
    ASSUME TypeOK, PlaceInv, RowInv, [Next]_vars
    PROVE  RowInv'
  <1>1. ASSUME rows' \subseteq rows, UNCHANGED stored
        PROVE  RowInv'
    BY <1>1 DEF RowInv
  <1>2. ASSUME NEW r \in requests, NEW K \in SUBSET (DOMAIN r.batch),
               rows' = rows \cup {[id |-> lastId + i, entry |-> r.batch[i]] : i \in K},
               stored' = stored \cup {r.batch[i] : i \in K}
        PROVE  RowInv'
    <2>1. \A i, j \in K : r.batch[i] = r.batch[j] => i = j
      BY DEF PlaceInv
    <2>2. \A i \in K : r.batch[i] \notin stored
      BY DEF PlaceInv, Entries
    <2>3. ASSUME NEW q \in rows'
          PROVE  /\ q.entry \in stored'
                 /\ q \in rows \/ \E i \in K : q = [id |-> lastId + i, entry |-> r.batch[i]]
      BY <1>2, <2>3 DEF RowInv
    <2>4. ASSUME NEW q1 \in rows', NEW q2 \in rows', q1.entry = q2.entry
          PROVE  q1 = q2
      <3>1. CASE q1 \in rows /\ q2 \in rows
        BY <3>1, <2>4 DEF RowInv
      <3>2. CASE q1 \notin rows /\ q2 \notin rows
        BY <3>2, <2>1, <2>3, <2>4
      <3>3. CASE q1 \in rows /\ q2 \notin rows
        BY <3>3, <2>2, <2>3, <2>4 DEF RowInv
      <3>4. CASE q1 \notin rows /\ q2 \in rows
        BY <3>4, <2>2, <2>3, <2>4 DEF RowInv
      <3>5. QED
        BY <3>1, <3>2, <3>3, <3>4
    <2>5. QED
      BY <2>3, <2>4 DEF RowInv
  <1>3. ASSUME NEW x \in Exits, AddLog(x)
        PROVE  RowInv'
    BY <1>1, <1>3 DEF AddLog, serverVars
  <1>4. CASE Ship
    BY <1>1, <1>4 DEF Ship, serverVars
  <1>5. ASSUME NEW r \in requests, Ingest(r)
        PROVE  RowInv'
    BY <1>2, <1>5 DEF Ingest, Entries
  <1>6. ASSUME NEW r \in requests, IngestSkipsRow(r)
        PROVE  RowInv'
    <2>1. PICK kept \in SUBSET DOMAIN r.batch :
             /\ rows' = rows \cup {[id |-> lastId + i, entry |-> r.batch[i]] : i \in kept}
             /\ stored' = stored \cup {r.batch[i] : i \in kept}
      BY <1>6 DEF IngestSkipsRow
    <2>2. QED
      BY <1>2, <2>1
  <1>7. CASE Quiet
    BY <1>1, <1>7, QuietSteps
  <1>8. QED
    BY <1>3, <1>4, <1>5, <1>6, <1>7, Steps

LEMMA CountStep ==
    ASSUME TypeOK, NumberInv, CountInv, [Next]_vars
    PROVE  CountInv'
  <1> USE DEF CountInv, proxyVars, shipVars, serverVars
  <1>0. /\ posted \in Nat /\ waiting \in 0 .. posted
        /\ acked \subseteq 1 .. posted /\ IsFiniteSet(acked)
        /\ \A r \in requests \cup replies : r.no \in Nat \ {0}
    <2>1. posted \in Nat /\ waiting \in 0 .. posted /\ acked \subseteq 1 .. posted
      BY DEF TypeOK, ShipTypeOK
    <2>2. IsFiniteSet(1 .. posted)
      BY <2>1, FS_Interval
    <2>3. IsFiniteSet(acked)
      BY <2>1, <2>2, FS_Subset
    <2>4. QED
      BY <2>1, <2>3 DEF TypeOK, WireTypeOK, Request, Reply
  <1>1. ASSUME NEW h \in Handlers, Receive(h) \/ Refuse(h) \/ Answer(h) \/ Log(h)
        PROVE  CountInv'
    BY <1>1, AnAnswer, ALog DEF Receive, Refuse, Respond, AddLog
  <1>2. CASE Ship
    BY <1>0, <1>2 DEF Ship
  <1>3. CASE GetReply
    <2>1. PICK r \in replies :
             /\ r.no = waiting
             /\ replies' = replies \ {r}
             /\ IF r.ok
                THEN sent' = sent + 1 /\ acked' = acked \cup {r.no} /\ UNCHANGED errors
                ELSE errors' = errors + 1 /\ UNCHANGED <<sent, acked>>
      BY <1>3 DEF GetReply
    <2>2. waiting' = 0 /\ UNCHANGED committed
      BY <1>3 DEF GetReply
    <2>3. 0 \notin acked /\ r.no # 0
      BY <1>0, <2>1
    <2>4. CASE r.ok
      <3>1. Cardinality(acked \cup {r.no}) = Cardinality(acked) + 1
        BY <1>0, <2>1, FS_AddElement
      <3>2. QED
        BY <2>1, <2>2, <2>3, <2>4, <3>1
    <2>5. CASE ~r.ok
      BY <2>1, <2>2, <2>3, <2>5
    <2>6. QED
      BY <2>4, <2>5
  <1>4. CASE TimeOut \/ Break
    <2>1. waiting' = 0 /\ replies' \subseteq replies /\ UNCHANGED <<sent, acked, committed>>
      BY <1>4 DEF TimeOut, Break
    <2>2. 0 \notin acked
      BY <1>0
    <2>3. QED
      BY <2>1, <2>2
  <1>5. ASSUME NEW r \in requests, Ingest(r) \/ IngestSkipsRow(r)
        PROVE  CountInv'
    <2>1. /\ replies' = replies \cup {[no |-> r.no, ok |-> TRUE]}
          /\ committed' = committed \cup {r.no}
          /\ UNCHANGED <<sent, acked, waiting>>
      BY <1>5 DEF Ingest, IngestSkipsRow
    <2>2. QED
      BY <2>1
  <1>6. ASSUME NEW r \in requests, IngestFails(r)
        PROVE  CountInv'
    <2>1. UNCHANGED <<sent, acked, committed, waiting>>
      BY <1>6 DEF IngestFails
    <2>2. replies' = replies \cup {[no |-> r.no, ok |-> FALSE]}
      BY <1>6 DEF IngestFails
    <2>3. QED
      BY <2>1, <2>2
  <1>7. CASE Restart
    BY <1>0, <1>7, FS_EmptySet DEF Restart
  <1>8. CASE Cleanup
    BY <1>8 DEF Cleanup
  <1>9. CASE UNCHANGED vars
    BY <1>9 DEF vars
  <1>10. QED
    BY <1>1, <1>2, <1>3, <1>4, <1>5, <1>6, <1>7, <1>8, <1>9
       DEF Next, Proxy, Shipper, Server

-----------------------------------------------------------------------------
(***************************************************************************)
(* The theorems.                                                           *)
(***************************************************************************)
LEMMA InvInit == Init => IInv
  <1> SUFFICES ASSUME Init PROVE IInv
    OBVIOUS
  <1>1. TypeOK
    BY TypeInit
  <1>2. NumberInv /\ BufferKeepsNewest /\ RowInv /\ CountInv
    BY FS_EmptySet DEF Init, NumberInv, BufferKeepsNewest, RowInv, CountInv
  <1>3. PlaceInv
    BY EntriesOfEmpty DEF Init, PlaceInv
  <1>4. QED
    BY <1>1, <1>2, <1>3 DEF IInv

LEMMA InvStep == IInv /\ [Next]_vars => IInv'
  BY TypeStep, NumberStep, BufferStep, PlaceStep, RowStep, CountStep DEF IInv

LEMMA InvAlways == Spec => []IInv
  BY InvInit, InvStep, PTL DEF Spec

\* Every state is a state the proxy, the shipper and the server can be in.
THEOREM TypeCorrect == Spec => []TypeOK
  <1>1. IInv => TypeOK
    BY DEF IInv
  <1>2. QED
    BY <1>1, InvAlways, PTL

\* The server never counts a query twice.
THEOREM NoEntryTwice == Spec => []AtMostOnce
  <1>1. IInv => AtMostOnce
    BY DEF IInv, RowInv, PlaceInv, AtMostOnce, Open
  <1>2. QED
    BY <1>1, InvAlways, PTL

\* The agent's buffer is bounded, and what it gives up is what is oldest.
THEOREM NewestKept == Spec => []BufferKeepsNewest
  <1>1. IInv => BufferKeepsNewest
    BY DEF IInv
  <1>2. QED
    BY <1>1, InvAlways, PTL

\* totalSent counts each batch once, and none that the server did not commit.
THEOREM SentCommitted == Spec => []SentWasCommitted
  <1>1. IInv => SentWasCommitted
    BY DEF IInv, CountInv, SentWasCommitted
  <1>2. QED
    BY <1>1, InvAlways, PTL

\* Entries are lost for a known reason only: while no fault, restart or full
\* buffer has happened, every entry is on its way or stored.
CauseInv == IInv /\ NoLossWithoutCause

LEMMA CauseStep ==
    ASSUME CauseInv, [Next]_vars
    PROVE  NoLossWithoutCause'
  <1> SUFFICES ASSUME faults' = 0, restarts' = 0, ~dropped'
               PROVE  1 .. logged' \subseteq Open' \cup stored'
    BY DEF NoLossWithoutCause
  <1> USE DEF Open, CauseInv, NoLossWithoutCause, boundVars, proxyVars, serverVars
  <1>0. /\ buf \in Seq(Nat) /\ logged \in Nat /\ faults \in Nat /\ restarts \in Nat
    BY DEF IInv, TypeOK, ProxyTypeOK, BoundTypeOK
  <1>1. ASSUME faults' = faults, restarts' = restarts, dropped' = dropped, logged' = logged,
               Open \cup stored \subseteq Open' \cup stored'
        PROVE  1 .. logged' \subseteq Open' \cup stored'
    BY <1>1
  <1>2. ASSUME NEW h \in Handlers, Receive(h) \/ Refuse(h) \/ Answer(h)
        PROVE  1 .. logged' \subseteq Open' \cup stored'
    BY <1>1, <1>2, AnAnswer DEF Receive, Refuse, Respond
  <1>3. ASSUME NEW x \in Exits, AddLog(x)
        PROVE  1 .. logged' \subseteq Open' \cup stored'
    <2>0. ~dropped /\ ~(Len(buf) >= Cap)
      BY <1>3, Zenon DEF AddLog
    <2>1. /\ ~dropped /\ ~(Len(buf) >= Cap) /\ faults = 0 /\ restarts = 0
          /\ logged' = logged + 1 /\ UNCHANGED <<requests, stored>>
          /\ buf' = Append(MakeRoom, logged + 1)
      BY <2>0, <1>3 DEF AddLog
    <2>5. MakeRoom = buf
      BY <2>1, Zenon DEF MakeRoom
    <2>2. Entries(buf') = Entries(buf) \cup {logged + 1}
      BY <1>0, <2>1, <2>5, EntriesOfAppend
    <2>3. 1 .. logged' = (1 .. logged) \cup {logged + 1}
      BY <1>0, <2>1
    <2>4. QED
      BY <2>1, <2>2, <2>3
  <1>4. CASE Ship
    <2> DEFINE n == [no |-> posted + 1, batch |-> buf]
    <2>1. requests' = requests \cup {n} /\ n.batch = buf
      BY <1>4 DEF Ship
    <2> HIDE DEF n
    <2>2. Open \subseteq Open'
      BY <2>1
    <2>3. QED
      BY <1>1, <1>4, <2>2 DEF Ship
  <1>5. CASE GetReply
    BY <1>1, <1>5 DEF GetReply
  <1>6. ASSUME Fault
        PROVE  FALSE
    BY <1>0, <1>6 DEF Fault
  <1>7. ASSUME NEW r \in requests, Ingest(r)
        PROVE  1 .. logged' \subseteq Open' \cup stored'
    <2>1. Open \cup stored \subseteq Open' \cup stored'
      BY <1>7 DEF Ingest, Take
    <2>2. QED
      BY <1>1, <1>7, <2>1 DEF Ingest
  <1>8. CASE Cleanup
    BY <1>1, <1>8 DEF Cleanup
  <1>9. CASE Restart
    BY <1>0, <1>9 DEF Restart
  <1>10. CASE UNCHANGED vars
    BY <1>1, <1>10 DEF vars
  <1>11. QED
    BY <1>2, <1>3, <1>4, <1>5, <1>6, <1>7, <1>8, <1>9, <1>10, ALog
       DEF Next, Proxy, Shipper, Server, TimeOut, Break, IngestSkipsRow, IngestFails

\* No entry is lost while nothing fails, the agent runs and the buffer has room.
THEOREM LossHasACause == Spec => []NoLossWithoutCause
  <1>1. Init => CauseInv
    BY InvInit DEF Init, CauseInv, NoLossWithoutCause
  <1>2. CauseInv /\ [Next]_vars => CauseInv'
    BY CauseStep, InvStep DEF CauseInv
  <1>3. CauseInv => NoLossWithoutCause
    BY DEF CauseInv
  <1>4. QED
    BY <1>1, <1>2, <1>3, PTL DEF Spec

\* The log implements LossyLog: an entry settles once, stored or lost.
THEOREM ImplementsLossyLog == Spec => RefinesLossyLog
  <1>1. Init => LL!LogInit
    BY EntriesOfEmpty DEF Init, LL!LogInit, Open
  <1>2. ASSUME IInv, [Next]_vars
        PROVE  [LL!LogNext]_<<logged, Open, stored>>
    <2>0. buf \in Seq(Nat) /\ logged \in Nat
      BY <1>2 DEF IInv, TypeOK, ProxyTypeOK
    <2>1. ASSUME NEW S \in SUBSET Open, NEW K \in SUBSET S, Open' = Open \ S,
                 stored' = stored \cup K, logged' = logged
          PROVE  LL!LogNext
      BY <2>1 DEF LL!LogNext, LL!Settle
    <2>2. ASSUME NEW x \in Exits, AddLog(x)
          PROVE  LL!LogNext
      <3>1. /\ MakeRoom \in Seq(Nat) /\ Entries(MakeRoom) \subseteq Entries(buf)
            /\ buf' = Append(MakeRoom, logged + 1) /\ logged' = logged + 1
            /\ UNCHANGED <<requests, stored>>
        BY <1>2, <2>0, <2>2, Room DEF AddLog, IInv, serverVars
      <3>2. Entries(buf') = Entries(MakeRoom) \cup {logged + 1}
        BY <2>0, <3>1, EntriesOfAppend
      <3> DEFINE S == Entries(buf) \ Entries(MakeRoom)
      <3>3. \A r \in requests : Entries(r.batch) \cap S = {}
        BY <1>2 DEF IInv, PlaceInv
      <3>4. Open' = (Open \ S) \cup {logged + 1} /\ S \subseteq Open
        BY <3>1, <3>2, <3>3 DEF Open
      <3>5. QED
        BY <3>1, <3>4 DEF LL!LogNext, LL!Append1
    <2>3. CASE Ship
      <3> DEFINE n == [no |-> posted + 1, batch |-> buf]
      <3>1. /\ requests' = requests \cup {n} /\ n.batch = buf /\ buf' = <<>>
            /\ UNCHANGED <<logged, stored>>
        BY <2>3 DEF Ship, serverVars
      <3> HIDE DEF n
      <3>2. Open' = Open
        BY <3>1, EntriesOfEmpty DEF Open
      <3>3. QED
        BY <3>1, <3>2
    <2>4. ASSUME NEW r \in requests, NEW K \in SUBSET Entries(r.batch),
                 requests' = requests \ {r}, stored' = stored \cup K,
                 UNCHANGED <<buf, logged>>
          PROVE  LL!LogNext
      <3>1. \A q \in requests : q # r => Entries(q.batch) \cap Entries(r.batch) = {}
        BY <1>2 DEF IInv, PlaceInv
      <3>2. Entries(buf) \cap Entries(r.batch) = {}
        BY <1>2 DEF IInv, PlaceInv
      <3>3. Open' = Open \ Entries(r.batch) /\ Entries(r.batch) \subseteq Open
        BY <2>4, <3>1, <3>2 DEF Open
      <3>4. QED
        BY <2>1, <2>4, <3>3
    <2>5. ASSUME NEW r \in requests, Ingest(r) \/ IngestSkipsRow(r)
          PROVE  LL!LogNext
      <3>1. \E K \in SUBSET Entries(r.batch) : stored' = stored \cup K
        BY <2>5 DEF Ingest, IngestSkipsRow, Entries
      <3>2. QED
        BY <2>4, <2>5, <3>1 DEF Ingest, IngestSkipsRow, Take, proxyVars
    <2>6. CASE Quiet
      <3>1. /\ Entries(buf') \subseteq Entries(buf) /\ requests' \subseteq requests
            /\ UNCHANGED <<logged, stored>>
        BY <1>2, <2>6, QuietSteps, EntriesOfEmpty DEF IInv
      <3>2. Open' \subseteq Open
        BY <3>1 DEF Open
      <3>3. Open' = Open \ (Open \ Open') /\ stored' = stored \cup {}
        BY <3>1, <3>2
      <3>4. QED
        BY <2>1, <3>1, <3>3
    <2>7. QED
      BY <1>2, <2>2, <2>3, <2>5, <2>6, Steps
  <1>3. QED
    BY <1>1, <1>2, InvAlways, PTL DEF Spec, RefinesLossyLog, LL!LogSpec
-----------------------------------------------------------------------------
(***************************************************************************)
(* Counting, at each exit, the entries and the handlers that have answered. *)
(***************************************************************************)
LEMMA CountsAreFinite ==
    ASSUME TypeOK, NEW x \in Exits
    PROVE  /\ IsFiniteSet(Logged(x)) /\ Cardinality(Logged(x)) \in Nat
           /\ IsFiniteSet(ToLog(x)) /\ Cardinality(ToLog(x)) \in Nat
  <1>1. ToLog(x) \in SUBSET Handlers
    BY DEF ToLog
  <1>2. Logged(x) \in SUBSET (1 .. logged) /\ IsFiniteSet(1 .. logged)
    BY FS_Interval DEF Logged, TypeOK, ProxyTypeOK
  <1>3. QED
    BY <1>1, <1>2, FS_Subset, FS_CardinalityType

\* The sums that AnswersAreLogged speaks of.
SumInv ==
    \A x \in Exits :
        /\ Cardinality(Logged(x)) + Cardinality(ToLog(x)) <= answered[x]
        /\ restarts = 0 => Cardinality(Logged(x)) + Cardinality(ToLog(x)) = answered[x]

LEMMA RespondCounts ==
    ASSUME TypeOK, SumInv, NEW h \in Handlers, NEW x \in Exits, Respond(h, x),
           handling' = [handling EXCEPT ![h] = x]
    PROVE  SumInv'
  <1>0. /\ handling \in [Handlers -> {"idle", "resolving"} \cup Exits]
        /\ answered \in [Exits -> Nat] /\ logged \in Nat
        /\ answered' = [answered EXCEPT ![x] = @ + 1]
        /\ UNCHANGED <<logged, says, restarts>> /\ handling[h] = "resolving"
    BY DEF TypeOK, ProxyTypeOK, Respond, boundVars
  <1>1. "resolving" \notin Exits
    BY DEF Exits
  <1>2. ToLog(x)' = ToLog(x) \cup {h} /\ h \notin ToLog(x)
    BY <1>0, <1>1 DEF ToLog
  <1>3. Cardinality(ToLog(x)') = Cardinality(ToLog(x)) + 1
    BY <1>2, CountsAreFinite, FS_AddElement
  <1>4. \A y \in Exits : y # x => ToLog(y)' = ToLog(y)
    BY <1>0, <1>1 DEF ToLog
  <1>5. \A y \in Exits : Logged(y)' = Logged(y)
    BY <1>0 DEF Logged
  <1>6. ASSUME NEW y \in Exits
        PROVE  /\ Cardinality(Logged(y)') + Cardinality(ToLog(y)') <= answered'[y]
               /\ restarts' = 0 =>
                    Cardinality(Logged(y)') + Cardinality(ToLog(y)') = answered'[y]
    <2>1. Cardinality(Logged(y)) \in Nat /\ Cardinality(ToLog(y)) \in Nat
      BY CountsAreFinite
    <2>2. CASE y = x
      BY <1>0, <1>3, <1>5, <2>1, <2>2 DEF SumInv
    <2>3. CASE y # x
      BY <1>0, <1>4, <1>5, <2>1, <2>3 DEF SumInv
    <2>4. QED
      BY <2>2, <2>3
  <1>7. QED
    BY <1>6 DEF SumInv

LEMMA LogCounts ==
    ASSUME TypeOK, SumInv, NEW h \in Handlers, NEW x \in Exits, handling[h] = x, AddLog(x),
           handling' = [handling EXCEPT ![h] = "idle"]
    PROVE  SumInv'
  <1>0. /\ handling \in [Handlers -> {"idle", "resolving"} \cup Exits]
        /\ answered \in [Exits -> Nat] /\ logged \in Nat
        /\ says \in [1 .. logged -> Exits]
        /\ logged' = logged + 1
        /\ says' = [n \in 1 .. logged + 1 |-> IF n = logged + 1 THEN x ELSE says[n]]
        /\ UNCHANGED <<answered, restarts>>
    BY DEF TypeOK, ProxyTypeOK, AddLog, boundVars
  <1>1. "idle" \notin Exits
    BY DEF Exits
  <1>2. ToLog(x)' = ToLog(x) \ {h} /\ h \in ToLog(x)
    BY <1>0, <1>1 DEF ToLog
  <1>3. Cardinality(ToLog(x)') = Cardinality(ToLog(x)) - 1
    <2>1. IsFiniteSet(ToLog(x))
      BY CountsAreFinite
    <2>2. Cardinality(ToLog(x) \ {h}) = Cardinality(ToLog(x)) - 1
      BY <2>1, <1>2, FS_RemoveElement
    <2>3. QED
      BY <2>2, <1>2
  <1>4. \A y \in Exits : y # x => ToLog(y)' = ToLog(y)
    BY <1>0, <1>1 DEF ToLog
  <1>5. 1 .. logged' = (1 .. logged) \cup {logged + 1} /\ logged + 1 \notin 1 .. logged
    BY <1>0
  <1>6. \A n \in 1 .. logged' : says'[n] = IF n = logged + 1 THEN x ELSE says[n]
    BY <1>0
  <1>7. Logged(x)' = Logged(x) \cup {logged + 1} /\ logged + 1 \notin Logged(x)
    BY <1>5, <1>6 DEF Logged
  <1>8. \A y \in Exits : y # x => Logged(y)' = Logged(y)
    BY <1>5, <1>6 DEF Logged
  <1>9. Cardinality(Logged(x)') = Cardinality(Logged(x)) + 1
    BY <1>7, CountsAreFinite, FS_AddElement
  <1>10. ASSUME NEW y \in Exits
         PROVE  Cardinality(Logged(y)') + Cardinality(ToLog(y)') =
                    Cardinality(Logged(y)) + Cardinality(ToLog(y))
    BY <1>3, <1>4, <1>8, <1>9, CountsAreFinite
  <1>11. QED
    BY <1>0, <1>10 DEF SumInv

LEMMA RestartCounts ==
    ASSUME TypeOK, SumInv, Restart
    PROVE  SumInv'
  <1>0. /\ handling' = [h \in Handlers |-> "idle"] /\ restarts' # 0
        /\ UNCHANGED <<answered, logged, says>> /\ answered \in [Exits -> Nat]
    BY DEF TypeOK, ProxyTypeOK, BoundTypeOK, Restart
  <1>1. ASSUME NEW x \in Exits
        PROVE  Cardinality(Logged(x)') + Cardinality(ToLog(x)') <= answered'[x]
    <2>1. ToLog(x)' = {}
      BY <1>0 DEF ToLog, Exits
    <2>2. Cardinality(ToLog(x)') = 0
      BY <2>1, FS_EmptySet
    <2>3. Logged(x)' = Logged(x)
      BY <1>0 DEF Logged
    <2>4. QED
      BY <1>0, <2>2, <2>3, CountsAreFinite DEF SumInv
  <1>2. QED
    BY <1>0, <1>1 DEF SumInv

LEMMA SumStep ==
    ASSUME TypeOK, SumInv, [Next]_vars
    PROVE  SumInv'
  <1>1. ASSUME UNCHANGED <<handling, answered, logged, says, restarts>>
        PROVE  SumInv'
    BY <1>1 DEF SumInv, Logged, ToLog
  <1>2. ASSUME NEW h \in Handlers, Receive(h) \/ Refuse(h)
        PROVE  SumInv'
    <2>1. UNCHANGED <<answered, logged, says, restarts>>
      BY <1>2 DEF Receive, Refuse, boundVars
    <2>2. \A x \in Exits : ToLog(x)' = ToLog(x)
      BY <1>2 DEF Receive, Refuse, ToLog, TypeOK, ProxyTypeOK, Exits
    <2>3. \A x \in Exits : Logged(x)' = Logged(x)
      BY <2>1 DEF Logged
    <2>4. QED
      BY <2>1, <2>2, <2>3 DEF SumInv
  <1>3. ASSUME NEW h \in Handlers, Answer(h)
        PROVE  SumInv'
    BY <1>3, AnAnswer, RespondCounts
  <1>4. ASSUME NEW h \in Handlers, Log(h)
        PROVE  SumInv'
    BY <1>4, ALog, LogCounts
  <1>5. CASE Restart
    BY <1>5, RestartCounts
  <1>6. CASE Shipper \/ Server \/ Cleanup \/ UNCHANGED vars
    <2>1. UNCHANGED <<handling, answered, logged, says, restarts>>
      BY <1>6 DEF Shipper, Ship, GetReply, TimeOut, Break, Server, Ingest, IngestSkipsRow,
                  IngestFails, Cleanup, vars, proxyVars, boundVars
    <2>2. QED
      BY <1>1, <2>1
  <1>7. QED
    BY <1>2, <1>3, <1>4, <1>5, <1>6 DEF Next, Proxy

\* Rows that show an exit stand for entries that tell of it, each for another.
LEMMA ShownIsLogged ==
    ASSUME IInv, NEW x \in Exits
    PROVE  Cardinality(Shown(x)) <= Cardinality(Logged(x))
  <1> DEFINE entryOf == [r \in Shown(x) |-> r.entry]
  <1>1. \A r \in Shown(x) : r.entry \in Logged(x)
    BY DEF IInv, RowInv, PlaceInv, Shown, Logged
  <1>2. entryOf \in Injection(Shown(x), Logged(x))
    <2>1. entryOf \in [Shown(x) -> Logged(x)]
      BY <1>1
    <2>2. ASSUME NEW r1 \in Shown(x), NEW r2 \in Shown(x), entryOf[r1] = entryOf[r2]
          PROVE  r1 = r2
      BY <2>2 DEF IInv, RowInv, Shown
    <2>3. QED
      BY <2>1, <2>2, Fun_IsInj
  <1>3. IsFiniteSet(Logged(x))
    BY CountsAreFinite DEF IInv
  <1>4. QED
    BY <1>2, <1>3, FS_Injection

\* Every answer is logged as what it was, at each exit of handleQuery, but for those
\* whose handlers are between the answer and addLog, or were when the agent stopped;
\* and the server never shows more of a kind than there were.
THEOREM AnswersLogged == Spec => []AnswersAreLogged
  <1>1. Init => SumInv
    <2> SUFFICES ASSUME Init, NEW x \in Exits
                 PROVE  /\ Cardinality(Logged(x)) + Cardinality(ToLog(x)) <= answered[x]
                        /\ Cardinality(Logged(x)) + Cardinality(ToLog(x)) = answered[x]
      BY DEF SumInv
    <2>1. ToLog(x) = {} /\ Logged(x) = {}
      BY DEF Init, ToLog, Logged, Exits
    <2>2. Cardinality(ToLog(x)) = 0 /\ Cardinality(Logged(x)) = 0
      BY <2>1, FS_EmptySet
    <2>3. QED
      BY <2>2 DEF Init
  <1>2. TypeOK /\ SumInv /\ [Next]_vars => SumInv'
    BY SumStep
  <1>3. IInv /\ SumInv => AnswersAreLogged
    BY ShownIsLogged DEF SumInv, AnswersAreLogged
  <1>4. QED
    BY <1>1, <1>2, <1>3, TypeCorrect, InvAlways, PTL DEF Spec

=============================================================================
