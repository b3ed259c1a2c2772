------------------------------ MODULE QueryLog ------------------------------
(***************************************************************************)
(* The way of a DNS query's log entry: a handler of the agent's proxy      *)
(* answers the query and appends an entry to a bounded buffer; every 30    *)
(* seconds the shipper goroutine takes the whole buffer and posts it; the  *)
(* server inserts the batch in one transaction and answers.                *)
(*                                                                         *)
(* The n-th entry appended is called n; of what it says only the exit of   *)
(* handleQuery is kept, which its fields Blocked and Answer tell.  addLog  *)
(* and FlushLogs hold the proxy's mutex, so each is one step; the          *)
(* transaction holds the server's only database connection, so it is one   *)
(* step too.  The POST is not sent again: not by this code, and not by     *)
(* net/http, for which a POST is not idempotent.                           *)
(***************************************************************************)
EXTENDS Integers, Sequences, FiniteSets

CONSTANTS
    Handlers,      \* goroutines in which miekg/dns runs handleQuery
    Cap,           \* 10000 in the code
    Drop,          \* 2000 in the code
    MaxQueries,    \* bound on the queries received
    MaxFaults,     \* bound on lost requests and answers and failed statements
    MaxRestarts    \* bound on the agent's restarts

ASSUME HandlersAssumption == IsFiniteSet(Handlers)
ASSUME CapAssumption == Cap \in Nat /\ Drop \in 1 .. Cap
ASSUME LogBoundsAssumption == {MaxQueries, MaxFaults, MaxRestarts} \subseteq Nat

VARIABLES
    handling,   \* where the query of each handler is
    received,   \* queries received so far
    answered,   \* queries answered so far, at each exit
    logged,     \* entries appended so far
    buf,        \* Proxy.logBuf
    waiting,    \* the number of the shipper's request, 0 when it has none
    requests,   \* requests on their way to the server
    replies,    \* replies on their way back
    posted,     \* requests posted so far
    sent,       \* Client.totalSent
    errors,     \* Client.totalErrors
    rows,       \* server: dnsfilter_queries
    lastId,     \* server: the last AUTOINCREMENT id
    faults,
    restarts,
    \* History variables.
    says,       \* the exit that each entry tells of
    stored,     \* entries the server has ever stored
    dropped,    \* addLog has dropped entries
    committed,  \* numbers of the requests the server has committed
    acked       \* numbers of those counted in sent

proxyVars  == <<handling, received, answered, logged, says, buf, dropped>>
shipVars   == <<waiting, posted, sent, errors, acked>>
serverVars == <<rows, lastId, stored, committed>>
boundVars  == <<faults, restarts>>
vars == <<proxyVars, shipVars, serverVars, boundVars, requests, replies>>

\* Where handleQuery answers a question: the name is blocked, no upstream
\* answers (SERVFAIL), or one does.
Exits == {"blocked", "failed", "resolved"}

Entries(s) == {s[i] : i \in DOMAIN s}

Request == [no : Nat \ {0}, batch : Seq(Nat)]
Reply   == [no : Nat \ {0}, ok : BOOLEAN]
Row     == [id : Nat, entry : Nat]

ProxyTypeOK ==
    /\ handling \in [Handlers -> {"idle", "resolving"} \cup Exits]
    /\ received \in 0 .. MaxQueries
    /\ answered \in [Exits -> Nat] /\ logged \in Nat
    /\ says \in [1 .. logged -> Exits]
    /\ buf \in Seq(Nat)
    /\ dropped \in BOOLEAN

ShipTypeOK ==
    /\ posted \in Nat /\ waiting \in 0 .. posted
    /\ sent \in Nat /\ errors \in Nat
    /\ acked \subseteq 1 .. posted

WireTypeOK == requests \subseteq Request /\ replies \subseteq Reply

ServerTypeOK ==
    /\ rows \subseteq Row
    /\ lastId \in Nat /\ committed \subseteq Nat
    /\ stored \subseteq Nat

BoundTypeOK == faults \in 0 .. MaxFaults /\ restarts \in 0 .. MaxRestarts

TypeOK == ProxyTypeOK /\ ShipTypeOK /\ WireTypeOK /\ ServerTypeOK /\ BoundTypeOK

Init ==
    /\ handling = [h \in Handlers |-> "idle"]
    /\ received = 0 /\ answered = [x \in Exits |-> 0] /\ logged = 0 /\ says = <<>>
    /\ buf = <<>> /\ dropped = FALSE
    /\ waiting = 0 /\ posted = 0 /\ sent = 0 /\ errors = 0 /\ acked = {}
    /\ requests = {} /\ replies = {}
    /\ rows = {} /\ lastId = 0 /\ stored = {} /\ committed = {}
    /\ faults = 0 /\ restarts = 0

Fault == faults < MaxFaults /\ faults' = faults + 1

-----------------------------------------------------------------------------
(***************************************************************************)
(* The proxy (handleQuery, addLog)                                         *)
(***************************************************************************)
Receive(h) ==
    /\ handling[h] = "idle"
    /\ received < MaxQueries
    /\ received' = received + 1
    /\ handling' = [handling EXCEPT ![h] = "resolving"]
    /\ UNCHANGED <<answered, logged, says, buf, dropped, shipVars, serverVars, boundVars,
                   requests, replies>>

\* A message that ends after its header has no question: it is refused, and it
\* leaves no entry.
Refuse(h) ==
    /\ handling[h] = "idle"
    /\ received < MaxQueries
    /\ received' = received + 1
    /\ UNCHANGED <<handling, answered, logged, says, buf, dropped, shipVars, serverVars,
                   boundVars, requests, replies>>

\* The client of h gets its answer, of kind x.
Respond(h, x) ==
    /\ handling[h] = "resolving"
    /\ answered' = [answered EXCEPT ![x] = @ + 1]
    /\ UNCHANGED <<received, logged, says, buf, dropped, shipVars, serverVars, boundVars,
                   requests, replies>>

\* A blocked name gets 0.0.0.0, :: or NXDOMAIN, ...
AnswerBlocked(h) == Respond(h, "blocked") /\ handling' = [handling EXCEPT ![h] = "blocked"]

\* Fault variant of AnswerFailed: the handler returns without a log call.
AnswerFailedOnly(h) == Respond(h, "failed") /\ handling' = [handling EXCEPT ![h] = "idle"]

\* ... one that no upstream answers gets SERVFAIL, ...
AnswerFailed(h) == Respond(h, "failed") /\ handling' = [handling EXCEPT ![h] = "failed"]

\* ... and any other the answer of the first upstream that has one.
AnswerResolved(h) == Respond(h, "resolved") /\ handling' = [handling EXCEPT ![h] = "resolved"]

\* Fault variant of MakeRoom: the newest entries go.
MakeRoomAtEnd == IF Len(buf) >= Cap THEN SubSeq(buf, 1, Len(buf) - Drop) ELSE buf

MakeRoom == IF Len(buf) >= Cap THEN SubSeq(buf, Drop + 1, Len(buf)) ELSE buf

AddLog(x) ==
    /\ logged' = logged + 1
    /\ says' = [n \in 1 .. logged + 1 |-> IF n = logged + 1 THEN x ELSE says[n]]
    /\ buf' = Append(MakeRoom, logged + 1)
    /\ dropped' = (dropped \/ Len(buf) >= Cap)
    /\ UNCHANGED <<received, answered, shipVars, serverVars, boundVars, requests, replies>>

\* Each exit has a log call of its own, after the answer.
LogBlocked(h) ==
    /\ handling[h] = "blocked"
    /\ AddLog("blocked")
    /\ handling' = [handling EXCEPT ![h] = "idle"]

LogFailed(h) ==
    /\ handling[h] = "failed"
    /\ AddLog("failed")
    /\ handling' = [handling EXCEPT ![h] = "idle"]

LogResolved(h) ==
    /\ handling[h] = "resolved"
    /\ AddLog("resolved")
    /\ handling' = [handling EXCEPT ![h] = "idle"]

-----------------------------------------------------------------------------
(***************************************************************************)
(* The shipper (FlushLogs, SendDNSLogs).  Whatever the outcome, the batch  *)
(* is not put back.                                                        *)
(***************************************************************************)
\* Fault variants of Ship: an entry appended between the copy of the buffer and its
\* reset is gone; a buffer that is not full waits.
ShipUnlocked ==
    /\ waiting = 0
    /\ buf # <<>>
    /\ buf' = <<>>
    /\ posted' = posted + 1
    /\ waiting' = posted + 1
    /\ \E n \in 1 .. Len(buf) :
          requests' = requests \cup {[no |-> posted + 1, batch |-> SubSeq(buf, 1, n)]}
    /\ UNCHANGED <<handling, received, answered, logged, says, dropped, sent, errors, acked,
                   serverVars, boundVars, replies>>

ShipWhenFull ==
    /\ waiting = 0
    /\ Len(buf) >= Cap
    /\ buf' = <<>>
    /\ posted' = posted + 1
    /\ waiting' = posted + 1
    /\ requests' = requests \cup {[no |-> posted + 1, batch |-> buf]}
    /\ UNCHANGED <<handling, received, answered, logged, says, dropped, sent, errors, acked,
                   serverVars, boundVars, replies>>

Ship ==
    /\ waiting = 0
    /\ buf # <<>>
    /\ buf' = <<>>
    /\ posted' = posted + 1
    /\ waiting' = posted + 1
    /\ requests' = requests \cup {[no |-> posted + 1, batch |-> buf]}
    /\ UNCHANGED <<handling, received, answered, logged, says, dropped, sent, errors, acked,
                   serverVars, boundVars, replies>>

GetReply ==
    /\ \E r \in replies :
          /\ r.no = waiting
          /\ replies' = replies \ {r}
          /\ IF r.ok
             THEN sent' = sent + 1 /\ acked' = acked \cup {r.no} /\ UNCHANGED errors
             ELSE errors' = errors + 1 /\ UNCHANGED <<sent, acked>>
    /\ waiting' = 0
    /\ UNCHANGED <<proxyVars, posted, serverVars, boundVars, requests>>

\* Fault variant of TimeOut: the batch goes back to the buffer.
TimeOutPutsBack ==
    /\ waiting # 0
    /\ Fault
    /\ errors' = errors + 1
    /\ waiting' = 0
    /\ buf' = IF \E r \in requests : r.no = waiting
              THEN (CHOOSE r \in requests : r.no = waiting).batch \o buf
              ELSE buf
    /\ UNCHANGED <<handling, received, answered, logged, says, dropped, posted, sent, acked,
                   serverVars, restarts, requests, replies>>

\* The HTTP client gives up after 30 seconds; the server may still be about to
\* insert the batch.  A reply that comes later meets a closed connection.
TimeOut ==
    /\ waiting # 0
    /\ Fault
    /\ errors' = errors + 1
    /\ waiting' = 0
    /\ UNCHANGED <<proxyVars, posted, sent, acked, serverVars, restarts, requests, replies>>

\* The request or the reply is lost: the connection breaks, and the client sees
\* an error at once.
Break ==
    /\ waiting # 0
    /\ Fault
    /\ requests' = {r \in requests : r.no # waiting}
    /\ replies' = {r \in replies : r.no # waiting}
    /\ errors' = errors + 1
    /\ waiting' = 0
    /\ UNCHANGED <<proxyVars, posted, sent, acked, serverVars, restarts>>

\* The agent stops, by a signal or a crash, and starts again: nothing flushes
\* the buffer.  What has left the agent may still arrive.
Restart ==
    /\ restarts < MaxRestarts
    /\ restarts' = restarts + 1
    /\ handling' = [h \in Handlers |-> "idle"]
    /\ buf' = <<>>
    /\ waiting' = 0 /\ sent' = 0 /\ errors' = 0 /\ acked' = {}
    /\ UNCHANGED <<received, answered, logged, says, dropped, posted, serverVars, faults,
                   requests, replies>>

-----------------------------------------------------------------------------
(***************************************************************************)
(* The server (handleIngest, runCleanup)                                   *)
(***************************************************************************)
Take(r) == requests' = requests \ {r}

\* Fault variant of Ingest: a request that is served stays in the queue.
IngestKeepsRequest(r) ==
    /\ UNCHANGED requests
    /\ rows' = rows \cup {[id |-> lastId + i, entry |-> r.batch[i]] : i \in DOMAIN r.batch}
    /\ lastId' = lastId + Len(r.batch)
    /\ stored' = stored \cup Entries(r.batch)
    /\ committed' = committed \cup {r.no}
    /\ replies' = replies \cup {[no |-> r.no, ok |-> TRUE]}
    /\ UNCHANGED <<proxyVars, shipVars, boundVars>>

Ingest(r) ==
    /\ Take(r)
    /\ rows' = rows \cup {[id |-> lastId + i, entry |-> r.batch[i]] : i \in DOMAIN r.batch}
    /\ lastId' = lastId + Len(r.batch)
    /\ stored' = stored \cup Entries(r.batch)
    /\ committed' = committed \cup {r.no}
    /\ replies' = replies \cup {[no |-> r.no, ok |-> TRUE]}
    /\ UNCHANGED <<proxyVars, shipVars, boundVars>>

\* INSERTs that fail are skipped, and the reply is 200 all the same.  (Which ids
\* the skipped rows would have had does not matter: an id tells rows apart.)
IngestSkipsRow(r) ==
    /\ Take(r)
    /\ Fault
    /\ \E kept \in SUBSET DOMAIN r.batch :
          /\ kept # DOMAIN r.batch
          /\ rows' = rows \cup {[id |-> lastId + i, entry |-> r.batch[i]] : i \in kept}
          /\ stored' = stored \cup {r.batch[i] : i \in kept}
    /\ lastId' = lastId + Len(r.batch)
    /\ committed' = committed \cup {r.no}
    /\ replies' = replies \cup {[no |-> r.no, ok |-> TRUE]}
    /\ UNCHANGED <<proxyVars, shipVars, restarts>>

\* Fault variant of IngestFails: 200 before the commit is known to be done.
IngestFailsSilently(r) ==
    /\ Take(r)
    /\ Fault
    /\ replies' = replies \cup {[no |-> r.no, ok |-> TRUE]}
    /\ UNCHANGED <<proxyVars, shipVars, serverVars, restarts>>

\* Begin or Commit fails: 500, and nothing of the batch is stored.
IngestFails(r) ==
    /\ Take(r)
    /\ Fault
    /\ replies' = replies \cup {[no |-> r.no, ok |-> FALSE]}
    /\ UNCHANGED <<proxyVars, shipVars, serverVars, restarts>>

\* The hourly cleanup deletes the rows older than 7 days.  Entries carry the
\* agent's clock, so the oldest entries go first.
Cleanup ==
    /\ \E n \in {r.entry : r \in rows} :
          rows' = {r \in rows : r.entry > n}
    /\ rows' # rows
    /\ UNCHANGED <<proxyVars, shipVars, boundVars, requests, replies, lastId, stored, committed>>

-----------------------------------------------------------------------------
Answer(h) == AnswerBlocked(h) \/ AnswerFailed(h) \/ AnswerResolved(h)

Log(h) == LogBlocked(h) \/ LogFailed(h) \/ LogResolved(h)

Proxy == \E h \in Handlers : Receive(h) \/ Refuse(h) \/ Answer(h) \/ Log(h)

Shipper == Ship \/ GetReply \/ TimeOut \/ Break

Server == \E r \in requests : Ingest(r) \/ IngestSkipsRow(r) \/ IngestFails(r)

Next == Proxy \/ Shipper \/ Server \/ Restart \/ Cleanup

Spec == Init /\ [][Next]_vars

(***************************************************************************)
(* Goroutines that can run do; the shipper's ticker goes on, and its       *)
(* request ends with a reply or after 30 seconds.                          *)
(***************************************************************************)
Fairness ==
    /\ \A h \in Handlers : WF_vars(Answer(h) \/ Log(h))
    /\ WF_vars(Shipper)
    /\ WF_vars(Server)

FairSpec == Spec /\ Fairness

-----------------------------------------------------------------------------
(***************************************************************************)
(* Properties                                                              *)
(***************************************************************************)
\* The entries that are on their way.
Open == Entries(buf) \cup UNION {Entries(r.batch) : r \in requests}

\* No entry is in two rows, and none is in a row while it is still on its way:
\* no timeout, restart or late request makes the server count a query twice.
AtMostOnce ==
    /\ \A r1, r2 \in rows : r1.entry = r2.entry => r1 = r2
    /\ \A r \in rows : r.entry \notin Open

\* The buffer holds at most Cap entries, always the newest ones, in order:
\* however long the server is away, what makes room is what is oldest.
BufferKeepsNewest ==
    /\ Len(buf) <= Cap
    /\ \A i \in DOMAIN buf : buf[i] = logged - Len(buf) + i

\* The entries that tell of an exit, the handlers that have left by it and not yet
\* logged it, and the rows that show it.
Logged(x)  == {n \in 1 .. logged : says[n] = x}
ToLog(x)   == {h \in Handlers : handling[h] = x}
Shown(x)   == {r \in rows : says[r.entry] = x}

\* The log tells what the clients were told.  At each of the three exits, every
\* answer has one entry that says so, or the handler is about to log it (a restart
\* can lose those); and however often batches are sent or rows deleted, the server
\* never shows more blocked, failed or resolved queries than there were.
AnswersAreLogged ==
    \A x \in Exits :
        /\ Cardinality(Logged(x)) + Cardinality(ToLog(x)) <= answered[x]
        /\ restarts = 0 => Cardinality(Logged(x)) + Cardinality(ToLog(x)) = answered[x]
        /\ Cardinality(Shown(x)) <= Cardinality(Logged(x))

\* The agent counts a batch as sent once, and only if the server has committed this
\* very batch: no late reply, to a request given up or of an earlier run of the
\* agent, and no failed commit is taken for one.
SentWasCommitted ==
    /\ acked \subseteq committed
    /\ sent = Cardinality(acked)

\* An entry is lost for one of the known reasons only: a fault on the way, a
\* full buffer or a restart of the agent.
NoLossWithoutCause ==
    faults = 0 /\ restarts = 0 /\ ~dropped => 1 .. logged \subseteq Open \cup stored

\* The log is best effort and at most once (the promise of LossyLog).
LL == INSTANCE LossyLog WITH open <- Open
RefinesLossyLog == LL!LogSpec

\* Every entry gets stored or lost: none waits for ever in a buffer or a request.
EntriesSettle == \A n \in 1 .. MaxQueries : (n \in Open) ~> (n \notin Open)
=============================================================================
