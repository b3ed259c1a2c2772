------------------------------ MODULE UrlCheck ------------------------------
(***************************************************************************)
(* The URL monitor: URLs are added and deleted, and a check reads the URL, *)
(* sends a HEAD request that may take for ever (http.Head has no timeout), *)
(* and writes its result with two statements, in no transaction.           *)
(*                                                                         *)
(* A result is the number of the check that got it, in the order of the    *)
(* answers: status, time and error are left out.  Foreign keys are         *)
(* declared but not enforced, so deleting a URL does not delete its        *)
(* history.                                                                *)
(***************************************************************************)
EXTENDS Integers

CONSTANTS
    Urls,       \* URLs as the administrator types them
    Checkers,   \* goroutines in which handleCheckURL runs
    MaxAdds,    \* bound on the URLs added
    MaxAnswers, \* bound on the HEAD requests that end
    MaxFaults   \* bound on failed statements and restarts

ASSUME UrlCheckBoundsAssumption == {MaxAdds, MaxAnswers, MaxFaults} \subseteq Nat

VARIABLES
    rows,       \* urlcheck_urls
    lastId,     \* the last AUTOINCREMENT id of urlcheck_urls
    history,    \* urlcheck_history
    check,      \* what each handler is doing
    answers,    \* HEAD requests that have ended
    faults,
    \* History variable.
    overlapped  \* ids of which two checks have been under way at once

vars == <<rows, lastId, history, check, answers, faults, overlapped>>

Row   == [id : Nat, url : Urls, shown : Nat]
Entry == [id : Nat, url : Urls, result : Nat]
Idle  == [at |-> "idle"]
Check == {Idle} \cup [at : {"asking", "answered", "recorded"}, id : Nat, url : Urls, result : Nat]

TypeOK ==
    /\ rows \subseteq Row /\ history \subseteq Entry
    /\ \A r \in rows : r.id \in 1 .. lastId
    /\ lastId \in Nat
    /\ check \in [Checkers -> Check]
    /\ answers \in 0 .. MaxAnswers
    /\ faults \in 0 .. MaxFaults
    /\ overlapped \subseteq 1 .. lastId

Init ==
    /\ rows = {} /\ lastId = 0 /\ history = {}
    /\ check = [c \in Checkers |-> Idle]
    /\ answers = 0 /\ faults = 0 /\ overlapped = {}

Fault == faults < MaxFaults /\ faults' = faults + 1

-----------------------------------------------------------------------------
\* Fault variant of Add: ids are not AUTOINCREMENT.
AddReusesId(u) ==
    /\ lastId < MaxAdds
    /\ \A r \in rows : r.url # u
    /\ \E i \in 1 .. lastId + 1 :
          /\ \A r \in rows : r.id < i
          /\ i = 1 \/ \E r \in rows : r.id = i - 1
          /\ rows' = rows \cup {[id |-> i, url |-> u, shown |-> 0]}
    /\ lastId' = lastId + 1
    /\ UNCHANGED <<history, check, answers, faults, overlapped>>

\* url is UNIQUE: adding one that is there fails, and changes nothing.
Add(u) ==
    /\ lastId < MaxAdds
    /\ \A r \in rows : r.url # u
    /\ rows' = rows \cup {[id |-> lastId + 1, url |-> u, shown |-> 0]}
    /\ lastId' = lastId + 1
    /\ UNCHANGED <<history, check, answers, faults, overlapped>>

Delete ==
    /\ \E r \in rows : rows' = rows \ {r}
    /\ UNCHANGED <<lastId, history, check, answers, faults, overlapped>>

-----------------------------------------------------------------------------
(***************************************************************************)
(* handleCheckURL                                                          *)
(***************************************************************************)
Busy(i) == \E c \in Checkers : check[c] # Idle /\ check[c].id = i

\* SELECT url: a URL that is not there is a 404.
Select(c) ==
    /\ check[c] = Idle
    /\ \E r \in rows :
          /\ check' = [check EXCEPT ![c] =
                          [at |-> "asking", id |-> r.id, url |-> r.url, result |-> 0]]
          /\ overlapped' = IF Busy(r.id) THEN overlapped \cup {r.id} ELSE overlapped
    /\ UNCHANGED <<rows, lastId, history, answers, faults>>

\* The HEAD request ends, in a status or an error; then the time is taken.
Answer(c) ==
    /\ check[c].at = "asking"
    /\ answers < MaxAnswers
    /\ answers' = answers + 1
    /\ check' = [check EXCEPT ![c] = [@ EXCEPT !.at = "answered", !.result = answers + 1]]
    /\ UNCHANGED <<rows, lastId, history, faults, overlapped>>

\* Whether or not the URL is still there.
Record(c) ==
    /\ check[c].at = "answered"
    /\ history' = history \cup
          {[id |-> check[c].id, url |-> check[c].url, result |-> check[c].result]}
    /\ check' = [check EXCEPT ![c] = [@ EXCEPT !.at = "recorded"]]
    /\ UNCHANGED <<rows, lastId, answers, faults, overlapped>>

\* Fault variant of Update: no WHERE.
UpdateAll(c) ==
    /\ check[c].at = "recorded"
    /\ rows' = {[r EXCEPT !.shown = check[c].result] : r \in rows}
    /\ check' = [check EXCEPT ![c] = Idle]
    /\ UNCHANGED <<lastId, history, answers, faults, overlapped>>

Update(c) ==
    /\ check[c].at = "recorded"
    /\ rows' = {IF r.id = check[c].id THEN [r EXCEPT !.shown = check[c].result] ELSE r : r \in rows}
    /\ check' = [check EXCEPT ![c] = Idle]
    /\ UNCHANGED <<lastId, history, answers, faults, overlapped>>

\* Either statement fails: 500, and what is done stays done.
StatementFails(c) ==
    /\ check[c].at \in {"answered", "recorded"}
    /\ Fault
    /\ check' = [check EXCEPT ![c] = Idle]
    /\ UNCHANGED <<rows, lastId, history, answers, overlapped>>

\* The server stops and starts again; checks under way are gone.
Restart ==
    /\ Fault
    /\ check' = [c \in Checkers |-> Idle]
    /\ UNCHANGED <<rows, lastId, history, answers, overlapped>>

Finish(c) == Record(c) \/ Update(c) \/ StatementFails(c)

Next ==
    \/ \E u \in Urls : Add(u)
    \/ Delete
    \/ \E c \in Checkers : Select(c) \/ Answer(c) \/ Finish(c)
    \/ Restart

Spec == Init /\ [][Next]_vars

-----------------------------------------------------------------------------
(***************************************************************************)
(* Properties                                                              *)
(***************************************************************************)
\* handleGetHistory: the entries under an id.
History(i) == {h \in history : h.id = i}

\* The history shown for a URL is that of the same URL, although the entries of
\* deleted URLs stay, and checks of deleted URLs still add some: no row gets an id
\* that has been used before.
HistoryIsOfItsUrl == \A r \in rows : \A h \in History(r.id) : h.url = r.url

\* "the result of its most recent check" (URL): the status in the list is in the
\* history, and with no check of the URL under way it is the newest there, unless a
\* statement failed, the server stopped, or two checks of the URL have overlapped:
\* then the result that came first may be written last.
ShownIsNewest ==
    \A r \in rows :
        /\ r.shown # 0 => \E h \in History(r.id) : h.result = r.shown
        /\ ~Busy(r.id) /\ r.id \notin overlapped /\ faults = 0 =>
              \A h \in History(r.id) : h.result <= r.shown
=============================================================================
